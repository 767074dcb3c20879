--------------------------- MODULE GenerateProofs ---------------------------
(***************************************************************************)
(* Proofs about Generate, for every vocabulary, prompt, limit and size of  *)
(* the ring: the detectors of the response loop keep an exact account of   *)
(* the text in a counter, a sum and a ring, so that nothing degenerate is  *)
(* streamed and nothing is cut without its defect; and the response loop   *)
(* implements the stream of tokens.                                        *)
(*                                                                         *)
(* And about Sampler, which every token of a response comes from, for      *)
(* every vocabulary, logits, arguments and limits of its shortcuts: the    *)
(* penalty is applied once, the shortcuts keep what a sort would keep, and *)
(* a candidate is drawn by its weight.                                     *)
(***************************************************************************)
EXTENDS Generate, Sampler, WorkRangeProofs, SequenceTheorems

-----------------------------------------------------------------------------
(* The invariant.                                                          *)

Text == prompt \o out

Newest(s) == IF s = <<>> THEN Unset ELSE s[Len(s)]

\* The newest r tokens of s are equal, and no more than those.
RunLength(s, r) ==
  /\ s = <<>> => r = 0
  /\ s # <<>> =>
       /\ r \in 1 .. Len(s)
       /\ \A i \in Len(s) - r + 1 .. Len(s) : s[i] = s[Len(s)]
       /\ r < Len(s) => s[Len(s) - r] # s[Len(s)]

Newlines(s) == Count(s, NL) + 2 * Count(s, NLNL)

\* The newest tokens of s are in the ring, each at its number modulo its size.
RingHolds(s, ring) ==
  /\ ring \in [0 .. BufSize - 1 -> Token \cup {Unset}]
  /\ \A i \in 1 .. Len(s) : i + BufSize > Len(s) => ring[(i - 1) % BufSize] = s[i]

TypeInv ==
  /\ pc \in {"prefill", "loop", "check", "stopped"}
  /\ mode \in {"chat", "one-shot"}
  /\ prompt \in Seq(Token) /\ prompt # <<>> /\ out \in Seq(Token)
  /\ pc = "check" => next \in Token
  /\ pc # "stopped" => why = "none"

StreamInv ==
  /\ pc = "prefill" => /\ out = <<>> /\ fed = <<>>
                       /\ current = prompt[Len(prompt)]
  /\ pc = "loop" => /\ fed = SubSeq(Text, 1, Len(Text) - 1)
                    /\ current = Text[Len(Text)]
  /\ pc = "check" => fed = Text

Detectors ==
  /\ prev = Newest(out) /\ rtok = Newest(out)
  /\ RunLength(out, rcount)
  /\ para = Newlines(out)
  /\ npos = Len(out) % BufSize
  /\ nfill = IF Len(out) < BufSize THEN Len(out) ELSE BufSize
  /\ RingHolds(out, buf)

DetectorInv == mode = "chat" => Detectors

IInv == TypeInv /\ StreamInv /\ DetectorInv

-----------------------------------------------------------------------------
(* Counting newlines.                                                      *)

LEMMA CountEmpty == \A y : Count(<<>>, y) = 0
<1> SUFFICES ASSUME NEW y PROVE Count(<<>>, y) = 0
  OBVIOUS
<1>1. {j \in 1 .. Len(<<>>) : <<>>[j] = y} = {}
  BY EmptySeq
<1> QED
  BY <1>1, FS_EmptySet DEF Count

LEMMA CountAppend ==
  ASSUME NEW s \in Seq(Token), NEW x \in Token, NEW y
  PROVE  /\ Count(s, y) \in Nat
         /\ Count(Append(s, x), y) = IF x = y THEN Count(s, y) + 1
                                     ELSE Count(s, y)
<1> DEFINE n == Len(s)
           C == {j \in 1 .. n : s[j] = y}
           D == {j \in 1 .. Len(Append(s, x)) : Append(s, x)[j] = y}
<1>1. n \in Nat
  BY LenProperties
<1>2. /\ Len(Append(s, x)) = n + 1
      /\ \A j \in 1 .. n : Append(s, x)[j] = s[j]
      /\ Append(s, x)[n + 1] = x
  BY AppendProperties
<1>3. IsFiniteSet(C) /\ n + 1 \notin C
  <2> HIDE DEF n
  <2>1. IsFiniteSet(1 .. n)
    BY <1>1, FS_Interval
  <2> QED
    BY <1>1, <2>1, FS_Subset
<1>4. D = IF x = y THEN C \cup {n + 1} ELSE C
  <2> DEFINE m == Len(Append(s, x))
             f == Append(s, x)
  <2>1. m = n + 1 /\ f[n + 1] = x /\ \A j \in 1 .. n : f[j] = s[j]
    BY <1>2
  <2> HIDE DEF m, f, n
  <2>2. {j \in 1 .. m : f[j] = y} = IF x = y THEN C \cup {n + 1} ELSE C
    BY <1>1, <2>1
  <2> QED
    BY <2>2 DEF m, f
<1>5. Count(s, y) = Cardinality(C) /\ Count(Append(s, x), y) = Cardinality(D)
  BY DEF Count
<1> HIDE DEF C, D
<1>6. Cardinality(C) \in Nat
  BY <1>3, FS_CardinalityType
<1>7. Cardinality(C \cup {n + 1}) = Cardinality(C) + 1
  BY <1>3, FS_AddElement
<1> QED
  BY <1>4, <1>5, <1>6, <1>7

LEMMA NewlinesAppend ==
  ASSUME NEW s \in Seq(Token), NEW x \in Token
  PROVE  /\ Newlines(s) \in Nat
         /\ Newlines(Append(s, x))
              = Newlines(s) + CASE x = NL -> 1 [] x = NLNL -> 2 [] OTHER -> 0
<1>1. /\ Count(s, NL) \in Nat /\ Count(s, NLNL) \in Nat
      /\ Count(Append(s, x), NL) = IF x = NL THEN Count(s, NL) + 1
                                   ELSE Count(s, NL)
      /\ Count(Append(s, x), NLNL) = IF x = NLNL THEN Count(s, NLNL) + 1
                                     ELSE Count(s, NLNL)
  BY CountAppend
<1>2. NL # NLNL
  BY ParametersAssumption
<1> QED
  BY <1>1, <1>2 DEF Newlines

-----------------------------------------------------------------------------
(* The ring of recent tokens.                                              *)

LEMMA SlotNext ==
  ASSUME NEW b \in Nat \ {0}, NEW l \in Nat
  PROVE  ((l % b) + 1) % b = (l + 1) % b
<1> DEFINE q == l \div b
           r == l % b
<1>1. q \in Nat /\ r \in 0 .. b - 1 /\ l = b * q + r
  BY Division
<1> HIDE DEF q, r
<1>2. CASE r + 1 < b
  <2>1. r + 1 \in 0 .. b - 1 /\ l + 1 = q * b + (r + 1)
    BY <1>1, <1>2
  <2>2. (l + 1) % b = r + 1
    BY <1>1, <2>1, Digits
  <2>3. r + 1 = 0 * b + (r + 1)
    BY <1>1
  <2>4. (r + 1) % b = r + 1
    BY <2>1, <2>3, Digits
  <2> QED
    BY <2>2, <2>4 DEF r
<1>3. CASE ~(r + 1 < b)
  <2>1. r + 1 = b
    BY <1>1, <1>3
  <2>2. l + 1 = (q + 1) * b + 0 /\ b = 1 * b + 0 /\ 0 \in 0 .. b - 1 /\ q + 1 \in Nat
    BY <1>1, <2>1
  <2>3. (l + 1) % b = 0 /\ b % b = 0
    BY <2>2, Digits
  <2> QED
    BY <2>1, <2>3 DEF r
<1> QED
  BY <1>2, <1>3

\* Counting back over the wrap of the ring.
LEMMA SlotBack ==
  ASSUME NEW b \in Nat \ {0}, NEW l \in Nat, NEW j \in 0 .. b - 1, j < l
  PROVE  ((l % b) - 1 - j + b) % b = (l - 1 - j) % b
<1> DEFINE q == l \div b
           r == l % b
<1>1. q \in Nat /\ r \in 0 .. b - 1 /\ l = b * q + r
  BY Division
<1> HIDE DEF q, r
<1>2. CASE j < r
  <2> DEFINE i == r - 1 - j
  <2>1. i \in 0 .. b - 1 /\ l - 1 - j = q * b + i /\ r - 1 - j + b = 1 * b + i
    BY <1>1, <1>2
  <2> HIDE DEF i
  <2>2. (l - 1 - j) % b = i /\ (r - 1 - j + b) % b = i
    BY <1>1, <2>1, Digits
  <2> QED
    BY <2>2 DEF r
<1>3. CASE ~(j < r)
  <2> DEFINE i == r - 1 - j + b
  <2>1. q # 0
    BY <1>1, <1>3
  <2>2. /\ i \in 0 .. b - 1 /\ l - 1 - j = (q - 1) * b + i
        /\ i = 0 * b + i /\ q - 1 \in Nat
    BY <1>1, <1>3, <2>1
  <2>3. r - 1 - j + b = i
    OBVIOUS
  <2> HIDE DEF i
  <2>4. (l - 1 - j) % b = i /\ i % b = i
    BY <2>2, Digits
  <2> QED
    BY <2>3, <2>4 DEF r
<1> QED
  BY <1>2, <1>3

\* Fewer than b apart: different slots.
LEMMA SlotsApart ==
  ASSUME NEW b \in Nat \ {0}, NEW i \in Nat, NEW m \in Nat, i < m, m < i + b
  PROVE  i % b # m % b
<1> DEFINE p == i \div b
           q == m \div b
           r == i % b
<1> SUFFICES ASSUME i % b = m % b PROVE FALSE
  OBVIOUS
<1>1. /\ p \in Nat /\ q \in Nat /\ r \in 0 .. b - 1
      /\ i = b * p + r /\ m = b * q + r
  BY Division
<1> HIDE DEF p, q, r
<1>2. CASE q <= p
  <2>1. p - q \in Nat /\ b * p = b * q + b * (p - q)
    BY <1>1, <1>2
  <2>2. b * (p - q) \in Nat /\ b * q \in Nat
    BY <1>1, <2>1, Product
  <2> QED
    BY <1>1, <2>1, <2>2
<1>3. CASE q > p
  <2>1. q - p - 1 \in Nat /\ b * q = b * p + b + b * (q - p - 1)
    BY <1>1, <1>3
  <2>2. b * (q - p - 1) \in Nat /\ b * p \in Nat
    BY <1>1, <2>1, Product
  <2> QED
    BY <1>1, <2>1, <2>2
<1> QED
  BY <1>1, <1>2, <1>3

LEMMA RingAppend ==
  ASSUME NEW s \in Seq(Token), NEW x \in Token, NEW ring, RingHolds(s, ring)
  PROVE  RingHolds(Append(s, x), [ring EXCEPT ![Len(s) % BufSize] = x])
<1> DEFINE n == Len(s)
           t == Append(s, x)
           slot == n % BufSize
           new == [ring EXCEPT ![slot] = x]
<1>1. n \in Nat /\ BufSize \in Nat \ {0}
  BY LenProperties, ParametersAssumption
<1>2. Len(t) = n + 1 /\ t[n + 1] = x /\ \A i \in 1 .. n : t[i] = s[i]
  BY AppendProperties
<1>3. \A i \in 1 .. n : i + BufSize > n => ring[(i - 1) % BufSize] = s[i]
  BY DEF RingHolds
<1>4. slot \in 0 .. BufSize - 1
  BY <1>1
<1>5. new \in [0 .. BufSize - 1 -> Token \cup {Unset}] /\ new[slot] = x
      /\ \A k \in 0 .. BufSize - 1 : k # slot => new[k] = ring[k]
  <2> HIDE DEF slot
  <2>1. ring \in [0 .. BufSize - 1 -> Token \cup {Unset}]
    BY DEF RingHolds
  <2> QED
    BY <1>4, <2>1
<1> HIDE DEF t, new
<1>6. ASSUME NEW i \in 1 .. n + 1, i + BufSize > n + 1
      PROVE  new[(i - 1) % BufSize] = t[i]
  <2>1. CASE i = n + 1
    <3>1. i - 1 = n
      BY <1>1, <2>1
    <3> QED
      BY <1>2, <1>5, <2>1, <3>1
  <2>2. CASE i # n + 1
    <3>1. i \in 1 .. n /\ i - 1 \in Nat /\ i - 1 < n /\ n < i - 1 + BufSize
          /\ i + BufSize > n
      <4> HIDE DEF n
      <4> QED
        BY <1>1, <1>6, <2>2
    <3>2. (i - 1) % BufSize # slot
      <4> HIDE DEF n
      <4> QED
        BY <1>1, <3>1, SlotsApart
    <3>3. (i - 1) % BufSize \in 0 .. BufSize - 1
      BY <1>1, <3>1
    <3>4. new[(i - 1) % BufSize] = ring[(i - 1) % BufSize]
      <4> HIDE DEF slot
      <4> QED
        BY <1>5, <3>2, <3>3
    <3> QED
      BY <1>2, <1>3, <3>1, <3>4
  <2> QED
    BY <2>1, <2>2
<1>7. \A i \in 1 .. Len(t) : i + BufSize > Len(t) => new[(i - 1) % BufSize] = t[i]
  BY <1>2, <1>6
<1> QED
  BY <1>5, <1>7 DEF RingHolds, t, new

\* Two patterns in a row, token by token.
LEMMA PatternIs ==
  ASSUME NEW s \in Seq(Token), NEW k \in Nat \ {0}
  PROVE  EndsInPattern(s, k) <=>
           /\ Len(s) >= 2 * k
           /\ \A j \in 0 .. k - 1 : s[Len(s) - j] = s[Len(s) - j - k]
<1> DEFINE n == Len(s)
           u == SubSeq(s, n - k + 1, n)
           v == SubSeq(s, n - 2 * k + 1, n - k)
<1>1. n \in Nat /\ s \in [1 .. n -> Token]
  BY LenProperties
<1> SUFFICES ASSUME n >= 2 * k
             PROVE  u = v <=> \A j \in 0 .. k - 1 : s[n - j] = s[n - j - k]
  BY DEF EndsInPattern
<1>2. /\ u \in Seq(Token) /\ Len(u) = k
      /\ \A i \in 1 .. k : u[i] = s[n - k + i]
  <2> HIDE DEF n
  <2>1. n - k + 1 \in Int /\ n - k + 1 <= n /\ n - (n - k + 1) + 1 = k
    BY <1>1
  <2>2. \A i \in n - k + 1 .. n : s[i] \in Token
    BY <1>1
  <2>3. \A i \in 1 .. k : n - k + 1 + i - 1 = n - k + i
    BY <1>1
  <2> QED
    BY <1>1, <2>1, <2>2, <2>3, SubSeqProperties
<1>3. /\ v \in Seq(Token) /\ Len(v) = k
      /\ \A i \in 1 .. k : v[i] = s[n - 2 * k + i]
  <2> HIDE DEF n
  <2>1. /\ n - 2 * k + 1 \in Int /\ n - k \in Int /\ n - 2 * k + 1 <= n - k
        /\ n - k - (n - 2 * k + 1) + 1 = k
    BY <1>1
  <2>2. \A i \in n - 2 * k + 1 .. n - k : s[i] \in Token
    BY <1>1
  <2>3. \A i \in 1 .. k : n - 2 * k + 1 + i - 1 = n - 2 * k + i
    BY <1>1
  <2> QED
    BY <1>1, <2>1, <2>2, <2>3, SubSeqProperties
<1> HIDE DEF u, v
<1>4. ASSUME u = v, NEW j \in 0 .. k - 1
      PROVE  s[n - j] = s[n - j - k]
  <2>1. /\ k - j \in 1 .. k /\ n - k + (k - j) = n - j
        /\ n - 2 * k + (k - j) = n - j - k
    BY <1>1
  <2> QED
    BY <1>2, <1>3, <1>4, <2>1
<1>5. ASSUME \A j \in 0 .. k - 1 : s[n - j] = s[n - j - k]
      PROVE  u = v
  <2>1. ASSUME NEW i \in 1 .. k PROVE u[i] = v[i]
    <3>1. /\ k - i \in 0 .. k - 1 /\ n - (k - i) = n - k + i
          /\ n - (k - i) - k = n - 2 * k + i
      BY <1>1
    <3> QED
      BY <1>2, <1>3, <1>5, <3>1
  <2> QED
    BY <1>2, <1>3, <2>1, SeqEqual
<1> QED
  BY <1>4, <1>5

-----------------------------------------------------------------------------
(* The detectors, each against the text it is about.                       *)

Sampled == IInv /\ mode = "chat" /\ pc = "check"
Shown == Append(out, next)

LEMMA ShownIs ==
  ASSUME Sampled
  PROVE  /\ out \in Seq(Token) /\ next \in Token /\ Len(out) \in Nat
         /\ Shown \in Seq(Token) /\ Shown # <<>> /\ Len(Shown) = Len(out) + 1
         /\ \A i \in 1 .. Len(out) : Shown[i] = out[i]
         /\ Shown[Len(out) + 1] = next
         /\ Detectors
<1>1. out \in Seq(Token) /\ next \in Token /\ Detectors
  BY DEF Sampled, IInv, TypeInv, DetectorInv
<1> QED
  BY <1>1, LenProperties, AppendProperties DEF Shown

LEMMA BufferNext ==
  ASSUME Sampled
  PROVE  /\ RingHolds(Shown, NewBuf)
         /\ NewPos = Len(Shown) % BufSize
         /\ NewFill = IF Len(Shown) < BufSize THEN Len(Shown) ELSE BufSize
<1>1. BufSize \in Nat \ {0}
  BY ParametersAssumption
<1>2. NewPos = Len(Shown) % BufSize
  BY <1>1, ShownIs, SlotNext DEF NewPos, Detectors
<1>3. NewFill = IF Len(Shown) < BufSize THEN Len(Shown) ELSE BufSize
  <2> DEFINE n == Len(out)
  <2>1. n \in Nat /\ Len(Shown) = n + 1
        /\ nfill = IF n < BufSize THEN n ELSE BufSize
    BY ShownIs DEF Detectors
  <2> HIDE DEF n
  <2> QED
    BY <1>1, <2>1 DEF NewFill
<1>4. RingHolds(Shown, NewBuf)
  <2>1. RingHolds(out, buf) /\ npos = Len(out) % BufSize
    BY ShownIs DEF Detectors
  <2> QED
    BY <2>1, ShownIs, RingAppend DEF NewBuf, Shown
<1> QED
  BY <1>2, <1>3, <1>4

\* Entry j of the ring is the token j before the newest, never an unwritten
\* one, also where the ring has wrapped.
LEMMA BackIs ==
  ASSUME Sampled, NEW j \in Nat, j < NewFill
  PROVE  Back(j) = Shown[Len(Shown) - j]
<1> DEFINE n == Len(Shown)
<1>1. BufSize \in Nat \ {0} /\ n \in Nat
  BY ParametersAssumption, ShownIs, LenProperties
<1>2. j < n /\ j \in 0 .. BufSize - 1
  <2>1. NewFill = IF n < BufSize THEN n ELSE BufSize
    BY BufferNext
  <2> HIDE DEF n
  <2> QED
    BY <1>1, <2>1
<1>3. (NewPos - 1 - j + BufSize) % BufSize = (n - 1 - j) % BufSize
  BY <1>1, <1>2, BufferNext, SlotBack
<1>4. n - j \in 1 .. n /\ n - j + BufSize > n /\ n - 1 - j = (n - j) - 1
  <2> HIDE DEF n
  <2> QED
    BY <1>1, <1>2
<1>5. NewBuf[((n - j) - 1) % BufSize] = Shown[n - j]
  BY <1>4, BufferNext DEF RingHolds
<1> QED
  BY <1>3, <1>4, <1>5 DEF Back

LEMMA LoopsIs ==
  ASSUME Sampled
  PROVE  Loops <=> \E k \in 3 .. MaxK : EndsInPattern(Shown, k)
<1> DEFINE n == Len(Shown)
<1>1. /\ BufSize \in Nat \ {0} /\ MaxK \in Nat /\ 2 * MaxK <= BufSize /\ n \in Nat
      /\ Shown \in Seq(Token)
  BY ParametersAssumption, ShownIs, LenProperties
<1>2. NewFill = IF n < BufSize THEN n ELSE BufSize
  BY BufferNext
<1>3. ASSUME NEW k \in 3 .. MaxK
      PROVE  (NewFill >= 6 /\ k <= NewFill \div 2
                /\ \A j \in 0 .. k - 1 : Back(j) = Back(j + k))
               <=> EndsInPattern(Shown, k)
  <2>1. (NewFill >= 6 /\ k <= NewFill \div 2) <=> n >= 2 * k
    <3> HIDE DEF n
    <3>1. NewFill \in Nat
      BY <1>1, <1>2
    <3>2. k <= NewFill \div 2 <=> 2 * k <= NewFill
      BY <3>1
    <3> QED
      BY <1>1, <1>2, <3>1, <3>2
  <2>2. ASSUME n >= 2 * k, NEW j \in 0 .. k - 1
        PROVE  Back(j) = Shown[n - j] /\ Back(j + k) = Shown[n - j - k]
    <3>1. j \in Nat /\ j < NewFill /\ j + k \in Nat /\ j + k < NewFill
          /\ n - (j + k) = n - j - k
      <4> HIDE DEF n
      <4> QED
        BY <1>1, <1>2, <2>2
    <3> QED
      BY <3>1, BackIs
  <2>3. k \in Nat \ {0}
    BY <1>1
  <2>4. EndsInPattern(Shown, k) <=>
          n >= 2 * k /\ \A j \in 0 .. k - 1 : Shown[n - j] = Shown[n - j - k]
    BY <1>1, <2>3, PatternIs
  <2> QED
    BY <2>1, <2>2, <2>4
<1> QED
  BY <1>3 DEF Loops

\* The counter counts the run that ends the text.
LEMMA RunNext ==
  ASSUME Sampled
  PROVE  RunLength(Shown, NewCount)
<1> DEFINE n == Len(out)
<1>1. /\ n \in Nat /\ Len(Shown) = n + 1 /\ Shown # <<>>
      /\ \A i \in 1 .. n : Shown[i] = out[i]
      /\ Shown[n + 1] = next /\ next \in Token
  BY ShownIs
<1>2. RunLength(out, rcount) /\ rtok = Newest(out)
  BY ShownIs DEF Detectors
<1>3. out = <<>> <=> n = 0
  BY ShownIs, EmptySeq
<1> HIDE DEF n
<1>4. CASE next = rtok
  <2>1. out # <<>>
    BY <1>1, <1>2, <1>4, ParametersAssumption DEF Newest
  <2>2. /\ rcount \in 1 .. n /\ next = out[n]
        /\ \A i \in n - rcount + 1 .. n : out[i] = out[n]
        /\ rcount < n => out[n - rcount] # out[n]
    BY <1>2, <1>4, <2>1 DEF RunLength, Newest, n
  <2>3. NewCount = rcount + 1
    BY <1>4 DEF NewCount
  <2>4. NewCount \in 1 .. n + 1
    BY <1>1, <2>2, <2>3
  <2>5. ASSUME NEW i \in n + 1 - NewCount + 1 .. n + 1
        PROVE  Shown[i] = next
    <3>1. i = n + 1 \/ i \in n - rcount + 1 .. n
      BY <1>1, <2>2, <2>3
    <3>2. n - rcount + 1 .. n \subseteq 1 .. n
      BY <1>1, <2>2
    <3> QED
      BY <1>1, <2>2, <3>1, <3>2
  <2>6. ASSUME NewCount < n + 1
        PROVE  Shown[n + 1 - NewCount] # next
    <3>1. rcount < n /\ n + 1 - NewCount = n - rcount /\ n - rcount \in 1 .. n
      BY <1>1, <2>2, <2>3, <2>6
    <3> QED
      BY <1>1, <2>2, <3>1
  <2> QED
    BY <1>1, <2>4, <2>5, <2>6 DEF RunLength
<1>5. CASE next # rtok
  <2>1. NewCount = 1
    BY <1>5 DEF NewCount
  <2>2. n + 1 - 1 + 1 .. n + 1 = {n + 1}
    BY <1>1
  <2>3. 1 \in 1 .. n + 1 /\ n + 1 - 1 = n
    BY <1>1
  <2>4. ASSUME 1 < n + 1
        PROVE  Shown[n] # next
    <3>1. n \in 1 .. n /\ out # <<>>
      BY <1>1, <1>3, <2>4
    <3>2. rtok = out[n]
      BY <1>2, <3>1 DEF Newest, n
    <3> QED
      BY <1>1, <1>5, <3>1, <3>2
  <2> QED
    BY <1>1, <2>1, <2>2, <2>3, <2>4 DEF RunLength
<1> QED
  BY <1>4, <1>5

LEMMA RunIs ==
  ASSUME NEW s \in Seq(Token), NEW r, RunLength(s, r), NEW m \in Nat \ {0}
  PROVE  EndsInRun(s, m) <=> s # <<>> /\ m <= r
<1> DEFINE n == Len(s)
<1>1. n \in Nat /\ (s = <<>> <=> n = 0)
  BY LenProperties, EmptySeq
<1>2. EndsInRun(s, m) <=> n >= m /\ \A i \in n - m + 1 .. n : s[i] = s[n]
  BY DEF EndsInRun
<1>3. s # <<>> => /\ r \in 1 .. n
                  /\ \A i \in n - r + 1 .. n : s[i] = s[n]
                  /\ r < n => s[n - r] # s[n]
  BY DEF RunLength
<1> HIDE DEF n
<1>4. ASSUME n >= m, \A i \in n - m + 1 .. n : s[i] = s[n]
      PROVE  s # <<>> /\ m <= r
  <2>1. s # <<>>
    BY <1>1, <1>4
  <2>2. ASSUME r < m PROVE FALSE
    <3>1. n - r \in n - m + 1 .. n /\ r < n
      BY <1>1, <1>3, <1>4, <2>1, <2>2
    <3> QED
      BY <1>3, <1>4, <2>1, <3>1
  <2> QED
    BY <1>1, <1>3, <2>1, <2>2
<1>5. ASSUME s # <<>>, m <= r
      PROVE  n >= m /\ \A i \in n - m + 1 .. n : s[i] = s[n]
  <2>1. n >= m /\ n - m + 1 .. n \subseteq n - r + 1 .. n
    BY <1>1, <1>3, <1>5
  <2> QED
    BY <1>3, <1>5, <2>1
<1> QED
  BY <1>2, <1>4, <1>5

\* A run of the limit is one the counter sees.
LEMMA RepeatsIs ==
  ASSUME Sampled
  PROVE  /\ Repeats => EndsInRun(Shown, RepeatLimit)
         /\ RepeatLimit > 1 /\ EndsInRun(Shown, RepeatLimit) => Repeats
<1>1. RepeatLimit \in Nat \ {0} /\ Shown \in Seq(Token) /\ Shown # <<>>
  BY ParametersAssumption, ShownIs
<1>2. EndsInRun(Shown, RepeatLimit) <=> RepeatLimit <= NewCount
  BY <1>1, RunNext, RunIs
<1>3. NewCount \in Nat
  <2>1. NewCount \in 1 .. Len(Shown)
    BY <1>1, RunNext DEF RunLength
  <2> QED
    BY <1>1, <2>1, LenProperties
<1>4. NewCount > 1 => next = rtok
  BY DEF NewCount
<1> HIDE DEF NewCount
<1> QED
  BY <1>1, <1>2, <1>3, <1>4 DEF Repeats

-----------------------------------------------------------------------------
(* The invariant is inductive.                                             *)

LEMMA InitInv == Init => IInv
<1> SUFFICES ASSUME Init PROVE IInv
  OBVIOUS
<1>1. BufSize \in Nat \ {0} /\ prompt \in Seq(Token) /\ prompt # <<>>
  BY ParametersAssumption DEF Init
<1>2. out = <<>> /\ out \in Seq(Token) /\ Len(out) = 0
  BY EmptySeq DEF Init
<1>3. TypeInv /\ StreamInv
  BY <1>1, <1>2 DEF Init, TypeInv, StreamInv
<1>4. Newlines(out) = 0
  BY <1>2, CountEmpty DEF Newlines
<1>5. RingHolds(out, buf)
  BY <1>2 DEF Init, RingHolds
<1>6. 0 % BufSize = 0
  <2>1. 0 = 0 * BufSize + 0 /\ 0 \in 0 .. BufSize - 1
    BY <1>1
  <2> QED
    BY <1>1, <2>1, Digits
<1>7. Detectors
  BY <1>1, <1>2, <1>4, <1>5, <1>6 DEF Init, Detectors, Newest, RunLength
<1> QED
  BY <1>3, <1>7 DEF IInv, DetectorInv

LEMMA TextIs ==
  ASSUME IInv
  PROVE  /\ Text \in Seq(Token) /\ Len(Text) = Len(prompt) + Len(out)
         /\ Len(prompt) \in Nat \ {0} /\ Len(out) \in Nat
         /\ Len(Text) \in Nat \ {0}
<1>1. prompt \in Seq(Token) /\ prompt # <<>> /\ out \in Seq(Token)
  BY DEF IInv, TypeInv
<1>2. Len(prompt) \in Nat \ {0} /\ Len(out) \in Nat
  BY <1>1, EmptySeq, LenProperties
<1>3. Text \in Seq(Token) /\ Len(Text) = Len(prompt) + Len(out)
  BY <1>1, ConcatProperties DEF Text
<1> QED
  BY <1>2, <1>3

\* One more token shown: the text and the account of it.
LEMMA TextAppend ==
  ASSUME IInv, NEW x \in Token
  PROVE  /\ Append(out, x) \in Seq(Token)
         /\ prompt \o Append(out, x) = Append(Text, x)
         /\ Len(Append(Text, x)) = Len(Text) + 1
         /\ Append(Text, x)[Len(Text) + 1] = x
         /\ SubSeq(Append(Text, x), 1, Len(Text)) = Text
<1>1. prompt \in Seq(Token) /\ out \in Seq(Token) /\ <<x>> \in Seq(Token)
  BY DEF IInv, TypeInv
<1>2. Append(out, x) = out \o <<x>> /\ Append(out, x) \in Seq(Token)
  BY <1>1, AppendIsConcat, AppendProperties
<1>3. Append(Text, x) = Text \o <<x>>
  BY TextIs, AppendIsConcat
<1>4. prompt \o (out \o <<x>>) = (prompt \o out) \o <<x>>
  BY <1>1, ConcatAssociative
<1>5. Len(Append(Text, x)) = Len(Text) + 1 /\ Append(Text, x)[Len(Text) + 1] = x
  BY TextIs, AppendProperties
<1>6. SubSeq(Append(Text, x), 1, Len(Text)) = Text
  <2>1. 1 \in 1 .. Len(Text) /\ Len(Text) \in 1 .. Len(Text)
    <3> DEFINE n == Len(Text)
    <3>1. n \in Nat \ {0}
      BY TextIs
    <3> HIDE DEF n
    <3>2. 1 \in 1 .. n /\ n \in 1 .. n
      BY <3>1
    <3> QED
      BY <3>2 DEF n
  <2>2. SubSeq(Text \o <<x>>, 1, Len(Text)) = SubSeq(Text, 1, Len(Text))
    BY <1>1, <2>1, TextIs, SubSeqOfConcat1
  <2> QED
    BY <1>3, <2>2, TextIs, SubSeqFull
<1> QED
  BY <1>2, <1>3, <1>4, <1>5, <1>6 DEF Text

LEMMA TextAbsorbed ==
  ASSUME IInv
  PROVE  Append(SubSeq(Text, 1, Len(Text) - 1), Text[Len(Text)]) = Text
<1> DEFINE n == Len(Text)
           s == SubSeq(Text, 1, n - 1)
<1>1. Text \in Seq(Token) /\ n \in Nat \ {0} /\ Text \in [1 .. n -> Token]
  BY TextIs, LenProperties
<1>2. s \in Seq(Token) /\ Len(s) = n - 1 /\ \A i \in 1 .. n - 1 : s[i] = Text[i]
  <2> HIDE DEF n
  <2>1. 1 \in Int /\ n - 1 \in Int /\ \A i \in 1 .. n - 1 : Text[i] \in Token
    BY <1>1
  <2>2. /\ s \in Seq(Token) /\ Len(s) = IF 1 <= n - 1 THEN n - 1 - 1 + 1 ELSE 0
        /\ \A i \in 1 .. n - 1 - 1 + 1 : s[i] = Text[1 + i - 1]
    BY <2>1, SubSeqProperties
  <2>3. n - 1 - 1 + 1 = n - 1 /\ (~(1 <= n - 1) => n - 1 = 0)
        /\ \A i \in 1 .. n - 1 : 1 + i - 1 = i
    BY <1>1
  <2> HIDE DEF s
  <2> QED
    BY <2>2, <2>3
<1> HIDE DEF s
<1>3. Text[n] \in Token
  BY <1>1
<1> DEFINE t == Append(s, Text[n])
<1>4. /\ t \in Seq(Token) /\ Len(t) = n - 1 + 1 /\ t[n - 1 + 1] = Text[n]
      /\ \A i \in 1 .. n - 1 : t[i] = s[i]
  BY <1>2, <1>3, AppendProperties
<1> HIDE DEF t, n
<1>5. n - 1 + 1 = n
  BY <1>1
<1>6. \A i \in 1 .. n : t[i] = Text[i]
  BY <1>1, <1>2, <1>4, <1>5
<1>7. t = Text
  BY <1>1, <1>4, <1>5, <1>6, SeqEqual DEF n
<1> QED
  BY <1>7 DEF t, s, n

\* A token streamed is accounted for.
LEMMA DetectorsNext ==
  ASSUME Sampled, Stream
  PROVE  Detectors'
<1>1. /\ out' = Shown /\ prev' = next /\ rtok' = next /\ rcount' = NewCount
      /\ para' = NewPara /\ buf' = NewBuf /\ npos' = NewPos /\ nfill' = NewFill
  BY DEF Stream, Shown
<1>2. Newest(Shown) = next
  BY ShownIs DEF Newest
<1>3. NewPara = Newlines(Shown)
  <2>1. para = Newlines(out)
    BY ShownIs DEF Detectors
  <2> QED
    BY <2>1, ShownIs, NewlinesAppend DEF NewPara, Shown
<1>4. Newest(out)' = next /\ Newlines(out)' = Newlines(Shown)
  BY <1>1, <1>2 DEF Newest, Newlines, Count
<1>5. RunLength(out, rcount)'
  BY <1>1, RunNext DEF RunLength
<1>6. RingHolds(out, buf)'
  BY <1>1, BufferNext DEF RingHolds
<1> QED
  BY <1>1, <1>3, <1>4, <1>5, <1>6, BufferNext DEF Detectors

LEMMA StepInv == IInv /\ [Next]_vars => IInv'
<1> SUFFICES ASSUME IInv, [Next]_vars PROVE IInv'
  OBVIOUS
<1>1. ASSUME UNCHANGED <<mode, out, prev, rtok, rcount, buf, npos, nfill, para>>
      PROVE  DetectorInv'
  BY <1>1 DEF IInv, DetectorInv, Detectors, Newest, Newlines, Count, RunLength,
              RingHolds
<1>2. ASSUME UNCHANGED <<prompt, out>> PROVE Text' = Text
  BY <1>2 DEF Text
<1>3. CASE Prefill
  <2>1. TypeInv'
    BY <1>3 DEF Prefill, IInv, TypeInv
  <2>2. Text = prompt /\ current = prompt[Len(prompt)]
    <3>1. out = <<>> /\ prompt \in Seq(Token) /\ current = prompt[Len(prompt)]
      BY <1>3 DEF Prefill, IInv, StreamInv, TypeInv
    <3> QED
      BY <3>1, ConcatEmptySeq DEF Text
  <2>3. StreamInv'
    BY <1>2, <1>3, <2>2 DEF Prefill, StreamInv
  <2> QED
    BY <1>1, <1>3, <2>1, <2>3 DEF Prefill, IInv
<1>4. CASE Forward
  <2>1. TypeInv'
    BY <1>4 DEF Forward, IInv, TypeInv
  <2>2. fed' = Text
    BY <1>4, TextAbsorbed DEF Forward, IInv, StreamInv
  <2>3. StreamInv'
    BY <1>2, <1>4, <2>2 DEF Forward, StreamInv
  <2> QED
    BY <1>1, <1>4, <2>1, <2>3 DEF Forward, IInv
<1>5. CASE LoopEnd
  <2>1. TypeInv'
    BY <1>5 DEF LoopEnd, IInv, TypeInv
  <2>2. StreamInv'
    BY <1>5 DEF LoopEnd, StreamInv
  <2> QED
    BY <1>1, <1>5, <2>1, <2>2 DEF LoopEnd, IInv
<1>6. CASE Stop
  <2>1. TypeInv'
    BY <1>6 DEF Stop, IInv, TypeInv
  <2>2. StreamInv'
    BY <1>6 DEF Stop, StreamInv
  <2> QED
    BY <1>1, <1>6, <2>1, <2>2 DEF Stop, IInv
<1>7. ASSUME pc = "check", out' = Append(out, next), UNCHANGED <<prompt, fed>>,
             current' = next, pc' \in {"loop", "stopped"}
      PROVE  StreamInv' /\ out' \in Seq(Token)
  <2>1. next \in Token /\ fed = Text
    BY <1>7 DEF IInv, TypeInv, StreamInv
  <2>2. Text' = Append(Text, next)
    BY <1>7, <2>1, TextAppend DEF Text
  <2>3. Len(Text) + 1 - 1 = Len(Text)
    <3> DEFINE n == Len(Text)
    <3>1. n \in Nat
      BY TextIs
    <3> HIDE DEF n
    <3>2. n + 1 - 1 = n
      BY <3>1
    <3> QED
      BY <3>2 DEF n
  <2>4. /\ SubSeq(Text', 1, Len(Text') - 1) = Text
        /\ Text'[Len(Text')] = next
    BY <2>1, <2>2, <2>3, TextAppend
  <2> QED
    BY <1>7, <2>1, <2>4, TextAppend DEF StreamInv
<1>8. CASE Stream
  <2>1. Sampled
    BY <1>8 DEF Stream, Sampled
  <2>2. StreamInv' /\ out' \in Seq(Token)
    BY <1>7, <1>8 DEF Stream
  <2>3. TypeInv'
    BY <1>8, <2>2 DEF Stream, IInv, TypeInv
  <2>4. DetectorInv'
    BY <1>8, <2>1, DetectorsNext DEF DetectorInv
  <2> QED
    BY <2>2, <2>3, <2>4 DEF IInv
<1>9. CASE Keep
  <2>1. StreamInv' /\ out' \in Seq(Token)
    BY <1>7, <1>9 DEF Keep
  <2>2. TypeInv'
    BY <1>9, <2>1 DEF Keep, IInv, TypeInv
  <2>3. DetectorInv'
    BY <1>9 DEF Keep, DetectorInv
  <2> QED
    BY <2>1, <2>2, <2>3 DEF IInv
<1>10. CASE UNCHANGED vars
  BY <1>1, <1>2, <1>10 DEF vars, IInv, TypeInv, StreamInv
<1> QED
  BY <1>3, <1>4, <1>5, <1>6, <1>8, <1>9, <1>10 DEF Next, Done

\* At every point of a response the model has absorbed the text but for the
\* token it is about to be given, and the run counter, the newline sum and
\* the ring say of the text exactly what the stop rules take them to say.
THEOREM GenerateInvariant == Spec => []IInv
<1> QED
  BY InitInv, StepInv, PTL DEF Spec

-----------------------------------------------------------------------------
(* What is shown, and what is cut.                                         *)

LEMMA ShowMeans ==
  ASSUME Sampled, Stream
  PROVE  /\ next # End /\ ~Boundary /\ ~Flood /\ ~Repeats /\ ~Loops
BY DEF Stream, Verdict

LEMMA CleanInit == Init => OutputClean /\ NoLoopShown /\ StopsJustified
<1> SUFFICES ASSUME Init PROVE OutputClean /\ NoLoopShown /\ StopsJustified
  OBVIOUS
<1>1. out = <<>> /\ Len(out) = 0 /\ 1 .. 0 = {} /\ 2 .. 0 = {}
  BY EmptySeq DEF Init
<1>2. ParaLimit > 0
  BY ParametersAssumption
<1>3. OutputClean
  BY <1>1, <1>2, CountEmpty DEF OutputClean
<1>4. \A k \in 3 .. MaxK : ~EndsInPattern(out, k)
  BY <1>1, ParametersAssumption DEF EndsInPattern
<1> QED
  BY <1>3, <1>4 DEF NoLoopShown, StopsJustified, Init

LEMMA NoLoopStep == IInv /\ NoLoopShown /\ [Next]_vars => NoLoopShown'
<1> SUFFICES ASSUME IInv, NoLoopShown, [Next]_vars PROVE NoLoopShown'
  OBVIOUS
<1>1. CASE Stream
  <2>1. Sampled /\ out' = Shown
    BY <1>1 DEF Stream, Sampled, Shown
  <2>2. \A k \in 3 .. MaxK : ~EndsInPattern(Shown, k)
    BY <1>1, <2>1, ShowMeans, LoopsIs
  <2> QED
    BY <2>1, <2>2 DEF NoLoopShown, EndsInPattern
<1>2. CASE Keep
  BY <1>2 DEF Keep, NoLoopShown
<1>3. CASE UNCHANGED <<mode, out>>
  BY <1>3 DEF NoLoopShown, EndsInPattern
<1> QED
  BY <1>1, <1>2, <1>3
  DEF Next, Done, vars, Prefill, Forward, LoopEnd, Stop

\* However often the ring has wrapped: no pattern is streamed twice in a row.
THEOREM GenerateNoLoopShown == Spec => []NoLoopShown
<1> QED
  BY CleanInit, NoLoopStep, GenerateInvariant, PTL DEF Spec

LEMMA JustifiedStep == IInv /\ StopsJustified /\ [Next]_vars => StopsJustified'
<1> SUFFICES ASSUME IInv, StopsJustified, [Next]_vars PROVE StopsJustified'
  OBVIOUS
<1>1. CASE Stop
  <2>1. Sampled /\ why' = Verdict /\ UNCHANGED <<out, next>>
    BY <1>1 DEF Stop, Sampled
  <2>2. why' = "loop" => \E k \in 3 .. MaxK : EndsInPattern(Shown, k)
    BY <2>1, LoopsIs DEF Verdict
  <2>3. why' = "repeat" => EndsInRun(Shown, RepeatLimit)
    BY <2>1, RepeatsIs DEF Verdict
  <2>4. why' = "flood" => Newlines(Shown) >= ParaLimit
    <3>1. why' = "flood" => NewPara >= ParaLimit
      BY <2>1 DEF Verdict, Flood
    <3>2. para = Newlines(out)
      BY <2>1, ShownIs DEF Detectors
    <3>3. NewPara = Newlines(Shown)
      BY <2>1, <3>2, ShownIs, NewlinesAppend DEF NewPara, Shown
    <3> QED
      BY <3>1, <3>3
  <2> QED
    BY <2>1, <2>2, <2>3, <2>4
    DEF StopsJustified, Shown, Newlines, Count, EndsInRun, EndsInPattern
<1>2. ASSUME why' \in {"none", "end", "limit", "interrupt"}
      PROVE  StopsJustified'
  BY <1>2 DEF StopsJustified
<1>3. CASE UNCHANGED vars
  BY <1>3 DEF vars, StopsJustified, Count, EndsInRun, EndsInPattern
<1>4. CASE Prefill \/ Forward \/ Stream
  BY <1>2, <1>4 DEF Prefill, Forward, Stream, IInv, TypeInv
<1>5. CASE LoopEnd \/ Keep
  BY <1>2, <1>5 DEF LoopEnd, Keep, IInv, TypeInv
<1> QED
  BY <1>1, <1>3, <1>4, <1>5 DEF Next, Done

\* A response is only cut for a defect its text really has.
THEOREM GenerateStopsJustified == Spec => []StopsJustified
<1> QED
  BY CleanInit, JustifiedStep, GenerateInvariant, PTL DEF Spec

\* The four parts of OutputClean.
EndLast ==
  \A j \in 1 .. Len(out) :
    out[j] = End => mode = "one-shot" /\ pc = "stopped" /\ j = Len(out)
RunsShort ==
  \A j \in 1 .. Len(out) :
    mode = "chat" /\ RepeatLimit > 1 => ~EndsInRun(SubSeq(out, 1, j), RepeatLimit)
FewNewlines == mode = "chat" /\ HasTpl => Newlines(out) < ParaLimit
NoNewTurn ==
  mode = "chat" /\ HasTpl =>
    \A j \in 2 .. Len(out) : out[j - 1] \in {NL, NLNL} => out[j] # Mark

LEMMA CleanParts ==
  OutputClean <=> EndLast /\ RunsShort /\ FewNewlines /\ NoNewTurn
BY DEF OutputClean, EndLast, RunsShort, FewNewlines, NoNewTurn, Newlines

\* A token streamed in chat keeps each of them.
LEMMA CleanStream ==
  ASSUME IInv, OutputClean, Stream
  PROVE  OutputClean'
<1> DEFINE n == Len(out)
<1>1. /\ Sampled /\ out' = Shown /\ mode' = mode /\ mode = "chat"
      /\ pc = "check" /\ prev = Newest(out)
  BY ShownIs DEF Stream, Sampled, Shown, Detectors
<1>2. /\ n \in Nat /\ Len(Shown) = n + 1 /\ Shown[n + 1] = next
      /\ \A i \in 1 .. n : Shown[i] = out[i]
      /\ Shown \in Seq(Token) /\ out \in Seq(Token) /\ next \in Token
      /\ Shown # <<>> /\ (out = <<>> <=> n = 0)
  BY <1>1, ShownIs, EmptySeq
<1>3. next # End /\ ~Boundary /\ ~Flood /\ ~Repeats
  BY <1>1, ShowMeans
<1>4. EndLast /\ RunsShort /\ NoNewTurn
  BY CleanParts
<1>5. EndLast'
  <2>1. ASSUME NEW j \in 1 .. n + 1 PROVE Shown[j] # End
    <3>1. CASE j = n + 1
      BY <1>2, <1>3, <3>1
    <3>2. CASE j # n + 1
      <4>1. j \in 1 .. n
        <5> HIDE DEF n
        <5> QED
          BY <1>2, <3>2
      <4> QED
        BY <1>1, <1>2, <1>4, <4>1 DEF EndLast
    <3> QED
      BY <3>1, <3>2
  <2> QED
    BY <1>1, <1>2, <2>1 DEF EndLast
<1>6. RunsShort'
  <2>1. ASSUME NEW j \in 1 .. n + 1, RepeatLimit > 1
        PROVE  ~EndsInRun(SubSeq(Shown, 1, j), RepeatLimit)
    <3>1. CASE j = n + 1
      <4>1. SubSeq(Shown, 1, j) = Shown
        BY <1>2, <3>1, SubSeqFull
      <4> QED
        BY <1>1, <1>3, <2>1, <4>1, RepeatsIs
    <3>2. CASE j # n + 1
      <4>1. j \in 1 .. n /\ 1 \in 1 .. n
        <5> HIDE DEF n
        <5> QED
          BY <1>2, <3>2
      <4>2. Shown = out \o <<next>> /\ <<next>> \in Seq(Token)
        BY <1>2, AppendIsConcat DEF Shown
      <4>3. SubSeq(Shown, 1, j) = SubSeq(out, 1, j)
        BY <1>2, <4>1, <4>2, SubSeqOfConcat1
      <4> QED
        BY <1>1, <1>4, <2>1, <4>1, <4>3 DEF RunsShort
    <3> QED
      BY <3>1, <3>2
  <2> QED
    BY <1>1, <1>2, <2>1 DEF RunsShort, EndsInRun
<1>7. FewNewlines'
  <2>1. NewPara = Newlines(Shown)
    BY <1>1, <1>2, ShownIs, NewlinesAppend DEF NewPara, Shown, Detectors
  <2>2. HasTpl => ~(NewPara >= ParaLimit)
    BY <1>3 DEF Flood
  <2>3. Newlines(Shown) \in Nat /\ ParaLimit \in Nat
    BY <1>2, NewlinesAppend, ParametersAssumption
  <2>4. HasTpl => Newlines(Shown) < ParaLimit
    <3> HIDE DEF Newlines
    <3> QED
      BY <2>1, <2>2, <2>3
  <2> QED
    BY <1>1, <2>4 DEF FewNewlines, Newlines, Count
<1>8. NoNewTurn'
  <2>1. ASSUME HasTpl, NEW j \in 2 .. n + 1, Shown[j - 1] \in {NL, NLNL}
        PROVE  Shown[j] # Mark
    <3>1. j - 1 \in 1 .. n
      <4> HIDE DEF n
      <4> QED
        BY <1>2
    <3>2. CASE j = n + 1
      <4>1. j - 1 = n /\ out # <<>>
        <5> HIDE DEF n
        <5> QED
          BY <1>2, <3>1, <3>2
      <4>2. prev = Shown[j - 1]
        BY <1>1, <1>2, <3>1, <4>1 DEF Newest
      <4> QED
        BY <1>2, <1>3, <2>1, <3>2, <4>2 DEF Boundary
    <3>3. CASE j # n + 1
      <4>1. j \in 2 .. n /\ j \in 1 .. n
        <5> HIDE DEF n
        <5> QED
          BY <1>2, <3>3
      <4> QED
        BY <1>1, <1>2, <1>4, <2>1, <3>1, <4>1 DEF NoNewTurn
    <3> QED
      BY <3>2, <3>3
  <2> QED
    BY <1>1, <1>2, <2>1 DEF NoNewTurn
<1>9. (EndLast /\ RunsShort /\ FewNewlines /\ NoNewTurn)' => OutputClean'
  BY DEF OutputClean, EndLast, RunsShort, FewNewlines, NoNewTurn, Newlines
<1> QED
  BY <1>5, <1>6, <1>7, <1>8, <1>9

LEMMA CleanStep == IInv /\ OutputClean /\ [Next]_vars => OutputClean'
<1> SUFFICES ASSUME IInv, OutputClean, [Next]_vars PROVE OutputClean'
  OBVIOUS
<1>1. CASE Keep
  <2>1. out' = Append(out, next) /\ mode' = "one-shot" /\ pc = "check"
        /\ (next = End => pc' = "stopped")
    BY <1>1 DEF Keep
  <2>2. out \in Seq(Token) /\ next \in Token
    BY <2>1 DEF IInv, TypeInv
  <2> DEFINE n == Len(out)
             t == Append(out, next)
  <2>3. /\ n \in Nat /\ Len(t) = n + 1 /\ t[n + 1] = next
        /\ \A i \in 1 .. n : t[i] = out[i]
    BY <2>2, AppendProperties, LenProperties
  <2>4. \A i \in 1 .. n : out[i] # End
    BY <2>1 DEF OutputClean
  <2> HIDE DEF n, t
  <2>5. ASSUME NEW j \in 1 .. n + 1, t[j] = End
        PROVE  j = n + 1 /\ pc' = "stopped"
    <3>1. j = n + 1 \/ j \in 1 .. n
      BY <2>3
    <3> QED
      BY <2>1, <2>3, <2>4, <2>5, <3>1
  <2> QED
    BY <2>1, <2>3, <2>5 DEF OutputClean, t
<1>2. CASE pc # "stopped" /\ UNCHANGED <<mode, out>>
  BY <1>2 DEF OutputClean, EndsInRun, Count
<1>3. CASE UNCHANGED vars
  BY <1>3 DEF vars, OutputClean, EndsInRun, Count
<1>4. CASE Stream
  BY <1>4, CleanStream
<1>5. CASE Prefill \/ Forward \/ LoopEnd \/ Stop
  BY <1>2, <1>5 DEF Prefill, Forward, LoopEnd, Stop
<1> QED
  BY <1>1, <1>3, <1>4, <1>5 DEF Next, Done

\* Whatever the model samples, nothing degenerate is streamed.
THEOREM GenerateOutputClean == Spec => []OutputClean
<1> QED
  BY CleanInit, CleanStep, GenerateInvariant, PTL DEF Spec

-----------------------------------------------------------------------------
(* The response loop implements the stream of tokens.                      *)

LEMMA StreamInit == Init => TS!Init
<1> SUFFICES ASSUME Init PROVE TS!Init
  OBVIOUS
<1>1. IInv
  BY InitInv
<1>2. Text \in Seq(Token) /\ Text # <<>>
  BY <1>1, TextIs, EmptySeq
<1> QED
  BY <1>2 DEF Init, TS!Init, Text

LEMMA StreamStep ==
  IInv /\ [Next]_vars => [TS!Next]_<<prompt \o out, fed>>
<1> SUFFICES ASSUME IInv, [Next]_vars, ~UNCHANGED <<Text, fed>>
             PROVE  TS!Next
  BY DEF Text
<1> DEFINE n == Len(Text)
<1>1. n \in Nat \ {0} /\ Text \in Seq(Token)
  BY TextIs
<1>2. ASSUME UNCHANGED <<prompt, out>> PROVE UNCHANGED Text
  BY <1>2 DEF Text
<1>3. CASE Prefill
  <2>1. out = <<>> /\ prompt \in Seq(Token) /\ fed = <<>>
    BY <1>3 DEF Prefill, IInv, StreamInv, TypeInv
  <2>2. Text = prompt
    BY <2>1, ConcatEmptySeq DEF Text
  <2>3. fed' = SubSeq(Text, 1, n - 1) /\ Len(fed) = 0 /\ UNCHANGED Text
    BY <1>2, <1>3, <2>1, <2>2, EmptySeq DEF Prefill
  <2>4. n - 1 # 0
    <3>1. ASSUME n - 1 = 0 PROVE FALSE
      <4>1. n - 1 \in Int /\ 1 \in Int /\ n - 1 < 1
        <5> HIDE DEF n
        <5> QED
          BY <1>1, <3>1
      <4>2. SubSeq(Text, 1, n - 1) = <<>>
        BY <4>1, SubSeqEmpty
      <4> QED
        BY <2>1, <2>3, <4>2
    <3> QED
      BY <3>1
  <2>5. n - 1 \in 0 + 1 .. n
    <3> HIDE DEF n
    <3> QED
      BY <1>1, <2>4
  <2>6. TS!Feed
    BY <2>3, <2>5 DEF TS!Feed, Text
  <2> QED
    BY <2>6 DEF TS!Next
<1>4. CASE Forward
  <2>1. fed = SubSeq(Text, 1, n - 1) /\ fed' = Text /\ UNCHANGED Text
    BY <1>2, <1>4, TextAbsorbed DEF Forward, IInv, StreamInv
  <2>2. Len(fed) + 1 = n
    <3>1. Text \in [1 .. n -> Token]
      BY <1>1, LenProperties
    <3>2. \A i \in 1 .. n - 1 : Text[i] \in Token
      <4> HIDE DEF n
      <4> QED
        BY <1>1, <3>1
    <3>3. n - 1 \in Int /\ 1 \in Int
      <4> HIDE DEF n
      <4> QED
        BY <1>1
    <3>4. Len(SubSeq(Text, 1, n - 1)) = IF 1 <= n - 1 THEN n - 1 - 1 + 1 ELSE 0
      BY <3>2, <3>3, SubSeqProperties
    <3> DEFINE l == Len(fed)
    <3>5. l = IF 1 <= n - 1 THEN n - 1 - 1 + 1 ELSE 0
      BY <2>1, <3>4
    <3> HIDE DEF l, n
    <3>6. l + 1 = n
      BY <1>1, <3>5
    <3> QED
      BY <3>6 DEF l
  <2>3. fed' = SubSeq(Text, 1, n)
    BY <1>1, <2>1, SubSeqFull
  <2>4. n \in n .. n
    <3> HIDE DEF n
    <3> QED
      BY <1>1
  <2>5. TS!Feed
    BY <2>1, <2>2, <2>3, <2>4 DEF TS!Feed, Text
  <2> QED
    BY <2>5 DEF TS!Next
<1>5. CASE Stream \/ Keep
  <2>1. /\ next \in Token /\ fed = Text /\ UNCHANGED fed
        /\ prompt' \o out' = prompt \o Append(out, next)
    BY <1>5 DEF Stream, Keep, IInv, TypeInv, StreamInv
  <2>2. prompt' \o out' = Append(prompt \o out, next)
    BY <2>1, TextAppend DEF Text
  <2>3. TS!Show
    BY <2>1, <2>2 DEF TS!Show, Text
  <2> QED
    BY <2>3 DEF TS!Next
<1>6. CASE LoopEnd \/ Stop \/ UNCHANGED vars
  BY <1>2, <1>6 DEF LoopEnd, Stop, vars
<1> QED
  BY <1>3, <1>4, <1>5, <1>6 DEF Next, Done

\* The model absorbs the prompt and the tokens streamed, in order, each once,
\* and samples only when it has absorbed all of them.
THEOREM GenerateIsTokenStream == Spec => ImplementsTokenStream
<1> QED
  BY StreamInit, StreamStep, GenerateInvariant, PTL
  DEF Spec, ImplementsTokenStream, TS!Spec

-----------------------------------------------------------------------------
(* The sampler the next token comes from: largest and smallest.            *)

LEMMA MaxIs ==
  ASSUME NEW T, T \subseteq Int, T # {}, IsFiniteSet(T)
  PROVE  Max(T) \in T /\ \A y \in T : y <= Max(T)
<1> DEFINE f == [x \in T |-> x]
<1>1. f \in [T -> Int] /\ \A x \in T : f[x] = x
  OBVIOUS
<1> HIDE DEF f
<1>2. PICK x \in T : \A y \in T : f[y] <= f[x]
  BY <1>1, LargestValue
<1>3. \E z \in T : \A y \in T : z >= y
  BY <1>1, <1>2
<1>4. Max(T) \in T /\ \A y \in T : Max(T) >= y
  BY <1>3 DEF Max
<1> QED
  BY <1>4

LEMMA MinIs ==
  ASSUME NEW T, T \subseteq Nat, T # {}
  PROVE  Min(T) \in T /\ \A y \in T : Min(T) <= y
<1>1. \E z \in T : \A y \in T : z <= y
  BY LeastNumber
<1> QED
  BY <1>1 DEF Min

\* The smallest is the one element that is.
LEMMA MinUnique ==
  ASSUME NEW T, T \subseteq Nat, NEW x \in T, \A y \in T : x <= y
  PROVE  Min(T) = x
<1>1. Min(T) \in T /\ Min(T) <= x /\ x <= Min(T)
  BY MinIs
<1>2. Min(T) \in Nat /\ x \in Nat
  BY <1>1
<1> QED
  BY <1>1, <1>2

-----------------------------------------------------------------------------
(* The elements of a set of numbers, in order.                             *)

\* How many elements of S are below t.
Rank(S, t) == Cardinality({u \in S : u < t})

LEMMA RankDistinct ==
  ASSUME NEW S, S \subseteq Int, IsFiniteSet(S)
  PROVE  /\ \A t \in S : Rank(S, t) \in 0 .. Cardinality(S) - 1
         /\ \A t, u \in S : Rank(S, t) = Rank(S, u) => t = u
<1>1. ASSUME NEW t \in S
      PROVE  Rank(S, t) \in 0 .. Cardinality(S) - 1
  <2>1. {u \in S : u < t} \in SUBSET S /\ t \notin {u \in S : u < t}
    OBVIOUS
  <2>2. Rank(S, t) \in Nat /\ Cardinality(S) \in Nat
        /\ Rank(S, t) < Cardinality(S)
    BY <2>1, Fewer DEF Rank
  <2> QED
    BY <2>2
<1>2. ASSUME NEW t \in S, NEW u \in S, t < u
      PROVE  Rank(S, t) < Rank(S, u)
  <2> DEFINE A == {x \in S : x < t}
             B == {x \in S : x < u}
  <2>1. \A x \in S : x \in Int
    OBVIOUS
  <2>2. t \in B /\ t \notin A
    BY <1>2, <2>1
  <2>3. ASSUME NEW x \in A PROVE x \in B
    <3>1. x \in S /\ x < t /\ x \in Int /\ t \in Int /\ u \in Int
      BY <2>1
    <3> QED
      BY <1>2, <3>1
  <2>4. A \in SUBSET B /\ t \in B /\ t \notin A
    BY <2>2, <2>3
  <2>5. IsFiniteSet(B)
    BY FS_Subset
  <2> HIDE DEF A, B
  <2>6. Cardinality(A) < Cardinality(B)
    BY <2>4, <2>5, Fewer
  <2> QED
    BY <2>6 DEF Rank, A, B
<1>3. ASSUME NEW t \in S, NEW u \in S, Rank(S, t) = Rank(S, u)
      PROVE  t = u
  <2>1. Rank(S, t) \in Int /\ Rank(S, u) \in Int
    BY <1>1
  <2>2. t \in Int /\ u \in Int
    OBVIOUS
  <2> QED
    BY <1>2, <1>3, <2>1, <2>2
<1> QED
  BY <1>1, <1>3

\* The ranks of n elements are 0 .. n - 1: Nth lists the set.
LEMMA NthLists ==
  ASSUME NEW S, S \subseteq Int, IsFiniteSet(S)
  PROVE  /\ \A j \in 1 .. Cardinality(S) : Nth(S, j) \in S
         /\ \A j, k \in 1 .. Cardinality(S) : Nth(S, j) = Nth(S, k) => j = k
         /\ \A t \in S : \E j \in 1 .. Cardinality(S) : Nth(S, j) = t
<1> DEFINE n == Cardinality(S)
           f == [t \in S |-> Rank(S, t) + 1]
<1>1. n \in Nat /\ \A t \in S : Rank(S, t) \in 0 .. n - 1
  BY FS_CardinalityType, RankDistinct
<1>2. \A t, u \in S : Rank(S, t) = Rank(S, u) => t = u
  BY RankDistinct
<1>3. f \in Injection(S, 1 .. n)
  <2>1. \A t \in S : Rank(S, t) + 1 \in 1 .. n
    BY <1>1, <1>2
  <2>2. \A t, u \in S : Rank(S, t) + 1 = Rank(S, u) + 1 => t = u
    BY <1>1, <1>2
  <2>3. f \in [S -> 1 .. n] /\ \A t \in S : f[t] = Rank(S, t) + 1
    BY <2>1
  <2> HIDE DEF f, n
  <2> QED
    BY <2>2, <2>3 DEF Injection, IsInjective
<1>4. IsFiniteSet(1 .. n) /\ Cardinality(1 .. n) = n
  BY <1>1, FS_Interval
<1>5. f \in Surjection(S, 1 .. n)
  <2> HIDE DEF f
  <2> QED
    BY <1>3, <1>4, FS_Injection
<1>6. \A j \in 1 .. n : \E t \in S : Rank(S, t) = j - 1
  <2> SUFFICES ASSUME NEW j \in 1 .. n PROVE \E t \in S : Rank(S, t) = j - 1
    OBVIOUS
  <2>1. PICK t \in S : Rank(S, t) + 1 = j
    BY <1>5 DEF Surjection
  <2>2. Rank(S, t) \in Int
    BY <1>1
  <2> QED
    BY <2>1, <2>2
<1>7. \A j \in 1 .. n : Nth(S, j) \in S /\ Rank(S, Nth(S, j)) = j - 1
  BY <1>6 DEF Nth, Rank
<1>8. ASSUME NEW t \in S PROVE \E j \in 1 .. n : Nth(S, j) = t
  <2>1. Rank(S, t) + 1 \in 1 .. n /\ (Rank(S, t) + 1) - 1 = Rank(S, t)
    BY <1>1, <1>2
  <2>2. Rank(S, Nth(S, Rank(S, t) + 1)) = Rank(S, t)
        /\ Nth(S, Rank(S, t) + 1) \in S
    BY <1>7, <2>1
  <2> QED
    BY <1>2, <2>1, <2>2
<1>9. \A j, k \in 1 .. n : Nth(S, j) = Nth(S, k) => j = k
  <2> HIDE DEF n
  <2> QED
    BY <1>1, <1>7
<1> QED
  BY <1>7, <1>8, <1>9

-----------------------------------------------------------------------------
(* The min-heap.  C are the candidates a heap may hold.                    *)

Valued(C) == \A c \in C : c.val \in Int

\* c is a child of q.
Child(c, q) == c = 2 * q \/ c = 2 * q + 1

\* From a on, no entry is above a child of its.
HeapFrom(h, n, a) ==
  \A q \in a .. n, c \in 1 .. n : Child(c, q) => h[q].val <= h[c].val

Entries(h, n)  == {h[q] : q \in 1 .. n}

Distinct(h, n) == \A p, q \in 1 .. n : h[p] = h[q] => p = q

\* g has the entries of h, each as often if they are distinct.
Rearranged(g, h, n) ==
  Entries(g, n) = Entries(h, n) /\ (Distinct(h, n) => Distinct(g, n))

\* While an entry of h sinks from j and is at i: the heap is one from j on
\* but for that entry, whose parent is not above its children.
Sinking(g, i, h, n, j) ==
  /\ i \in j .. n
  /\ Rearranged(g, h, n)
  /\ \A q \in j .. n, c \in 1 .. n :
       q # i /\ Child(c, q) => g[q].val <= g[c].val
  /\ \A p \in j .. n, c \in 1 .. n :
       Child(i, p) /\ Child(c, i) => g[p].val <= g[c].val

LEMMA SmallestIs ==
  ASSUME NEW C, Valued(C), NEW n \in Nat, NEW h \in [1 .. n -> C],
         NEW j \in 1 .. n
  PROVE  LET s == Smallest(h, n, j)
         IN  /\ s \in 1 .. n
             /\ s = j \/ (Child(s, j) /\ h[s].val < h[j].val)
             /\ \A c \in 1 .. n : Child(c, j) => h[s].val <= h[c].val
<1> DEFINE l == IF 2 * j <= n /\ h[2 * j].val < h[j].val THEN 2 * j ELSE j
           s == IF 2 * j + 1 <= n /\ h[2 * j + 1].val < h[l].val THEN 2 * j + 1
                ELSE l
<1>1. \A q \in 1 .. n : h[q].val \in Int
  BY DEF Valued
<1>2. /\ 2 * j <= n => 2 * j \in 1 .. n
      /\ 2 * j + 1 <= n => 2 * j + 1 \in 1 .. n
      /\ j \in Int /\ 2 * j # j /\ 2 * j + 1 # j
  OBVIOUS
<1>3. /\ l \in 1 .. n /\ (l = j \/ (l = 2 * j /\ h[l].val < h[j].val))
      /\ 2 * j <= n => h[l].val <= h[2 * j].val
      /\ h[l].val <= h[j].val
  <2>1. h[j].val \in Int /\ (2 * j <= n => h[2 * j].val \in Int)
    BY <1>1, <1>2
  <2>2. CASE 2 * j <= n /\ h[2 * j].val < h[j].val
    <3>1. l = 2 * j
      BY <2>2
    <3> HIDE DEF l
    <3> QED
      BY <1>2, <2>1, <2>2, <3>1
  <2>3. CASE ~(2 * j <= n /\ h[2 * j].val < h[j].val)
    <3>1. l = j
      BY <2>3
    <3> HIDE DEF l
    <3>2. ASSUME 2 * j <= n PROVE h[l].val <= h[2 * j].val
      BY <2>1, <2>3, <3>1, <3>2
    <3>3. l \in 1 .. n /\ h[l].val <= h[j].val
      BY <2>1, <3>1
    <3> QED
      BY <3>1, <3>2, <3>3
  <2> QED
    BY <2>2, <2>3
<1> HIDE DEF l
<1>4. /\ s \in 1 .. n /\ (s = l \/ (s = 2 * j + 1 /\ h[s].val < h[l].val))
      /\ 2 * j + 1 <= n => h[s].val <= h[2 * j + 1].val
      /\ h[s].val <= h[l].val
  <2>1. h[l].val \in Int /\ (2 * j + 1 <= n => h[2 * j + 1].val \in Int)
    BY <1>1, <1>2, <1>3
  <2>2. CASE 2 * j + 1 <= n /\ h[2 * j + 1].val < h[l].val
    <3>1. s = 2 * j + 1
      BY <2>2
    <3> HIDE DEF s
    <3> QED
      BY <1>2, <2>1, <2>2, <3>1
  <2>3. CASE ~(2 * j + 1 <= n /\ h[2 * j + 1].val < h[l].val)
    <3>1. s = l
      BY <2>3
    <3> HIDE DEF s
    <3>2. ASSUME 2 * j + 1 <= n PROVE h[s].val <= h[2 * j + 1].val
      BY <2>1, <2>3, <3>1, <3>2
    <3>3. s \in 1 .. n /\ h[s].val <= h[l].val
      BY <1>3, <2>1, <3>1
    <3> QED
      BY <3>1, <3>2, <3>3
  <2> QED
    BY <2>2, <2>3
<1>5. s = Smallest(h, n, j)
  BY DEF Smallest, l
<1> HIDE DEF s
<1>6. s = j \/ (Child(s, j) /\ h[s].val < h[j].val)
  BY <1>1, <1>3, <1>4 DEF Child
<1>7. ASSUME NEW c \in 1 .. n, Child(c, j) PROVE h[s].val <= h[c].val
  <2>1. CASE c = 2 * j
    <3>1. h[s].val <= h[l].val /\ h[l].val <= h[c].val
      BY <1>3, <1>4, <2>1
    <3> QED
      BY <1>1, <1>3, <1>4, <3>1
  <2>2. CASE c = 2 * j + 1
    BY <1>4, <2>2
  <2> QED
    BY <1>7, <2>1, <2>2 DEF Child
<1> QED
  BY <1>4, <1>5, <1>6, <1>7

\* A round of heap_sift_down: the entry sinks to a child, or is where it
\* belongs.
LEMMA SinkRound ==
  ASSUME NEW C, Valued(C), NEW n \in Nat, NEW j \in 1 .. n,
         NEW h \in [1 .. n -> C], NEW g \in [1 .. n -> C],
         NEW i, Sinking(g, i, h, n, j),
         NEW s, s = Smallest(g, n, i),
         NEW f, f = Swap(g, i, s)
  PROVE  /\ f \in [1 .. n -> C] /\ Sinking(f, s, h, n, j)
         /\ s = i \/ s > i
         /\ s = i => f = g
<1>1. /\ i \in j .. n /\ i \in 1 .. n /\ Rearranged(g, h, n)
      /\ \A q \in j .. n, c \in 1 .. n :
           q # i /\ Child(c, q) => g[q].val <= g[c].val
      /\ \A p \in j .. n, c \in 1 .. n :
           Child(i, p) /\ Child(c, i) => g[p].val <= g[c].val
  BY DEF Sinking
<1>2. /\ s \in 1 .. n
      /\ s = i \/ (Child(s, i) /\ g[s].val < g[i].val)
      /\ \A c \in 1 .. n : Child(c, i) => g[s].val <= g[c].val
  BY <1>1, SmallestIs
<1>3. \A q \in 1 .. n : g[q].val \in Int
  BY DEF Valued
<1>4. /\ f \in [1 .. n -> C]
      /\ f[s] = g[i] /\ f[i] = g[s]
      /\ \A q \in 1 .. n : q # s /\ q # i => f[q] = g[q]
  BY <1>1, <1>2 DEF Swap
<1>5. CASE s = i
  <2>1. f = g
    BY <1>1, <1>4, <1>5
  <2>2. \A q \in j .. n, c \in 1 .. n :
          q # i /\ Child(c, q) => g[q].val <= g[c].val
    BY <1>1
  <2>3. Sinking(g, i, h, n, j)
    OBVIOUS
  <2> QED
    BY <1>4, <1>5, <2>1, <2>3
<1>6. CASE s # i
  <2>1. Child(s, i) /\ g[s].val < g[i].val
    BY <1>2, <1>6
  <2>2. s > i /\ s \in j .. n
    BY <1>1, <1>2, <2>1 DEF Child
  <2>3. Rearranged(f, h, n)
    <3>1. \A q \in 1 .. n : f[q] \in Entries(g, n)
      BY <1>1, <1>2, <1>4 DEF Entries
    <3>2. \A q \in 1 .. n : g[q] \in Entries(f, n)
      BY <1>1, <1>2, <1>4 DEF Entries
    <3>3. Entries(f, n) = Entries(g, n)
      BY <3>1, <3>2 DEF Entries
    <3>4. Distinct(g, n) => Distinct(f, n)
      BY <1>1, <1>2, <1>4 DEF Distinct
    <3> QED
      BY <1>1, <3>3, <3>4 DEF Rearranged
  <2>4. ASSUME NEW q \in j .. n, NEW c \in 1 .. n, q # s, Child(c, q)
        PROVE  f[q].val <= f[c].val
    <3>1. q \in 1 .. n /\ c # q
      BY <2>4 DEF Child
    <3>2. CASE q = i /\ c = s
      BY <1>1, <1>2, <1>3, <1>4, <2>1, <3>2
    <3>3. CASE q = i /\ c # s
      <4>1. f[q] = g[s] /\ f[c] = g[c] /\ Child(c, i)
        BY <1>4, <2>4, <3>1, <3>3
      <4> QED
        BY <1>2, <4>1
    <3>4. CASE q # i /\ c = i
      <4>1. Child(i, q) /\ f[q] = g[q] /\ f[c] = g[s]
        BY <1>4, <2>4, <3>1, <3>4
      <4> QED
        BY <1>1, <1>2, <2>1, <4>1
    <3>5. CASE q # i /\ c # i
      <4>1. c # s
        BY <1>1, <2>1, <2>4, <3>1, <3>5 DEF Child
      <4>2. f[q] = g[q] /\ f[c] = g[c]
        BY <1>4, <2>4, <3>1, <3>5, <4>1
      <4> QED
        BY <1>1, <2>4, <3>5, <4>2
    <3> QED
      BY <3>2, <3>3, <3>4, <3>5
  <2>5. ASSUME NEW p \in j .. n, NEW c \in 1 .. n, Child(s, p), Child(c, s)
        PROVE  f[p].val <= f[c].val
    <3>1. p = i
      BY <1>1, <1>2, <2>1, <2>5 DEF Child
    <3>2. c # s /\ c # i
      BY <1>1, <1>2, <2>2, <2>5 DEF Child
    <3>3. f[p] = g[s] /\ f[c] = g[c]
      BY <1>4, <3>1, <3>2
    <3> QED
      BY <1>1, <1>6, <2>2, <2>5, <3>3
  <2>6. Sinking(f, s, h, n, j)
    BY <2>2, <2>3, <2>4, <2>5 DEF Sinking
  <2> QED
    BY <1>4, <1>6, <2>2, <2>6
<1> QED
  BY <1>5, <1>6

\* heap_sift_down ends, after n rounds at most, with one more entry in place.
LEMMA SiftDownSinks ==
  ASSUME NEW C, Valued(C), NEW n \in Nat, NEW j \in 1 .. n,
         NEW h \in [1 .. n -> C], HeapFrom(h, n, j + 1)
  PROVE  /\ SiftDown(h, n, j) \in [1 .. n -> C]
         /\ HeapFrom(SiftDown(h, n, j), n, j)
         /\ Rearranged(SiftDown(h, n, j), h, n)
<1> DEFINE V == [1 .. n -> C] \X (1 .. n)
           S == [m \in 0 + 1 .. n |-> [hi \in V |-> SiftRound(hi, n)]]
           Def(f) == f = [m \in 0 .. n |->
                            IF m = 0 THEN <<h, j>> ELSE SiftRound(f[m - 1], n)]
           r == CHOOSE f : Def(f)
<1>1. ASSUME NEW hi \in V PROVE SiftRound(hi, n) \in V
  <2>1. hi[1] \in [1 .. n -> C] /\ hi[2] \in 1 .. n
    OBVIOUS
  <2> DEFINE g == hi[1]
             i == hi[2]
             s == Smallest(g, n, i)
  <2>2. s \in 1 .. n
    <3> HIDE DEF g, i
    <3> QED
      BY <2>1, SmallestIs DEF g, i
  <2>3. SiftRound(hi, n) = <<Swap(g, i, s), s>>
    BY DEF SiftRound
  <2> HIDE DEF g, i, s
  <2>4. Swap(g, i, s) \in [1 .. n -> C]
    BY <2>1, <2>2 DEF g, i, Swap
  <2> DEFINE f == Swap(g, i, s)
  <2>5. f \in [1 .. n -> C] /\ SiftRound(hi, n) = <<f, s>>
    BY <2>3, <2>4
  <2> HIDE DEF f
  <2> QED
    BY <2>2, <2>5
<1>2. 0 \in Int /\ n \in Int /\ 0 <= n
  OBVIOUS
<1>3. <<h, j>> \in V /\ S \in [0 + 1 .. n -> [V -> V]]
  <2>1. <<h, j>> \in V
    OBVIOUS
  <2> HIDE DEF V
  <2> QED
    BY <1>1, <2>1
<1>4. \E f : Def(f)
  <2> DEFINE v == <<h, j>>
  <2>1. PICK f : LoopIs(f, V, v, 0, n, S)
    <3> HIDE DEF V, S, v
    <3> QED
      BY <1>2, <1>3, LoopExists DEF v
  <2>2. /\ f \in [0 .. n -> V] /\ f[0] = <<h, j>>
        /\ \A m \in 0 + 1 .. n : f[m] = S[m][f[m - 1]]
    <3> HIDE DEF V, S
    <3> QED
      BY <2>1 DEF LoopIs
  <2>3. \A m \in 0 .. n : m = 0 \/ (m \in 0 + 1 .. n /\ m - 1 \in 0 .. n)
    OBVIOUS
  <2>4. \A m \in 0 + 1 .. n : S[m][f[m - 1]] = SiftRound(f[m - 1], n)
    <3> HIDE DEF V
    <3> QED
      BY <2>2, <2>3
  <2> HIDE DEF S, V
  <2>5. \A m \in 0 .. n :
          f[m] = IF m = 0 THEN <<h, j>> ELSE SiftRound(f[m - 1], n)
    BY <2>2, <2>3, <2>4
  <2>6. Def(f)
    BY <2>2, <2>5
  <2> QED
    BY <2>6
<1>5. Def(r)
  <2> HIDE DEF Def
  <2> QED
    BY <1>4
<1>6. SiftDown(h, n, j) = r[n][1]
  BY DEF SiftDown
<1> HIDE DEF r
<1>7. r[0] = <<h, j>> /\ \A m \in 0 + 1 .. n : r[m] = SiftRound(r[m - 1], n)
  <2>1. 0 \in 0 .. n /\ \A m \in 0 + 1 .. n : m \in 0 .. n /\ m # 0
    OBVIOUS
  <2> QED
    BY <1>5, <2>1
<1> DEFINE There(m) ==
             \E g \in [1 .. n -> C], i \in 1 .. n :
               /\ r[m] = <<g, i>> /\ Sinking(g, i, h, n, j)
               /\ i >= j + m \/ Smallest(g, n, i) = i
           P == {m \in 0 .. n : There(m)}
<1>8. 0 \in P
  <2>1. Rearranged(h, h, n)
    BY DEF Rearranged
  <2>2. \A q \in j .. n : q # j => q \in j + 1 .. n
    OBVIOUS
  <2>3. \A p \in j .. n : ~Child(j, p)
    BY DEF Child
  <2>4. Sinking(h, j, h, n, j)
    BY <2>1, <2>2, <2>3 DEF Sinking, HeapFrom
  <2> QED
    BY <1>7, <2>4
<1>9. ASSUME NEW m \in 0 + 1 .. n, m - 1 \in P PROVE m \in P
  <2>1. PICK g \in [1 .. n -> C], i \in 1 .. n :
          /\ r[m - 1] = <<g, i>> /\ Sinking(g, i, h, n, j)
          /\ i >= j + (m - 1) \/ Smallest(g, n, i) = i
    BY <1>9
  <2> DEFINE s == Smallest(g, n, i)
             f == Swap(g, i, s)
  <2>2. s = Smallest(g, n, i) /\ f = Swap(g, i, s)
        /\ Sinking(g, i, h, n, j)
    BY <2>1
  <2>3. /\ f \in [1 .. n -> C] /\ Sinking(f, s, h, n, j)
        /\ s = i \/ s > i
        /\ s = i => f = g
    <3> HIDE DEF f, s
    <3> QED
      BY <2>2, SinkRound
  <2>4. r[m] = <<f, s>>
    <3>1. SiftRound(<<g, i>>, n) = <<f, s>>
      BY DEF SiftRound
    <3> QED
      BY <1>7, <2>1, <3>1
  <2> HIDE DEF f
  <2>5. s \in 1 .. n
    BY <2>1, SmallestIs
  <2>6. s >= j + m \/ Smallest(f, n, s) = s
    <3>1. CASE s = i
      BY <2>3, <3>1
    <3>2. CASE s # i
      BY <2>1, <2>3, <2>5, <3>2
    <3> QED
      BY <3>1, <3>2
  <2> HIDE DEF s
  <2> QED
    BY <2>3, <2>4, <2>5, <2>6
<1>10. There(n)
  <2> HIDE DEF There
  <2>1. \A m \in 0 + 1 .. n : m - 1 \in P => m \in P
    BY <1>9
  <2> HIDE DEF P
  <2>2. 0 .. n \subseteq P
    BY <1>2, <1>8, <2>1, IntervalInduction, Zenon
  <2> QED
    BY <2>2 DEF P
<1>11. PICK g \in [1 .. n -> C], i \in 1 .. n :
         /\ r[n] = <<g, i>> /\ Sinking(g, i, h, n, j)
         /\ i >= j + n \/ Smallest(g, n, i) = i
  BY <1>10
<1>12. Smallest(g, n, i) = i
  BY <1>11
<1>13. \A c \in 1 .. n : Child(c, i) => g[i].val <= g[c].val
  BY <1>12, SmallestIs
<1>14. HeapFrom(g, n, j)
  BY <1>11, <1>13 DEF Sinking, HeapFrom
<1> QED
  BY <1>6, <1>11, <1>14 DEF Sinking

LEMMA RearrangedTwice ==
  ASSUME NEW f, NEW g, NEW h, NEW n, Rearranged(f, g, n), Rearranged(g, h, n)
  PROVE  Rearranged(f, h, n)
BY DEF Rearranged

\* The loop from the last entry with a child to the root makes a heap.
LEMMA BuildHeapIs ==
  ASSUME NEW C, Valued(C), NEW n \in Nat, NEW h \in [1 .. n -> C]
  PROVE  /\ BuildHeap(h, n) \in [1 .. n -> C]
         /\ HeapFrom(BuildHeap(h, n), n, 1)
         /\ Rearranged(BuildHeap(h, n), h, n)
<1> DEFINE d == n \div 2
           V == [1 .. n -> C]
           Def(f) == f = [m \in 0 .. d |->
                            IF m = 0 THEN h
                            ELSE SiftDown(f[m - 1], n, d + 1 - m)]
           b == CHOOSE f : Def(f)
           In(g, m) == HeapFrom(g, n, d + 1 - m)
           T(g, m) == IF In(g, m - 1) THEN SiftDown(g, n, d + 1 - m) ELSE g
           S == [m \in 0 + 1 .. d |-> [g \in V |-> T(g, m)]]
<1>1. d \in Nat /\ n = 2 * d + (n % 2) /\ n % 2 \in {0, 1}
  BY Division
<1> HIDE DEF d
<1>2. 0 \in Int /\ d \in Int /\ 0 <= d
  BY <1>1
<1>3. \A m \in 0 + 1 .. d :
        /\ d + 1 - m \in 1 .. n /\ (d + 1 - m) + 1 = d + 1 - (m - 1)
        /\ m - 1 \in 0 .. d /\ m \in 0 .. d
  BY <1>1
<1>4. ASSUME NEW m \in 0 + 1 .. d, NEW g \in V, In(g, m - 1)
      PROVE  /\ SiftDown(g, n, d + 1 - m) \in V
             /\ In(SiftDown(g, n, d + 1 - m), m)
             /\ Rearranged(SiftDown(g, n, d + 1 - m), g, n)
  <2>1. HeapFrom(g, n, (d + 1 - m) + 1)
    BY <1>3, <1>4
  <2> QED
    BY <1>3, <2>1, SiftDownSinks
<1>5. In(h, 0)
  BY <1>1 DEF HeapFrom, Child
<1>6. S \in [0 + 1 .. d -> [V -> V]]
  <2>1. \A m \in 0 + 1 .. d, g \in V : T(g, m) \in V
    BY <1>4
  <2> HIDE DEF T, V
  <2> QED
    BY <2>1
<1>7. PICK f : LoopIs(f, V, h, 0, d, S)
  <2>1. h \in V
    OBVIOUS
  <2> HIDE DEF V, S
  <2> QED
    BY <1>2, <1>6, <2>1, LoopExists
<1>8. /\ f \in [0 .. d -> V] /\ f[0] = h
      /\ \A m \in 0 + 1 .. d : f[m] = S[m][f[m - 1]]
  <2> HIDE DEF V, S
  <2> QED
    BY <1>7 DEF LoopIs
<1>9. \A m \in 0 + 1 .. d : f[m] = T(f[m - 1], m)
  <2> HIDE DEF V, T
  <2> QED
    BY <1>3, <1>8
<1>10. 0 .. d \subseteq {m \in 0 .. d : In(f[m], m)}
  <2> DEFINE P == {m \in 0 .. d : In(f[m], m)}
  <2>1. 0 \in P
    BY <1>1, <1>5, <1>8
  <2>2. ASSUME NEW m \in 0 + 1 .. d, m - 1 \in P PROVE m \in P
    <3>1. In(f[m - 1], m - 1) /\ f[m - 1] \in V
      BY <1>3, <1>8, <2>2
    <3>2. f[m] = SiftDown(f[m - 1], n, d + 1 - m)
      BY <1>9, <3>1
    <3> HIDE DEF In
    <3> QED
      BY <1>3, <1>4, <3>1, <3>2
  <2>3. 0 .. d \subseteq P
    <3> HIDE DEF P
    <3> QED
      BY <1>2, <2>1, <2>2, IntervalInduction
  <2> QED
    BY <2>3
<1>11. Def(f)
  <2>1. \A m \in 0 .. d : m = 0 \/ m \in 0 + 1 .. d
    BY <1>1
  <2>2. \A m \in 0 + 1 .. d : f[m] = SiftDown(f[m - 1], n, d + 1 - m)
    BY <1>3, <1>9, <1>10
  <2> HIDE DEF V, S, T, In
  <2> QED
    BY <1>1, <1>8, <2>1, <2>2
<1>12. Def(b)
  <2> HIDE DEF Def
  <2> QED
    BY <1>11
<1>13. BuildHeap(h, n) = b[d]
  BY DEF BuildHeap, d
<1> HIDE DEF b
<1>14. b[0] = h
       /\ \A m \in 0 + 1 .. d : b[m] = SiftDown(b[m - 1], n, d + 1 - m)
  BY <1>1, <1>3, <1>12
<1> DEFINE P == {m \in 0 .. d : b[m] \in V /\ In(b[m], m)
                                /\ Rearranged(b[m], h, n)}
<1>15. 0 \in P
  BY <1>1, <1>5, <1>14 DEF Rearranged
<1>16. ASSUME NEW m \in 0 + 1 .. d, m - 1 \in P PROVE m \in P
  <2> HIDE DEF In, V
  <2>1. /\ b[m] \in V /\ In(b[m], m) /\ Rearranged(b[m], b[m - 1], n)
        /\ Rearranged(b[m - 1], h, n)
    BY <1>3, <1>4, <1>14, <1>16
  <2>2. Rearranged(b[m], h, n)
    BY <2>1, RearrangedTwice
  <2> QED
    BY <1>3, <2>1, <2>2
<1>17. 0 .. d \subseteq P
  <2> HIDE DEF P
  <2> QED
    BY <1>2, <1>15, <1>16, IntervalInduction, Zenon
<1>18. b[d] \in V /\ In(b[d], d) /\ Rearranged(b[d], h, n) /\ d + 1 - d = 1
  BY <1>1, <1>17
<1> QED
  BY <1>13, <1>18

\* The root of a heap is not above any entry.
LEMMA HeapRoot ==
  ASSUME NEW C, Valued(C), NEW n \in Nat, NEW h \in [1 .. n -> C],
         HeapFrom(h, n, 1), NEW r \in 1 .. n
  PROVE  h[1].val <= h[r].val
<1> DEFINE Good == {m \in Nat : \A q \in 1 .. n :
                      q <= m => h[1].val <= h[q].val}
<1>1. \A q \in 1 .. n : h[q].val \in Int
  BY DEF Valued
<1>2. 0 \in Good
  OBVIOUS
<1>3. ASSUME NEW m \in Nat, m \in Good PROVE m + 1 \in Good
  <2> SUFFICES ASSUME NEW q \in 1 .. n, q <= m + 1
               PROVE  h[1].val <= h[q].val
    OBVIOUS
  <2>1. CASE q = 1
    BY <1>1, <2>1
  <2>2. CASE q # 1
    <3> DEFINE p == q \div 2
    <3>1. p \in Nat /\ q = 2 * p + (q % 2) /\ q % 2 \in 0 .. 1
      BY Division
    <3> HIDE DEF p
    <3>2. p \in 1 .. n /\ p <= m /\ Child(q, p) /\ 1 \in 1 .. n
      BY <2>2, <3>1 DEF Child
    <3>3. h[1].val <= h[p].val /\ h[p].val <= h[q].val
      BY <1>3, <3>2 DEF HeapFrom
    <3> QED
      BY <1>1, <3>2, <3>3
  <2> QED
    BY <2>1, <2>2
<1>4. Nat \subseteq Good
  <2> HIDE DEF Good
  <2> QED
    BY <1>2, <1>3, SetInduction
<1> QED
  BY <1>4

LEMMA HeapReplaceIs ==
  ASSUME NEW C, Valued(C), NEW k \in Nat \ {0}, NEW g \in [1 .. k -> C],
         HeapFrom(g, k, 1), NEW c \in C,
         NEW f \in [1 .. k -> C], f[1] = c,
         \A q \in 1 .. k : q # 1 => f[q] = g[q]
  PROVE  /\ HeapReplace(g, k, c) \in [1 .. k -> C]
         /\ HeapFrom(HeapReplace(g, k, c), k, 1)
         /\ IF c.val > g[1].val THEN Rearranged(HeapReplace(g, k, c), f, k)
            ELSE HeapReplace(g, k, c) = g
<1>1. f = [g EXCEPT ![1] = c]
  OBVIOUS
<1>2. CASE c.val > g[1].val
  <2>1. f \in [1 .. k -> C] /\ 1 \in 1 .. k
    OBVIOUS
  <2>2. \A q \in 1 .. k : q # 1 => f[q] = g[q]
    OBVIOUS
  <2>3. HeapFrom(f, k, 1 + 1)
    <3> SUFFICES ASSUME NEW q \in 1 + 1 .. k, NEW d \in 1 .. k, Child(d, q)
                 PROVE  f[q].val <= f[d].val
      BY DEF HeapFrom
    <3>1. q # 1 /\ d # 1 /\ q \in 1 .. k
      BY DEF Child
    <3>2. g[q].val <= g[d].val
      BY <3>1 DEF HeapFrom
    <3> QED
      BY <2>2, <3>1, <3>2
  <2>4. /\ SiftDown(f, k, 1) \in [1 .. k -> C]
        /\ HeapFrom(SiftDown(f, k, 1), k, 1)
        /\ Rearranged(SiftDown(f, k, 1), f, k)
    BY <2>1, <2>3, SiftDownSinks
  <2>5. HeapReplace(g, k, c) = SiftDown(f, k, 1)
    BY <1>1, <1>2 DEF HeapReplace
  <2> QED
    BY <1>2, <2>4, <2>5
<1>3. CASE ~(c.val > g[1].val)
  BY <1>3 DEF HeapReplace
<1> QED
  BY <1>2, <1>3

\* h is a heap of k of the first j entries of s, and nothing it leaves out
\* of those is above an entry of it.
Selects(h, s, k, j) ==
  /\ HeapFrom(h, k, 1) /\ Distinct(h, k)
  /\ Entries(h, k) \subseteq Entries(s, j)
  /\ \A i \in 1 .. j, q \in 1 .. k :
       s[i] \in Entries(h, k) \/ s[i].val <= h[q].val

\* What the scan selects it has selected of one more entry.
LEMMA SelectsNext ==
  ASSUME NEW C, Valued(C), NEW n \in Nat, NEW s \in [1 .. n -> C],
         Distinct(s, n), NEW k \in Nat \ {0}, NEW j \in k + 1 .. n,
         NEW g \in [1 .. k -> C], Selects(g, s, k, j - 1)
  PROVE  /\ HeapReplace(g, k, s[j]) \in [1 .. k -> C]
         /\ Selects(HeapReplace(g, k, s[j]), s, k, j)
<1> DEFINE c == s[j]
           r == HeapReplace(g, k, c)
           f == [g EXCEPT ![1] = c]
<1>1. /\ HeapFrom(g, k, 1) /\ Distinct(g, k)
      /\ Entries(g, k) \subseteq Entries(s, j - 1)
      /\ \A i \in 1 .. j - 1, q \in 1 .. k :
           s[i] \in Entries(g, k) \/ s[i].val <= g[q].val
  BY DEF Selects
<1>2. j \in 1 .. n /\ c \in C /\ 1 \in 1 .. k
  OBVIOUS
<1>3. /\ \A i \in 1 .. n : s[i].val \in Int
      /\ \A q \in 1 .. k : g[q].val \in Int /\ g[q] \in Entries(g, k)
  BY DEF Valued, Entries
<1>4. \A i \in 1 .. j - 1 : i \in 1 .. j /\ i \in 1 .. n /\ i # j
  OBVIOUS
<1>5. \A i \in 1 .. j : i = j \/ i \in 1 .. j - 1
  OBVIOUS
<1>6. \A q \in 1 .. k : g[1].val <= g[q].val
  BY <1>1, HeapRoot
<1> HIDE DEF c
<1>7. /\ f \in [1 .. k -> C] /\ f[1] = c
      /\ \A q \in 1 .. k : q # 1 => f[q] = g[q]
  BY <1>2
<1> HIDE DEF f
<1>8. /\ r \in [1 .. k -> C] /\ HeapFrom(r, k, 1)
      /\ IF c.val > g[1].val THEN Rearranged(r, f, k) ELSE r = g
  BY <1>1, <1>2, <1>7, HeapReplaceIs
<1>9. Entries(s, j - 1) \subseteq Entries(s, j)
  BY <1>4 DEF Entries
<1>10. CASE c.val > g[1].val
  <2> HIDE DEF r
  <2>1. f[1] = c /\ \A q \in 1 .. k : q # 1 => f[q] = g[q]
    BY <1>7
  <2>2. Entries(r, k) = Entries(f, k) /\ (Distinct(f, k) => Distinct(r, k))
    BY <1>8, <1>10 DEF Rearranged
  <2>3. c \notin Entries(g, k)
    <3>1. c \notin Entries(s, j - 1)
      BY <1>2, <1>4 DEF c, Distinct, Entries
    <3> QED
      BY <1>1, <3>1
  <2>4. Distinct(f, k)
    <3> SUFFICES ASSUME NEW p \in 1 .. k, NEW q \in 1 .. k, f[p] = f[q]
                 PROVE  p = q
      BY DEF Distinct
    <3>1. CASE p = 1 /\ q # 1
      BY <1>3, <2>1, <2>3, <3>1
    <3>2. CASE p # 1 /\ q = 1
      BY <1>3, <2>1, <2>3, <3>2
    <3>3. CASE p # 1 /\ q # 1
      BY <1>1, <2>1, <3>3 DEF Distinct
    <3> QED
      BY <3>1, <3>2, <3>3
  <2>5. Entries(f, k) \subseteq Entries(s, j)
    <3>1. c \in Entries(s, j)
      BY <1>2 DEF c, Entries
    <3>2. \A q \in 1 .. k : f[q] \in Entries(s, j)
      BY <1>1, <1>3, <1>9, <2>1, <3>1
    <3> QED
      BY <3>2 DEF Entries
  <2>6. ASSUME NEW q \in 1 .. k
        PROVE  r[q].val \in Int /\ g[1].val <= r[q].val
               /\ (r[q] = c \/ r[q] \in Entries(g, k))
    <3>1. r[q] \in Entries(f, k)
      BY <2>2 DEF Entries
    <3>2. PICK p \in 1 .. k : r[q] = f[p]
      BY <3>1 DEF Entries
    <3>3. CASE p = 1
      BY <1>2, <1>3, <1>10, <2>1, <3>2, <3>3 DEF c
    <3>4. CASE p # 1
      BY <1>3, <1>6, <2>1, <3>2, <3>4
    <3> QED
      BY <3>3, <3>4
  <2>7. \A x \in Entries(g, k) : x = g[1] \/ x \in Entries(f, k)
    BY <2>1 DEF Entries
  <2>8. ASSUME NEW i \in 1 .. j, NEW q \in 1 .. k
        PROVE  s[i] \in Entries(r, k) \/ s[i].val <= r[q].val
    <3>1. CASE i = j
      <4>1. f[1] \in Entries(f, k)
        BY <1>2 DEF Entries
      <4> QED
        BY <2>1, <2>2, <3>1, <4>1 DEF c
    <3>2. CASE i \in 1 .. j - 1
      <4>1. s[i] \in Entries(g, k) \/ s[i].val <= g[1].val
        BY <1>1, <1>2, <3>2
      <4>2. CASE s[i].val <= g[1].val
        BY <1>2, <1>3, <1>4, <2>6, <3>2, <4>2
      <4>3. CASE s[i] \in Entries(g, k)
        <5>1. CASE s[i] = g[1]
          BY <2>6, <5>1, <1>2, <1>3
        <5>2. CASE s[i] \in Entries(f, k)
          BY <2>2, <5>2
        <5> QED
          BY <2>7, <4>3, <5>1, <5>2
      <4> QED
        BY <4>1, <4>2, <4>3
    <3> QED
      BY <1>5, <3>1, <3>2
  <2>9. Selects(r, s, k, j)
    BY <1>8, <2>2, <2>4, <2>5, <2>8 DEF Selects
  <2> QED
    BY <1>8, <2>9 DEF r, c
<1>11. CASE ~(c.val > g[1].val)
  <2>1. r = g
    BY <1>8, <1>11
  <2>2. ASSUME NEW i \in 1 .. j, NEW q \in 1 .. k
        PROVE  s[i] \in Entries(g, k) \/ s[i].val <= g[q].val
    <3>1. CASE i = j
      <4>1. s[i].val <= g[1].val
        BY <1>2, <1>3, <1>11, <3>1 DEF c
      <4> QED
        BY <1>2, <1>3, <1>6, <3>1, <4>1
    <3>2. CASE i \in 1 .. j - 1
      BY <1>1, <3>2
    <3> QED
      BY <1>5, <3>1, <3>2
  <2>3. Selects(g, s, k, j)
    BY <1>1, <1>9, <2>2 DEF Selects
  <2> QED
    BY <1>8, <2>1, <2>3 DEF c
<1> QED
  BY <1>10, <1>11

LEMMA PrefixIs ==
  ASSUME NEW C, NEW s \in Seq(C), NEW k \in 0 .. Len(s)
  PROVE  /\ SubSeq(s, 1, k) \in Seq(C) /\ SubSeq(s, 1, k) \in [1 .. k -> C]
         /\ Len(SubSeq(s, 1, k)) = k
         /\ \A q \in 1 .. k : SubSeq(s, 1, k)[q] = s[q]
<1> DEFINE a == SubSeq(s, 1, k)
<1>1. 1 \in Int /\ k \in Int /\ \A i \in 1 .. k : s[i] \in C
  OBVIOUS
<1>2. /\ a \in Seq(C) /\ Len(a) = IF 1 <= k THEN k - 1 + 1 ELSE 0
      /\ \A q \in 1 .. k - 1 + 1 : a[q] = s[1 + q - 1]
  BY <1>1, SubSeqProperties
<1> HIDE DEF a
<1>3. Len(a) = k /\ a \in [1 .. Len(a) -> C]
  BY <1>2
<1>4. \A q \in 1 .. k : q \in 1 .. k - 1 + 1 /\ 1 + q - 1 = q
  OBVIOUS
<1>5. \A q \in 1 .. k : a[q] = s[q]
  BY <1>2, <1>4
<1> QED
  BY <1>2, <1>3, <1>5 DEF a

\* The scan selects the k largest entries of a sequence.
LEMMA HeapSelectIs ==
  ASSUME NEW C, Valued(C), NEW s \in Seq(C), Distinct(s, Len(s)),
         NEW k \in Nat \ {0}, k <= Len(s)
  PROVE  /\ HeapSelect(s, k) \in [1 .. k -> C]
         /\ Selects(HeapSelect(s, k), s, k, Len(s))
<1> DEFINE n == Len(s)
           V == [1 .. k -> C]
           v == BuildHeap(SubSeq(s, 1, k), k)
           Def(f) == f = [j \in k .. n |->
                            IF j = k THEN BuildHeap(SubSeq(s, 1, k), k)
                            ELSE HeapReplace(f[j - 1], k, s[j])]
           b == CHOOSE f : Def(f)
           T(g, j) == IF HeapFrom(g, k, 1) THEN HeapReplace(g, k, s[j]) ELSE g
           S == [j \in k + 1 .. n |-> [g \in V |-> T(g, j)]]
<1>1. n \in Nat /\ n \in Int /\ k \in Int /\ k <= n /\ s \in [1 .. n -> C]
  OBVIOUS
<1> HIDE DEF n
<1>2. \A j \in k + 1 .. n : /\ j \in 1 .. n /\ s[j] \in C
                            /\ j - 1 \in k .. n /\ j \in k .. n /\ j # k
  BY <1>1
<1>3. v \in V /\ Selects(v, s, k, k)
  <2> DEFINE a == SubSeq(s, 1, k)
  <2>1. k \in 0 .. Len(s)
    BY <1>1 DEF n
  <2>2. a \in [1 .. k -> C] /\ \A q \in 1 .. k : a[q] = s[q] /\ q \in 1 .. n
    BY <1>1, <2>1, PrefixIs
  <2> HIDE DEF a
  <2>3. v \in [1 .. k -> C] /\ HeapFrom(v, k, 1) /\ Rearranged(v, a, k)
    BY <2>2, BuildHeapIs DEF a
  <2>4. Distinct(a, k)
    BY <1>1, <2>2 DEF Distinct, n
  <2>5. Entries(a, k) = Entries(s, k)
    BY <2>2 DEF Entries
  <2> HIDE DEF v
  <2>6. Distinct(v, k) /\ Entries(v, k) = Entries(s, k)
    BY <2>3, <2>4, <2>5 DEF Rearranged
  <2>7. \A i \in 1 .. k : s[i] \in Entries(v, k)
    BY <2>6 DEF Entries
  <2> QED
    BY <2>3, <2>6, <2>7 DEF Selects
<1> HIDE DEF v
<1>4. ASSUME NEW j \in k + 1 .. n, NEW g \in V, Selects(g, s, k, j - 1)
      PROVE  HeapReplace(g, k, s[j]) \in V
             /\ Selects(HeapReplace(g, k, s[j]), s, k, j)
  <2>1. Distinct(s, n)
    BY DEF n
  <2> QED
    BY <1>1, <1>4, <2>1, SelectsNext
<1>5. S \in [k + 1 .. n -> [V -> V]]
  <2>1. ASSUME NEW g \in V, NEW j \in k + 1 .. n PROVE T(g, j) \in V
    <3> DEFINE f == [g EXCEPT ![1] = s[j]]
    <3>1. /\ f \in V /\ f[1] = s[j]
          /\ \A q \in 1 .. k : q # 1 => f[q] = g[q]
      BY <1>2
    <3> HIDE DEF f
    <3>2. HeapFrom(g, k, 1) => HeapReplace(g, k, s[j]) \in V
      BY <1>2, <3>1, HeapReplaceIs
    <3> QED
      BY <3>2
  <2> HIDE DEF T, V
  <2> QED
    BY <2>1
<1>6. PICK f : LoopIs(f, V, v, k, n, S)
  <2> HIDE DEF V, S
  <2> QED
    BY <1>1, <1>3, <1>5, LoopExists
<1>7. /\ f \in [k .. n -> V] /\ f[k] = v
      /\ \A j \in k + 1 .. n : f[j] = S[j][f[j - 1]]
  <2> HIDE DEF V, S
  <2> QED
    BY <1>6 DEF LoopIs
<1>8. \A j \in k + 1 .. n : f[j - 1] \in V /\ f[j] = T(f[j - 1], j)
  <2> HIDE DEF V, T
  <2> QED
    BY <1>2, <1>7
<1> DEFINE P == {j \in k .. n : Selects(f[j], s, k, j)}
<1>9. k \in P
  BY <1>1, <1>3, <1>7
<1>10. ASSUME NEW j \in k + 1 .. n, j - 1 \in P
       PROVE  j \in P /\ f[j] = HeapReplace(f[j - 1], k, s[j])
  <2>1. Selects(f[j - 1], s, k, j - 1) /\ HeapFrom(f[j - 1], k, 1)
    BY <1>10 DEF Selects
  <2>2. f[j] = HeapReplace(f[j - 1], k, s[j])
    BY <1>8, <2>1
  <2> QED
    BY <1>2, <1>4, <1>8, <2>1, <2>2
<1>11. k .. n \subseteq P
  <2>1. \A j \in k + 1 .. n : j - 1 \in P => j \in P
    BY <1>10
  <2> HIDE DEF P
  <2> QED
    BY <1>1, <1>9, <2>1, IntervalInduction
<1>12. Def(f)
  <2>1. \A j \in k .. n : j = k \/ j \in k + 1 .. n
    BY <1>1
  <2>2. \A j \in k + 1 .. n : f[j] = HeapReplace(f[j - 1], k, s[j])
    <3> HIDE DEF P
    <3> QED
      BY <1>2, <1>10, <1>11
  <2>3. \A j \in k .. n :
          f[j] = IF j = k THEN BuildHeap(SubSeq(s, 1, k), k)
                 ELSE HeapReplace(f[j - 1], k, s[j])
    BY <1>7, <2>1, <2>2 DEF v
  <2> HIDE DEF V, S, T, P
  <2>4. Def(f)
    BY <1>7, <2>3
  <2> QED
    BY <2>4
<1>13. Def(b)
  <2> HIDE DEF Def
  <2> QED
    BY <1>12
<1>14. HeapSelect(s, k) = b[n]
  BY DEF HeapSelect, n
<1> HIDE DEF b, P
<1>15. b[k] = v /\ \A j \in k + 1 .. n : b[j] = HeapReplace(b[j - 1], k, s[j])
  BY <1>1, <1>2, <1>13 DEF v
<1> DEFINE Q == {j \in k .. n : b[j] = f[j]}
<1>16. k \in Q
  BY <1>1, <1>7, <1>15
<1>17. ASSUME NEW j \in k + 1 .. n, j - 1 \in Q PROVE j \in Q
  BY <1>2, <1>10, <1>11, <1>15, <1>17
<1>18. k .. n \subseteq Q
  <2> HIDE DEF Q
  <2> QED
    BY <1>1, <1>16, <1>17, IntervalInduction
<1>19. b[n] \in V /\ Selects(b[n], s, k, n)
  BY <1>1, <1>7, <1>11, <1>18 DEF P
<1> QED
  BY <1>14, <1>19 DEF n

\* The heap behind both partial selections keeps k of the entries of any
\* sequence of distinct candidates, each once, and no entry it drops is above
\* one it keeps, for every k and however the candidates are ordered and tied.
THEOREM HeapKeepsLargest ==
  ASSUME NEW C, Valued(C), NEW s \in Seq(C), Distinct(s, Len(s)),
         NEW k \in Nat \ {0}, k <= Len(s)
  PROVE  LET h == HeapSelect(s, k)
         IN  /\ h \in [1 .. k -> C] /\ Distinct(h, k)
             /\ Entries(h, k) \subseteq Entries(s, Len(s))
             /\ \A i \in 1 .. Len(s), q \in 1 .. k :
                  s[i] \in Entries(h, k) \/ s[i].val <= h[q].val
BY HeapSelectIs DEF Selects

-----------------------------------------------------------------------------
(* Lists of candidates.                                                    *)

\* s lists distinct tokens of S with their weights w.
Lists(s, S, w) ==
  /\ s \in Seq([id: S, val: Int]) /\ s # <<>>
  /\ \A j \in 1 .. Len(s) : s[j].val = w[s[j].id]
  /\ \A j, k \in 1 .. Len(s) : s[j].id = s[k].id => j = k

\* No token of S that s leaves out is above one that s lists.
Best(s, S, w) ==
  \A t \in S : \/ \E k \in 1 .. Len(s) : s[k].id = t
               \/ \A j \in 1 .. Len(s) : w[t] <= s[j].val

Sorted(s) == \A j, k \in 1 .. Len(s) : j < k => s[j].val >= s[k].val

\* o has the candidates of s in another order.
Reorders(o, s) ==
  \E p \in Bijection(1 .. Len(s), 1 .. Len(s)) :
    o = [j \in 1 .. Len(s) |-> s[p[j]]]

LEMMA ListsFacts ==
  ASSUME NEW s, NEW S, NEW w, Lists(s, S, w)
  PROVE  /\ Len(s) \in Nat \ {0} /\ DOMAIN s = 1 .. Len(s)
         /\ s \in [1 .. Len(s) -> [id: S, val: Int]]
         /\ \A j \in 1 .. Len(s) :
              s[j] \in [id: S, val: Int] /\ s[j].id \in S /\ s[j].val \in Int
<1>1. s \in Seq([id: S, val: Int]) /\ s # <<>>
  BY DEF Lists
<1> DEFINE C == [id: S, val: Int]
<1> HIDE DEF C
<1>2. s \in [1 .. Len(s) -> C] /\ Len(s) \in Nat /\ DOMAIN s = 1 .. Len(s)
  <2>1. s \in Seq(C)
    BY <1>1 DEF C
  <2> QED
    BY <2>1
<1>3. Len(s) # 0
  <2>1. s \in Seq(C) /\ s # <<>>
    BY <1>1 DEF C
  <2> QED
    BY <2>1, EmptySeq
<1>4. \A j \in 1 .. Len(s) : s[j] \in C
  BY <1>2
<1>5. \A c \in C : c.id \in S /\ c.val \in Int
  BY DEF C
<1> QED
  BY <1>2, <1>3, <1>4, <1>5 DEF C

LEMMA ReordersIs ==
  ASSUME NEW s, NEW S, NEW w, Lists(s, S, w), NEW o, Reorders(o, s)
  PROVE  /\ Lists(o, S, w) /\ Len(o) = Len(s)
         /\ Mass(o) = Mass(s)
         /\ Best(s, S, w) => Best(o, S, w)
<1> DEFINE n == Len(s)
           C == [id: S, val: Int]
<1>1. n \in Nat \ {0} /\ s \in [1 .. n -> C] /\ DOMAIN s = 1 .. n
      /\ \A j \in 1 .. n : s[j] \in C /\ s[j].id \in S /\ s[j].val \in Int
  BY ListsFacts
<1>2. PICK p \in Bijection(1 .. n, 1 .. n) : o = [j \in 1 .. n |-> s[p[j]]]
  BY DEF Reorders
<1> HIDE DEF n, C
<1>3. /\ p \in [1 .. n -> 1 .. n]
      /\ \A a, b \in 1 .. n : p[a] = p[b] => a = b
      /\ \A d \in 1 .. n : \E e \in 1 .. n : p[e] = d
  BY <1>2 DEF Bijection, Injection, Surjection, IsInjective
<1>4. o \in [1 .. n -> C] /\ \A j \in 1 .. n : o[j] = s[p[j]]
  BY <1>1, <1>2, <1>3
<1>5. o \in Seq(C) /\ Len(o) = n /\ DOMAIN o = 1 .. n
  BY <1>1, <1>4
<1>6. o # <<>>
  BY <1>1, <1>5
<1>7. /\ \A j \in 1 .. n : s[j].val = w[s[j].id]
      /\ \A j, k \in 1 .. n : s[j].id = s[k].id => j = k
  BY DEF Lists, n
<1>8. Lists(o, S, w)
  <2>1. \A j \in 1 .. n : p[j] \in 1 .. n /\ o[j] = s[p[j]]
    BY <1>3, <1>4
  <2>2. \A j \in 1 .. n : o[j].val = w[o[j].id]
    BY <1>7, <2>1
  <2>3. ASSUME NEW j \in 1 .. n, NEW k \in 1 .. n, o[j].id = o[k].id
        PROVE  j = k
    <3>1. s[p[j]].id = s[p[k]].id
      BY <2>1, <2>3
    <3>2. p[j] = p[k]
      BY <1>7, <2>1, <3>1
    <3> QED
      BY <1>3, <3>2
  <2> QED
    BY <1>5, <1>6, <2>2, <2>3 DEF Lists, C
<1>9. Mass(o) = Mass(s)
  <2> DEFINE f == [j \in 1 .. n |-> s[j].val]
             g == Reindexed(f, p, 1 .. n)
  <2>1. f \in [1 .. n -> Int] /\ \A j \in 1 .. n : f[j] = s[j].val
    BY <1>1
  <2>2. [j \in DOMAIN o |-> o[j].val] = g
    BY <1>3, <1>4, <1>5 DEF Reindexed
  <2>3. [j \in DOMAIN s |-> s[j].val] = f
    BY <1>1
  <2>4. IsFiniteSet(1 .. n)
    BY <1>1, FS_Interval
  <2>5. SumFunction(g) = SumFunction(f)
    <3> DEFINE I == 1 .. n
    <3>1. f \in [I -> Int] /\ p \in Bijection(I, I) /\ IsFiniteSet(I)
      BY <1>2, <2>1, <2>4
    <3> HIDE DEF f, I
    <3>2. SumFunction(Reindexed(f, p, I)) = SumFunction(f)
      BY <3>1, SumReindex
    <3> QED
      BY <3>2 DEF I
  <2> HIDE DEF f, g
  <2> QED
    BY <2>2, <2>3, <2>5 DEF Mass
<1>10. ASSUME Best(s, S, w) PROVE Best(o, S, w)
  <2> SUFFICES ASSUME NEW t \in S
               PROVE  \/ \E k \in 1 .. n : o[k].id = t
                      \/ \A j \in 1 .. n : w[t] <= o[j].val
    BY <1>5 DEF Best
  <2>1. \/ \E k \in 1 .. n : s[k].id = t
        \/ \A j \in 1 .. n : w[t] <= s[j].val
    BY <1>10 DEF Best, n
  <2>2. ASSUME NEW k \in 1 .. n, s[k].id = t
        PROVE  \E e \in 1 .. n : o[e].id = t
    BY <1>3, <1>4, <2>2
  <2>3. ASSUME \A j \in 1 .. n : w[t] <= s[j].val
        PROVE  \A j \in 1 .. n : w[t] <= o[j].val
    BY <1>3, <1>4, <2>3
  <2> QED
    BY <2>1, <2>2, <2>3
<1> QED
  BY <1>5, <1>8, <1>9, <1>10 DEF n

\* What qsort may leave.
LEMMA DescendingIs ==
  ASSUME NEW s, NEW S, NEW w, Lists(s, S, w), Len(s) <= Vocab,
         NEW o \in Descending(s)
  PROVE  Reorders(o, s) /\ Sorted(o)
<1> DEFINE n == Len(s)
<1>1. n \in Nat /\ n \in 0 .. Vocab
  BY ListsFacts, SamplerAssumption
<1>2. Rearrangements[n] = Bijection(1 .. n, 1 .. n)
  BY <1>1 DEF Rearrangements
<1>3. PICK q \in Bijection(1 .. n, 1 .. n) :
        /\ \A j, k \in 1 .. n : j < k => s[q[j]].val >= s[q[k]].val
        /\ o = [j \in 1 .. n |-> s[q[j]]]
  BY <1>2 DEF Descending
<1> HIDE DEF n
<1>4. Len(o) = n /\ \A j \in 1 .. n : o[j] = s[q[j]]
  BY <1>1, <1>3
<1>5. Sorted(o)
  BY <1>3, <1>4 DEF Sorted
<1> QED
  BY <1>3, <1>5 DEF Reorders, n

\* A list as long as the set has all of it.
LEMMA ListsAll ==
  ASSUME NEW S, IsFiniteSet(S), NEW w, NEW s, Lists(s, S, w)
  PROVE  /\ Len(s) <= Cardinality(S)
         /\ Len(s) = Cardinality(S) =>
              /\ \A t \in S : \E k \in 1 .. Len(s) : s[k].id = t
              /\ Mass(s) = SumFunction([t \in S |-> w[t]])
<1> DEFINE n == Len(s)
           p == [j \in 1 .. n |-> s[j].id]
<1>1. n \in Nat /\ DOMAIN s = 1 .. n
      /\ \A j \in 1 .. n : s[j].id \in S /\ s[j].val \in Int
  BY ListsFacts
<1>2. /\ \A j \in 1 .. n : s[j].val = w[s[j].id]
      /\ \A j, k \in 1 .. n : s[j].id = s[k].id => j = k
  BY DEF Lists
<1> HIDE DEF n
<1>3. p \in [1 .. n -> S] /\ \A j \in 1 .. n : p[j] = s[j].id
  BY <1>1
<1> HIDE DEF p
<1>4. p \in Injection(1 .. n, S)
  BY <1>2, <1>3 DEF Injection, IsInjective
<1>5. IsFiniteSet(1 .. n) /\ Cardinality(1 .. n) = n
  BY <1>1, FS_Interval
<1>6. n <= Cardinality(S) /\ (n = Cardinality(S) <=> p \in Surjection(1 .. n, S))
  BY <1>4, <1>5, FS_Injection
<1>7. ASSUME n = Cardinality(S)
      PROVE  /\ \A t \in S : \E k \in 1 .. n : s[k].id = t
             /\ Mass(s) = SumFunction([t \in S |-> w[t]])
  <2>1. p \in Surjection(1 .. n, S)
    BY <1>6, <1>7
  <2>2. p \in Bijection(1 .. n, S)
    BY <1>4, <2>1 DEF Bijection
  <2>3. \A t \in S : \E k \in 1 .. n : p[k] = t
    BY <2>1 DEF Surjection
  <2>4. \A t \in S : \E k \in 1 .. n : s[k].id = t
    BY <1>3, <2>3
  <2> DEFINE f == [t \in S |-> w[t]]
             g == Reindexed(f, p, 1 .. n)
  <2>5. f \in [S -> Int]
    <3>1. \A t \in S : w[t] \in Int
      BY <1>1, <1>2, <2>4
    <3> QED
      BY <3>1
  <2>6. [j \in DOMAIN s |-> s[j].val] = g
    BY <1>1, <1>2, <1>3 DEF Reindexed
  <2> HIDE DEF f
  <2>7. SumFunction(g) = SumFunction(f)
    BY <1>5, <2>2, <2>5, SumReindex
  <2>8. Mass(s) = SumFunction(f)
    BY <2>6, <2>7 DEF Mass
  <2> QED
    BY <2>4, <2>8 DEF f
<1> QED
  BY <1>6, <1>7 DEF n

-----------------------------------------------------------------------------
(* The penalty.                                                            *)

\* The tokens of the history the penalty loop has seen, and the logits it
\* should have left.
Past == {args.history[j] : j \in 1 .. nseen}

Expected ==
  [t \in Tokens |-> IF t \in Past \ Protected /\ args.penalty > 0
                    THEN Penalised(raw[t], args.penalty) ELSE raw[t]]

Words == 0 .. (Vocab - 1) \div WordBits

InputInv ==
  /\ phase \in {"called", "penalty", "sample", "filter", "draw", "returned"}
  /\ args \in Calls /\ raw \in LogitVectors /\ logits \in [Tokens -> Int]
  /\ nseen \in Nat
  /\ visited \in [Words -> SUBSET (0 .. WordBits - 1)]

PenaltyInv ==
  /\ phase = "called" => nseen = 0 /\ logits = raw
  /\ phase = "penalty" =>
       /\ nseen \in 0 .. Len(args.history)
       /\ \A t \in Tokens : Seen(t) <=> t \in Past
       /\ logits = Expected
  /\ phase = "sample" => logits = [t \in Tokens |-> Expected[t] * args.temp]

\* Every token has its bit in one word of the set, and no other token has it.
LEMMA WordOf ==
  ASSUME NEW t \in Tokens
  PROVE  /\ t \div WordBits \in Words /\ t % WordBits \in 0 .. WordBits - 1
         /\ \A u \in Tokens : t \div WordBits = u \div WordBits
                              /\ t % WordBits = u % WordBits => t = u
<1> DEFINE V == Vocab - 1
           q == t \div WordBits
           z == V \div WordBits
<1>1. t \in Nat /\ V \in Nat /\ t <= V /\ WordBits \in Nat \ {0}
  BY SamplerAssumption DEF Tokens
<1>2. /\ q \in Nat /\ t % WordBits \in 0 .. WordBits - 1
      /\ t = WordBits * q + (t % WordBits)
  BY <1>1, Division
<1>3. /\ z \in Nat /\ V % WordBits \in 0 .. WordBits - 1
      /\ V = WordBits * z + (V % WordBits)
  BY <1>1, Division
<1>4. q <= z
  <2> SUFFICES ASSUME q >= z + 1 PROVE FALSE
    BY <1>2, <1>3
  <2> HIDE DEF q, z, V
  <2>1. PICK d \in Nat : q = z + 1 + d
    <3>1. q - z - 1 \in Nat /\ q = z + 1 + (q - z - 1)
      BY <1>2, <1>3
    <3> QED
      BY <3>1
  <2>2. WordBits * q = WordBits * z + WordBits + WordBits * d
    BY <1>1, <1>3, <2>1
  <2>3. WordBits * d \in Nat /\ WordBits * z \in Nat /\ WordBits * q \in Nat
    BY <1>1, <1>2, <1>3, Product
  <2>4. t % WordBits \in Nat /\ V % WordBits \in Nat /\ V % WordBits < WordBits
    BY <1>1, <1>2, <1>3
  <2> DEFINE a == WordBits * z
             b == WordBits * q
             e == WordBits * d
             f == t % WordBits
             g == V % WordBits
  <2>5. t = b + f /\ V = a + g /\ b = a + WordBits + e /\ f \in Nat /\ g \in Nat
        /\ g < WordBits /\ e \in Nat /\ a \in Nat /\ b \in Nat
    BY <1>2, <1>3, <2>2, <2>3, <2>4
  <2> HIDE DEF a, b, e, f, g
  <2> QED
    BY <1>1, <2>5
<1>5. ASSUME NEW u \in Tokens, q = u \div WordBits,
             t % WordBits = u % WordBits
      PROVE  t = u
  <2>1. u \in Nat
    BY DEF Tokens
  <2>2. u = WordBits * (u \div WordBits) + (u % WordBits)
    BY <1>1, <2>1, Division
  <2> QED
    BY <1>2, <1>5, <2>2
<1> QED
  BY <1>2, <1>3, <1>4, <1>5 DEF Words

\* The arguments are what callers pass.
LEMMA ArgsTyped ==
  ASSUME InputInv
  PROVE  /\ args = [token |-> args.token, history |-> args.history,
                    penalty |-> args.penalty, temp |-> args.temp,
                    minP |-> args.minP, topP |-> args.topP,
                    topK |-> args.topK]
         /\ args.token \in Int /\ args.history \in Seq(Int)
         /\ args.penalty \in Nat /\ args.temp \in Nat
         /\ args.minP \in Nat \cup {NoMinP}
         /\ args.topP \in Nat \X Nat /\ args.topK \in Int
         /\ raw \in [Tokens -> Int]
BY InputsAssumption DEF InputInv

LEMMA PenalisedTyped ==
  ASSUME NEW l \in Int, NEW p \in Nat, p > 0
  PROVE  Penalised(l, p) \in Int
BY DEF Penalised

LEMMA ExpectedTyped ==
  ASSUME InputInv
  PROVE  Expected \in [Tokens -> Int]
<1>1. args.penalty \in Nat /\ raw \in [Tokens -> Int]
  BY ArgsTyped
<1>2. \A t \in Tokens : args.penalty > 0 => Penalised(raw[t], args.penalty) \in Int
  BY <1>1, PenalisedTyped
<1> QED
  BY <1>1, <1>2 DEF Expected

\* One entry of the history keeps the account: its mark says whether the
\* penalty has been applied.
LEMMA PenaliseStep ==
  ASSUME InputInv, PenaltyInv, PenaliseNext
  PROVE  InputInv' /\ PenaltyInv'
<1> DEFINE past == args.history[nseen + 1]
           new  == past \in Tokens /\ ~Seen(past)
<1>1. /\ phase = "penalty" /\ nseen < Len(args.history)
      /\ nseen' = nseen + 1
      /\ visited' = IF new
                    THEN [visited EXCEPT ![past \div WordBits] =
                            @ \cup {past % WordBits}]
                    ELSE visited
      /\ logits' = IF new /\ past \notin Protected /\ args.penalty > 0
                   THEN [logits EXCEPT ![past] = Penalised(@, args.penalty)]
                   ELSE logits
      /\ phase' = phase /\ args' = args /\ raw' = raw
  BY DEF PenaliseNext
<1>2. /\ args \in Calls /\ raw \in LogitVectors /\ logits \in [Tokens -> Int]
      /\ nseen \in Nat /\ visited \in [Words -> SUBSET (0 .. WordBits - 1)]
      /\ nseen \in 0 .. Len(args.history)
      /\ \A t \in Tokens : Seen(t) <=> t \in Past
      /\ logits = Expected
  BY <1>1 DEF InputInv, PenaltyInv
<1>3. args.history \in Seq(Int) /\ args.penalty \in Nat
  BY ArgsTyped
<1>4. past \in Int /\ nseen' \in 0 .. Len(args.history)
  <2>1. nseen + 1 \in 1 .. Len(args.history)
    BY <1>1, <1>2
  <2> QED
    BY <1>1, <1>2, <1>3, <2>1
<1>5. Past' = Past \cup {past}
  <2>1. 1 .. nseen' = (1 .. nseen) \cup {nseen + 1}
    BY <1>1, <1>2
  <2>2. Past' = {args.history[j] : j \in (1 .. nseen) \cup {nseen + 1}}
    BY <1>1, <2>1 DEF Past
  <2> QED
    BY <2>2 DEF Past
<1> HIDE DEF past
<1>6. visited' \in [Words -> SUBSET (0 .. WordBits - 1)]
  <2>1. CASE new
    <3>1. past \div WordBits \in Words /\ past % WordBits \in 0 .. WordBits - 1
      BY <2>1, WordOf
    <3> QED
      BY <1>1, <1>2, <2>1, <3>1
  <2> QED
    BY <1>1, <1>2, <2>1
<1>7. ASSUME NEW t \in Tokens PROVE Seen(t)' <=> Seen(t) \/ t = past
  <2>1. t \div WordBits \in Words
    BY WordOf
  <2>2. CASE new
    <3>1. past \div WordBits \in Words
      BY <2>2, WordOf
    <3>2. visited'[t \div WordBits] =
            IF t \div WordBits = past \div WordBits
            THEN visited[t \div WordBits] \cup {past % WordBits}
            ELSE visited[t \div WordBits]
      BY <1>1, <1>2, <2>1, <2>2, <3>1
    <3>3. past \in Tokens
      BY <2>2
    <3>4. (t \div WordBits = past \div WordBits
           /\ t % WordBits = past % WordBits) <=> t = past
      BY <3>3, WordOf
    <3> QED
      BY <3>2, <3>4 DEF Seen
  <2>3. CASE ~new
    BY <1>1, <2>3 DEF Seen
  <2> QED
    BY <2>2, <2>3
<1>8. \A t \in Tokens : Seen(t)' <=> t \in Past'
  BY <1>2, <1>5, <1>7
<1>9. logits' = Expected'
  <2>1. Expected' = [t \in Tokens |->
                       IF t \in (Past \cup {past}) \ Protected /\ args.penalty > 0
                       THEN Penalised(raw[t], args.penalty) ELSE raw[t]]
    BY <1>1, <1>5 DEF Expected
  <2>2. CASE new /\ past \notin Protected /\ args.penalty > 0
    <3>1. past \notin Past /\ past \in Tokens
      BY <1>2, <2>2
    <3>2. logits[past] = raw[past]
      BY <1>2, <3>1 DEF Expected
    <3>3. logits' = [logits EXCEPT ![past] = Penalised(raw[past], args.penalty)]
      BY <1>1, <2>2, <3>2
    <3>4. \A t \in Tokens :
            logits'[t] = IF t \in (Past \cup {past}) \ Protected
                            /\ args.penalty > 0
                         THEN Penalised(raw[t], args.penalty) ELSE raw[t]
      BY <1>2, <2>2, <3>3 DEF Expected
    <3>5. logits' \in [Tokens -> {logits'[t] : t \in Tokens}]
      BY <1>2, <3>3
    <3> QED
      BY <2>1, <3>4, <3>5
  <2>3. CASE ~(new /\ past \notin Protected /\ args.penalty > 0)
    <3>1. logits' = logits
      BY <1>1, <2>3
    <3>2. \A t \in Tokens :
            (t \in (Past \cup {past}) \ Protected /\ args.penalty > 0)
              <=> (t \in Past \ Protected /\ args.penalty > 0)
      BY <1>2, <2>3
    <3> QED
      BY <1>2, <2>1, <3>1, <3>2 DEF Expected
  <2> QED
    BY <2>2, <2>3
<1>10. logits' \in [Tokens -> Int]
  <2>1. past \in Tokens /\ args.penalty > 0
          => Penalised(logits[past], args.penalty) \in Int
    BY <1>2, <1>3, PenalisedTyped
  <2> QED
    BY <1>1, <1>2, <2>1
<1> QED
  BY <1>1, <1>2, <1>4, <1>6, <1>8, <1>9, <1>10 DEF InputInv, PenaltyInv

LEMMA PenaltyInit == SamplerInit => InputInv /\ PenaltyInv
<1> SUFFICES ASSUME SamplerInit PROVE InputInv /\ PenaltyInv
  OBVIOUS
<1>1. visited \in [Words -> SUBSET (0 .. WordBits - 1)]
  <2>1. PICK S \in LeftMarks : visited = Marks(S)
    BY DEF SamplerInit
  <2>2. \A t \in S : t % WordBits \in 0 .. WordBits - 1
    BY InputsAssumption, SamplerAssumption DEF Tokens
  <2> QED
    BY <2>1, <2>2 DEF Marks, Words
<1>2. raw \in [Tokens -> Int]
  BY InputsAssumption DEF SamplerInit
<1> QED
  BY <1>1, <1>2 DEF SamplerInit, InputInv, PenaltyInv

LEMMA PenaltyNext ==
  ASSUME InputInv, PenaltyInv, [SamplerNext]_samplerVars
  PROVE  InputInv' /\ PenaltyInv'
<1>1. CASE RejectToken
  BY <1>1 DEF RejectToken, Return, InputInv, PenaltyInv
<1>2. CASE ForwardPass
  <2>1. /\ phase' = "penalty" /\ visited' = [w \in DOMAIN visited |-> {}]
        /\ args' = args /\ raw' = raw /\ logits' = logits /\ nseen' = nseen
        /\ nseen = 0 /\ logits = raw /\ args.history \in Seq(Int)
    BY <1>2, ArgsTyped DEF ForwardPass, PenaltyInv
  <2>2. visited \in [Words -> SUBSET (0 .. WordBits - 1)]
    BY DEF InputInv
  <2>3. visited' = [w \in Words |-> {}]
    BY <2>1, <2>2
  <2>4. Past' = {}
    BY <2>1 DEF Past
  <2>5. \A t \in Tokens : ~Seen(t)'
    BY <2>3, WordOf DEF Seen
  <2>6. Expected' = raw
    <3>1. Expected' = [t \in Tokens |-> raw[t]]
      BY <2>1, <2>4 DEF Expected
    <3>2. raw \in [Tokens -> Int]
      BY ArgsTyped
    <3> QED
      BY <3>1, <3>2
  <2> QED
    BY <2>1, <2>3, <2>4, <2>5, <2>6 DEF InputInv, PenaltyInv
<1>3. CASE PenaliseNext
  BY <1>3, PenaliseStep
<1>4. CASE Temperature
  <2>1. /\ phase = "penalty" /\ logits = Expected /\ logits \in [Tokens -> Int]
        /\ args' = args /\ raw' = raw /\ nseen' = nseen /\ visited' = visited
    BY <1>4 DEF Temperature, PenaltyInv, InputInv
  <2>2. CASE args.temp = Greedy
    BY <1>4, <2>1, <2>2 DEF Temperature, Return, InputInv, PenaltyInv
  <2>3. CASE args.temp # Greedy
    <3>1. phase' = "sample" /\ logits' = [t \in Tokens |-> logits[t] * args.temp]
      BY <1>4, <2>3 DEF Temperature
    <3>2. Expected' = Expected
      BY <2>1 DEF Expected, Past
    <3>3. args.temp \in Nat
      BY ArgsTyped
    <3>4. logits' \in [Tokens -> Int]
      BY <2>1, <3>1, <3>3
    <3>5. logits' = [t \in Tokens |-> Expected'[t] * args'.temp]
      BY <2>1, <3>1, <3>2
    <3> QED
      BY <2>1, <3>1, <3>4, <3>5 DEF InputInv, PenaltyInv
  <2> QED
    BY <2>2, <2>3
<1>5. CASE KeepTopK
  BY <1>5 DEF KeepTopK, InputInv, PenaltyInv
<1>6. CASE KeepMinP
  BY <1>6 DEF KeepMinP, InputInv, PenaltyInv
<1>7. CASE Filter
  BY <1>7 DEF Filter, InputInv, PenaltyInv
<1>8. CASE Draw
  BY <1>8 DEF Draw, Return, InputInv, PenaltyInv
<1>9. CASE UNCHANGED samplerVars
  BY <1>9 DEF samplerVars, InputInv, PenaltyInv, Seen, Past, Expected
<1> QED
  BY <1>1, <1>2, <1>3, <1>4, <1>5, <1>6, <1>7, <1>8, <1>9 DEF SamplerNext

LEMMA PenaltyKept ==
  ASSUME InputInv, PenaltyInv
  PROVE  PenalisedOnce
<1> SUFFICES ASSUME phase \in {"penalty", "sample"}, NEW t \in Tokens
             PROVE  logits[t] = Expected[t]
                                * IF phase = "sample" THEN args.temp ELSE 1
  BY DEF PenalisedOnce, Expected, Past
<1>1. CASE phase = "penalty"
  <2>1. Expected[t] \in Int
    BY ExpectedTyped
  <2> QED
    BY <1>1, <2>1 DEF PenaltyInv
<1>2. CASE phase = "sample"
  BY <1>2 DEF PenaltyInv
<1> QED
  BY <1>1, <1>2

\* The penalty is applied exactly once to every token of the history that is
\* in the vocabulary and not protected, whatever the size of the vocabulary
\* and of the words its marks are kept in.
THEOREM PenaltyAppliedOnce == SamplerSpec => []PenalisedOnce
<1>1. SamplerInit => InputInv /\ PenaltyInv
  BY PenaltyInit
<1>2. InputInv /\ PenaltyInv /\ [SamplerNext]_samplerVars
        => InputInv' /\ PenaltyInv'
  BY PenaltyNext
<1>3. InputInv /\ PenaltyInv => PenalisedOnce
  BY PenaltyKept
<1> QED
  BY <1>1, <1>2, <1>3, PTL DEF SamplerSpec

-----------------------------------------------------------------------------
(* The candidates that reach the filter.                                   *)

Sampling == phase \in {"sample", "filter", "draw"}

MaxInv ==
  Sampling => /\ maxLogit \in Int
              /\ \A t \in Tokens : logits[t] <= maxLogit
              /\ \E t \in Tokens : logits[t] = maxLogit

\* The tokens the reference ranks, and what each token weighs.
Eligible == {t \in Tokens : PassesMinP(t) /\ InRange(t)}

Weights  == [t \in Tokens |-> Weight(Below(t))]

LEMMA TokensFinite ==
  /\ Tokens \subseteq Nat /\ IsFiniteSet(Tokens) /\ Cardinality(Tokens) = Vocab
  /\ \A S \in SUBSET Tokens :
       /\ IsFiniteSet(S) /\ Cardinality(S) \in Nat
       /\ Cardinality(S) <= Vocab
<1>1. Vocab \in Nat \ {0}
  BY SamplerAssumption
<1>2. Tokens \subseteq Nat
  BY DEF Tokens
<1>3. IsFiniteSet(Tokens) /\ Cardinality(Tokens) = Vocab
  <2>1. IsFiniteSet(0 .. Vocab - 1)
        /\ Cardinality(0 .. Vocab - 1)
             = IF 0 > Vocab - 1 THEN 0 ELSE (Vocab - 1) - 0 + 1
    BY <1>1, FS_Interval
  <2> QED
    BY <1>1, <2>1 DEF Tokens
<1>4. ASSUME NEW S \in SUBSET Tokens
      PROVE  /\ IsFiniteSet(S) /\ Cardinality(S) \in Nat
             /\ Cardinality(S) <= Vocab
  BY <1>3, Fewer
<1> QED
  BY <1>2, <1>3, <1>4

LEMMA WeightIs ==
  ASSUME NEW d \in Nat
  PROVE  /\ Weight(d) \in Nat
         /\ \A e \in Nat : d <= e => Weight(e) <= Weight(d)
<1>1. /\ Underflow \in Nat /\ Expf \in [0 .. Underflow -> Nat \ {0}]
      /\ \A a, b \in 0 .. Underflow : a <= b => Expf[b] <= Expf[a]
  BY ExpfAssumption
<1>2. \A e \in Nat : e <= Underflow => e \in 0 .. Underflow
  BY <1>1
<1>3. \A e \in Nat : Weight(e) \in Nat
  BY <1>1, <1>2 DEF Weight
<1>4. ASSUME NEW e \in Nat, d <= e PROVE Weight(e) <= Weight(d)
  <2>1. CASE e <= Underflow
    <3>1. d <= Underflow
      BY <1>1, <1>4, <2>1
    <3> QED
      BY <1>1, <1>2, <1>4, <2>1, <3>1 DEF Weight
  <2>2. CASE ~(e <= Underflow)
    <3>1. Weight(e) = 0
      BY <2>2 DEF Weight
    <3> QED
      BY <1>3, <3>1
  <2> QED
    BY <2>1, <2>2
<1> QED
  BY <1>3, <1>4

\* While it samples, no logit is above the largest, and a token weighs no
\* more than one of a larger logit.
LEMMA WeightsAre ==
  ASSUME InputInv, MaxInv, Sampling
  PROVE  /\ maxLogit \in Int /\ logits \in [Tokens -> Int]
         /\ \A t \in Tokens : /\ Below(t) \in Nat
                              /\ Below(t) = maxLogit - logits[t]
                              /\ Weights[t] = Weight(Below(t))
                              /\ Weights[t] \in Nat
         /\ Weights \in [Tokens -> Int]
         /\ \A t, u \in Tokens : logits[u] <= logits[t]
                                 => Weights[u] <= Weights[t]
         /\ \A t, u \in Tokens : Below(t) <= Below(u)
                                 => Weights[u] <= Weights[t]
<1>1. /\ maxLogit \in Int /\ logits \in [Tokens -> Int]
      /\ \A t \in Tokens : logits[t] <= maxLogit
  BY DEF InputInv, MaxInv
<1>2. \A t \in Tokens : Below(t) \in Nat /\ Below(t) = maxLogit - logits[t]
  BY <1>1 DEF Below
<1>3. \A t \in Tokens : Weights[t] = Weight(Below(t)) /\ Weights[t] \in Nat
  BY <1>2, WeightIs DEF Weights
<1>4. Weights \in [Tokens -> Int]
  BY <1>3 DEF Weights
<1>5. \A t, u \in Tokens : Below(t) <= Below(u) => Weights[u] <= Weights[t]
  BY <1>2, <1>3, WeightIs
<1>6. ASSUME NEW t \in Tokens, NEW u \in Tokens, logits[u] <= logits[t]
      PROVE  Weights[u] <= Weights[t]
  <2>1. Below(t) <= Below(u)
    BY <1>1, <1>2, <1>6
  <2> QED
    BY <1>5, <2>1
<1> QED
  BY <1>1, <1>2, <1>3, <1>4, <1>5, <1>6

\* The tokens of a set, in their order.
LEMMA ExtractLists ==
  ASSUME NEW S \in SUBSET Tokens, S # {}, logits \in [Tokens -> Int]
  PROVE  /\ Lists(Extract(S), S, logits) /\ Len(Extract(S)) = Cardinality(S)
         /\ \A t \in S : \E j \in 1 .. Len(Extract(S)) : Extract(S)[j].id = t
<1> DEFINE n == Cardinality(S)
           s == Extract(S)
           C == [id: S, val: Int]
<1>1. S \subseteq Int /\ IsFiniteSet(S) /\ n \in Nat
  BY TokensFinite
<1>2. n # 0
  BY <1>1, FS_EmptySet
<1>3. /\ \A j \in 1 .. n : Nth(S, j) \in S
      /\ \A j, k \in 1 .. n : Nth(S, j) = Nth(S, k) => j = k
      /\ \A t \in S : \E j \in 1 .. n : Nth(S, j) = t
  BY <1>1, NthLists
<1>4. s = [j \in 1 .. n |-> [id |-> Nth(S, j), val |-> logits[Nth(S, j)]]]
  BY DEF Extract
<1> HIDE DEF s, n
<1>5. \A j \in 1 .. n : /\ s[j].id = Nth(S, j) /\ s[j].val = logits[s[j].id]
                        /\ s[j] \in C
  BY <1>3, <1>4
<1>6. s \in [1 .. n -> C]
  BY <1>4, <1>5
<1> HIDE DEF C
<1>7. s \in Seq(C) /\ Len(s) = n
  BY <1>1, <1>6
<1>8. s # <<>>
  BY <1>2, <1>7, EmptySeq
<1>9. Lists(s, S, logits)
  BY <1>3, <1>5, <1>7, <1>8 DEF Lists, C
<1> QED
  BY <1>3, <1>5, <1>7, <1>9 DEF s, n

\* The k largest of a list.
LEMMA SelectLists ==
  ASSUME NEW S, NEW w, NEW s, Lists(s, S, w), NEW k \in 1 .. Len(s),
         \A t \in S : \E j \in 1 .. Len(s) : s[j].id = t
  PROVE  /\ Lists(HeapSelect(s, k), S, w) /\ Len(HeapSelect(s, k)) = k
         /\ Best(HeapSelect(s, k), S, w)
<1> DEFINE C == [id: S, val: Int]
           h == HeapSelect(s, k)
           n == Len(s)
<1>1. /\ n \in Nat \ {0} /\ s \in Seq(C) /\ s \in [1 .. n -> C]
      /\ k \in Nat \ {0} /\ k <= n
  <2>1. s \in Seq(C)
    BY DEF Lists
  <2>2. n \in Nat \ {0} /\ s \in [1 .. n -> C]
    BY ListsFacts
  <2> HIDE DEF C, n
  <2>3. k \in 1 .. n
    BY DEF n
  <2> QED
    BY <2>1, <2>2, <2>3
<1>2. Valued(C)
  BY DEF Valued
<1>3. /\ \A j \in 1 .. n : s[j].val = w[s[j].id]
      /\ \A i, j \in 1 .. n : s[i].id = s[j].id => i = j
  BY DEF Lists
<1>4. Distinct(s, n)
  BY <1>3 DEF Distinct
<1> HIDE DEF C, n
<1>5. h \in [1 .. k -> C] /\ Selects(h, s, k, n)
  BY <1>1, <1>2, <1>4, HeapSelectIs DEF n
<1> HIDE DEF h
<1>6. /\ Distinct(h, k) /\ Entries(h, k) \subseteq Entries(s, n)
      /\ \A i \in 1 .. n, q \in 1 .. k :
           s[i] \in Entries(h, k) \/ s[i].val <= h[q].val
  BY <1>5 DEF Selects
<1>7. \A q \in 1 .. k : \E i \in 1 .. n : h[q] = s[i]
  BY <1>6 DEF Entries
<1>8. h \in Seq(C) /\ Len(h) = k
  BY <1>1, <1>5
<1>9. h # <<>>
  BY <1>1, <1>8, EmptySeq
<1>10. \A q \in 1 .. k : h[q].val = w[h[q].id]
  BY <1>3, <1>7
<1>11. ASSUME NEW p \in 1 .. k, NEW q \in 1 .. k, h[p].id = h[q].id
       PROVE  p = q
  <2>1. PICK i \in 1 .. n : h[p] = s[i]
    BY <1>7
  <2>2. PICK j \in 1 .. n : h[q] = s[j]
    BY <1>7
  <2>3. i = j
    BY <1>3, <1>11, <2>1, <2>2
  <2>4. h[p] = h[q]
    BY <2>1, <2>2, <2>3
  <2> QED
    BY <1>6, <2>4 DEF Distinct
<1>12. Lists(h, S, w)
  BY <1>8, <1>9, <1>10, <1>11 DEF Lists, C
<1>13. Best(h, S, w)
  <2> SUFFICES ASSUME NEW t \in S
               PROVE  \/ \E q \in 1 .. k : h[q].id = t
                      \/ \A q \in 1 .. k : w[t] <= h[q].val
    BY <1>8 DEF Best
  <2>1. PICK i \in 1 .. n : s[i].id = t
    BY DEF n
  <2>2. CASE s[i] \in Entries(h, k)
    BY <2>1, <2>2 DEF Entries
  <2>3. CASE s[i] \notin Entries(h, k)
    BY <1>3, <1>6, <2>1, <2>3
  <2> QED
    BY <2>2, <2>3
<1> QED
  BY <1>8, <1>12, <1>13 DEF h

\* The softmax keeps the tokens and who is best.
LEMMA SoftmaxLists ==
  ASSUME InputInv, MaxInv, Sampling, NEW S \in SUBSET Tokens,
         NEW s, Lists(s, S, logits)
  PROVE  /\ Lists(Softmax(s), S, Weights) /\ Len(Softmax(s)) = Len(s)
         /\ \A j \in 1 .. Len(s) : Softmax(s)[j].id = s[j].id
         /\ Best(s, S, logits) => Best(Softmax(s), S, Weights)
<1> DEFINE n == Len(s)
           C == [id: S, val: Int]
           f == Softmax(s)
<1>1. /\ n \in Nat \ {0} /\ DOMAIN s = 1 .. n
      /\ \A j \in 1 .. n : s[j] \in C /\ s[j].id \in S /\ s[j].val \in Int
  BY ListsFacts
<1>2. /\ \A j \in 1 .. n : s[j].val = logits[s[j].id]
      /\ \A i, j \in 1 .. n : s[i].id = s[j].id => i = j
  BY DEF Lists
<1>3. /\ \A t \in Tokens : /\ Below(t) = maxLogit - logits[t]
                           /\ Weights[t] = Weight(Below(t))
                           /\ Weights[t] \in Nat
      /\ \A t, u \in Tokens : logits[u] <= logits[t]
                              => Weights[u] <= Weights[t]
  BY WeightsAre
<1> HIDE DEF n
<1>4. f = [j \in 1 .. n |->
             [s[j] EXCEPT !.val = Weight(maxLogit - s[j].val)]]
  BY <1>1 DEF Softmax
<1> HIDE DEF f
<1>5. ASSUME NEW j \in 1 .. n
      PROVE  /\ f[j].id = s[j].id
             /\ f[j].val = Weight(maxLogit - s[j].val)
             /\ f[j] = [id |-> s[j].id, val |-> Weight(maxLogit - s[j].val)]
  <2> DEFINE c == s[j]
             x == Weight(maxLogit - s[j].val)
  <2>1. c \in C /\ f[j] = [c EXCEPT !.val = x]
    BY <1>1, <1>4
  <2> HIDE DEF c, x
  <2>2. f[j].id = c.id /\ f[j].val = x /\ f[j] = [id |-> c.id, val |-> x]
    BY <2>1
  <2> QED
    BY <2>2 DEF c, x
<1>6. ASSUME NEW j \in 1 .. n
      PROVE  f[j].val = Weights[f[j].id] /\ f[j].val \in Int
  <2> DEFINE t == s[j].id
  <2>1. t \in Tokens /\ s[j].val = logits[t] /\ f[j].id = t
    BY <1>1, <1>2, <1>5
  <2>2. f[j].val = Weight(maxLogit - logits[t])
    BY <1>5, <2>1
  <2> HIDE DEF t
  <2>3. Weights[t] = Weight(maxLogit - logits[t]) /\ Weights[t] \in Int
    BY <1>3, <2>1
  <2> QED
    BY <2>1, <2>2, <2>3
<1>7. ASSUME NEW j \in 1 .. n PROVE f[j] \in C
  <2>1. f[j] = [id |-> f[j].id, val |-> f[j].val]
        /\ f[j].id \in S /\ f[j].val \in Int
    <3>1. f[j].id = s[j].id /\ s[j].id \in S
      BY <1>1, <1>5
    <3>2. f[j] = [id |-> f[j].id, val |-> f[j].val]
      BY <1>5
    <3> QED
      BY <1>6, <3>1, <3>2
  <2> QED
    BY <2>1
<1> HIDE DEF C
<1>8. f \in Seq(C) /\ Len(f) = n
  <2>1. f \in [1 .. n -> C]
    BY <1>4, <1>7
  <2> QED
    BY <1>1, <2>1
<1>9. f # <<>>
  BY <1>1, <1>8, EmptySeq
<1>10. Lists(f, S, Weights)
  BY <1>2, <1>5, <1>6, <1>8, <1>9 DEF Lists, C
<1>11. ASSUME Best(s, S, logits) PROVE Best(f, S, Weights)
  <2> SUFFICES ASSUME NEW t \in S
               PROVE  \/ \E k \in 1 .. n : f[k].id = t
                      \/ \A j \in 1 .. n : Weights[t] <= f[j].val
    BY <1>8 DEF Best
  <2>1. \/ \E k \in 1 .. n : s[k].id = t
        \/ \A j \in 1 .. n : logits[t] <= s[j].val
    BY <1>11 DEF Best, n
  <2>2. ASSUME \A j \in 1 .. n : logits[t] <= s[j].val, NEW j \in 1 .. n
        PROVE  Weights[t] <= f[j].val
    <3>1. logits[t] <= logits[s[j].id] /\ s[j].id \in Tokens /\ t \in Tokens
      BY <1>1, <1>2, <2>2
    <3> QED
      BY <1>3, <1>5, <1>6, <3>1
  <2> QED
    BY <1>5, <2>1, <2>2
<1> QED
  BY <1>5, <1>8, <1>10, <1>11 DEF f, n

\* What the filter is given: enough of the best candidates, in order if it
\* will cut, and the mass top_p refers to.
Ranked(s, t) ==
  /\ Lists(s, Eligible, Weights) /\ Best(s, Eligible, Weights)
  /\ EffectiveK > 0 =>
       /\ Len(s) = Min({EffectiveK, Cardinality(Eligible)})
       /\ t = Mass(s)
  /\ EffectiveK = 0 =>
       /\ t = SumFunction([u \in Eligible |-> Weights[u]])
       /\ \/ Len(s) = Cardinality(Eligible)
          \/ TopPActive /\ Covers(args.topP, Mass(s), t)
  /\ \/ Sorted(s)
     \/ ~TopPActive /\ (EffectiveK = 0 => args.topK \notin 1 .. Len(s) - 1)

LEMMA EffectiveKTyped ==
  ASSUME InputInv
  PROVE  EffectiveK \in Nat /\ (EffectiveK > 0 => EffectiveK = args.topK)
BY ArgsTyped, SamplerAssumption DEF EffectiveK

\* min_p never removes the best token, nor is it out of the histogram's range.
LEMMA EligibleIs ==
  ASSUME InputInv, MaxInv, Sampling
  PROVE  /\ Eligible \in SUBSET Tokens /\ Eligible # {}
         /\ \E t \in Eligible : Below(t) = 0
         /\ IsFiniteSet(Eligible) /\ Cardinality(Eligible) \in Nat \ {0}
         /\ Cardinality(Eligible) <= Vocab
<1>1. PICK t \in Tokens : logits[t] = maxLogit
  BY DEF MaxInv
<1>2. Below(t) = 0
  <2>1. maxLogit \in Int
    BY DEF MaxInv
  <2> QED
    BY <1>1, <2>1 DEF Below
<1>3. PassesMinP(t)
  BY <1>2, ArgsTyped DEF PassesMinP
<1>4. InRange(t)
  <2>1. HistBuckets * BucketWidth \in Nat
    BY SamplerAssumption, Product
  <2> QED
    BY <1>2, <2>1 DEF InRange
<1>5. t \in Eligible
  BY <1>3, <1>4 DEF Eligible
<1>6. Eligible \in SUBSET Tokens
  BY DEF Eligible
<1>7. IsFiniteSet(Eligible) /\ Cardinality(Eligible) \in Nat
      /\ Cardinality(Eligible) <= Vocab
  BY <1>6, TokensFinite
<1>8. Cardinality(Eligible) # 0
  BY <1>5, <1>7, FS_EmptySet
<1> QED
  BY <1>2, <1>5, <1>6, <1>7, <1>8

\* What is counted up to a bucket is not below the end of the bucket, unless
\* it is the last.
LEMMA BucketBound ==
  ASSUME NEW x \in Nat, NEW b \in 0 .. HistBuckets - 2,
         Min({x \div BucketWidth, HistBuckets - 1}) <= b
  PROVE  x <= (b + 1) * BucketWidth
<1> DEFINE q == x \div BucketWidth
           z == HistBuckets - 1
           W == BucketWidth
<1>1. W \in Nat \ {0} /\ z \in Nat /\ b \in Nat /\ b < z
  BY SamplerAssumption
<1>2. q \in Nat /\ x % W \in 0 .. W - 1 /\ x = W * q + (x % W)
  BY <1>1, Division
<1> HIDE DEF q, z, W
<1>3. Min({q, z}) \in {q, z} /\ Min({q, z}) <= q /\ Min({q, z}) <= z
  BY <1>1, <1>2, MinIs
<1>4. Min({q, z}) <= b
  BY DEF q, z
<1>5. q <= b
  BY <1>1, <1>2, <1>3, <1>4
<1>6. PICK d \in Nat : b = q + d
  <2>1. b - q \in Nat /\ b = q + (b - q)
    BY <1>1, <1>2, <1>5
  <2> QED
    BY <2>1
<1>7. (b + 1) * W = W * q + W * d + W
  BY <1>1, <1>2, <1>6
<1>8. W * d \in Nat /\ W * q \in Nat
  BY <1>1, <1>2, Product
<1> DEFINE a == W * q
           c == W * d
           r == x % W
<1>9. a \in Nat /\ c \in Nat /\ x = a + r /\ r \in 0 .. W - 1
      /\ (b + 1) * W = a + c + W
  BY <1>2, <1>7, <1>8
<1> HIDE DEF a, c, r
<1>10. x <= a + c + W
  BY <1>1, <1>9
<1> QED
  BY <1>9, <1>10 DEF W

\* The histogram's cut: no eligible token it drops is above one it keeps, and
\* it drops none unless it keeps top_k.
LEMMA CutoffIs ==
  ASSUME InputInv, MaxInv, Sampling, EffectiveK > 0
  PROVE  /\ AboveCutoff \in SUBSET Eligible /\ AboveCutoff # {}
         /\ \A t \in Eligible \ AboveCutoff, u \in AboveCutoff :
              Below(u) <= Below(t)
         /\ \/ AboveCutoff = Eligible
            \/ EffectiveK <= Cardinality(AboveCutoff)
<1> DEFINE b == CutoffBucket
           W == BucketWidth
           z == HistBuckets - 1
           T == {c \in 0 .. z : CountUpTo(c) >= EffectiveK} \cup {z}
           e == (b + 1) * W
<1>1. W \in Nat \ {0} /\ z \in Nat /\ HistBuckets = z + 1 /\ EffectiveK \in Nat
  BY SamplerAssumption, EffectiveKTyped
<1>2. b \in T
  <2>1. T \subseteq Nat /\ T # {}
    BY <1>1
  <2>2. b = Min(T)
    BY DEF CutoffBucket
  <2> HIDE DEF b, T
  <2> QED
    BY <2>1, <2>2, MinIs
<1>3. b \in 0 .. z
  BY <1>1, <1>2
<1>4. AboveCutoff = {t \in Tokens : PassesMinP(t) /\ Below(t) <= e}
  BY DEF AboveCutoff
<1>5. \A t \in Tokens : Below(t) \in Nat
  BY WeightsAre
<1> HIDE DEF b, e, W
<1>6. e \in Nat /\ e <= HistBuckets * W /\ (b = z => e = HistBuckets * W)
      /\ HistBuckets * W \in Nat
  <2>1. PICK d \in Nat : z = b + d
    <3>1. z - b \in Nat /\ z = b + (z - b)
      BY <1>1, <1>3
    <3> QED
      BY <3>1
  <2>2. HistBuckets * W = (b + 1) * W + d * W
    BY <1>1, <1>3, <2>1
  <2>3. b + 1 \in Nat /\ (b + 1) * W \in Nat /\ d * W \in Nat
    BY <1>1, <1>3, <2>1, Product
  <2>4. b = z => e = HistBuckets * W
    BY <1>1 DEF e
  <2> DEFINE g == d * W
  <2>5. HistBuckets * W = e + g /\ e \in Nat /\ g \in Nat
    BY <2>2, <2>3 DEF e
  <2> HIDE DEF g
  <2> QED
    BY <2>4, <2>5
<1>7. \A t \in Tokens : InRange(t) <=> Below(t) <= HistBuckets * W
  BY <1>1 DEF InRange, W
<1>8. AboveCutoff \in SUBSET Eligible
  BY <1>4, <1>5, <1>6, <1>7 DEF Eligible
<1>9. AboveCutoff # {}
  <2>1. PICK t \in Eligible : Below(t) = 0
    BY EligibleIs
  <2>2. t \in AboveCutoff
    BY <1>4, <1>6, <2>1 DEF Eligible
  <2> QED
    BY <2>2
<1>10. ASSUME NEW t \in Eligible \ AboveCutoff, NEW u \in AboveCutoff
       PROVE  Below(u) <= Below(t)
  <2>1. t \in Tokens /\ ~(Below(t) <= e) /\ u \in Tokens /\ Below(u) <= e
    BY <1>4 DEF Eligible
  <2> QED
    BY <1>5, <1>6, <2>1
<1>11. CASE b = z
  <2>1. AboveCutoff = Eligible
    BY <1>4, <1>6, <1>7, <1>11 DEF Eligible
  <2> QED
    BY <1>8, <1>9, <1>10, <2>1
<1>12. CASE b # z
  <2> DEFINE U == {t \in Tokens : PassesMinP(t) /\ Bucket(t) <= b}
  <2>1. Cardinality(U) >= EffectiveK
    BY <1>2, <1>12 DEF CountUpTo
  <2>2. b \in 0 .. HistBuckets - 2
    BY <1>1, <1>3, <1>12
  <2>3. ASSUME NEW t \in U PROVE t \in AboveCutoff
    <3>1. Min({Below(t) \div BucketWidth, HistBuckets - 1}) <= b
      BY DEF Bucket
    <3>2. Below(t) <= (b + 1) * BucketWidth
      BY <1>5, <2>2, <3>1, BucketBound
    <3> QED
      BY <1>4, <3>2 DEF e, W
  <2>4. AboveCutoff \in SUBSET Tokens
    BY <1>4
  <2>5. U \in SUBSET AboveCutoff
    BY <2>3
  <2> HIDE DEF U
  <2>6. IsFiniteSet(AboveCutoff) /\ Cardinality(AboveCutoff) \in Nat
    BY <2>4, TokensFinite
  <2>7. Cardinality(U) <= Cardinality(AboveCutoff) /\ Cardinality(U) \in Nat
    BY <2>5, <2>6, Fewer
  <2>8. EffectiveK <= Cardinality(AboveCutoff)
    BY <1>1, <2>1, <2>6, <2>7
  <2> QED
    BY <1>8, <1>9, <1>10, <2>8
<1> QED
  BY <1>11, <1>12

LEMMA ListsWider ==
  ASSUME NEW S, NEW T, S \subseteq T, NEW w, NEW s, Lists(s, S, w)
  PROVE  Lists(s, T, w)
<1>1. Seq([id: S, val: Int]) \subseteq Seq([id: T, val: Int])
  <2> DEFINE C == [id: S, val: Int]
             D == [id: T, val: Int]
  <2>1. C \subseteq D
    OBVIOUS
  <2> HIDE DEF C, D
  <2>2. Seq(C) \subseteq Seq(D)
    BY <2>1
  <2> QED
    BY <2>2 DEF C, D
<1> QED
  BY <1>1 DEF Lists

\* A list that is best stays so in any order.
LEMMA QSortIs ==
  ASSUME NEW s, NEW S \in SUBSET Tokens, NEW w,
         Lists(s, S, w), Best(s, S, w), NEW o \in Descending(s)
  PROVE  /\ Lists(o, S, w) /\ Best(o, S, w) /\ Sorted(o)
         /\ Len(o) = Len(s) /\ Mass(o) = Mass(s)
<1>1. IsFiniteSet(S) /\ Cardinality(S) \in Nat /\ Cardinality(S) <= Vocab
      /\ Vocab \in Nat
  BY TokensFinite, SamplerAssumption
<1>2. Len(s) <= Cardinality(S) /\ Len(s) \in Nat
  BY <1>1, ListsAll, ListsFacts
<1>3. Len(s) <= Vocab
  BY <1>1, <1>2
<1>4. Reorders(o, s) /\ Sorted(o)
  BY <1>3, DescendingIs
<1> QED
  BY <1>4, ReordersIs

\* Everything listed is the best there is.
LEMMA AllBest ==
  ASSUME NEW s, NEW S, NEW w, \A t \in S : \E j \in 1 .. Len(s) : s[j].id = t
  PROVE  Best(s, S, w)
BY DEF Best

LEMMA SoftmaxMass ==
  ASSUME InputInv, MaxInv, Sampling, NEW S \in SUBSET Tokens, S # {}
  PROVE  LET s == Softmax(Extract(S))
         IN  /\ Lists(s, S, Weights) /\ Best(s, S, Weights)
             /\ Len(s) = Cardinality(S)
             /\ \A t \in S : \E j \in 1 .. Len(s) : s[j].id = t
             /\ Mass(s) = SumFunction([t \in S |-> Weights[t]])
<1> DEFINE s == Softmax(Extract(S))
<1>1. logits \in [Tokens -> Int] /\ IsFiniteSet(S)
  BY TokensFinite DEF InputInv
<1>2. /\ Lists(Extract(S), S, logits) /\ Len(Extract(S)) = Cardinality(S)
      /\ \A t \in S : \E j \in 1 .. Len(Extract(S)) : Extract(S)[j].id = t
  BY <1>1, ExtractLists
<1>3. /\ Lists(s, S, Weights) /\ Len(s) = Len(Extract(S))
      /\ \A j \in 1 .. Len(Extract(S)) : s[j].id = Extract(S)[j].id
  BY <1>2, SoftmaxLists
<1> HIDE DEF s
<1>4. \A t \in S : \E j \in 1 .. Len(s) : s[j].id = t
  BY <1>2, <1>3
<1>5. Best(s, S, Weights)
  BY <1>4, AllBest
<1>6. Mass(s) = SumFunction([t \in S |-> Weights[t]])
  BY <1>1, <1>2, <1>3, ListsAll
<1> QED
  BY <1>2, <1>3, <1>4, <1>5, <1>6 DEF s

\* With a small top_k, the histogram and the heap lose none of the best.
LEMMA TopKRanked ==
  ASSUME InputInv, MaxInv, KeepTopK
  PROVE  Ranked(probs', total')
<1> DEFINE A    == AboveCutoff
           K    == EffectiveK
           c    == Extract(A)
           sel  == IF Len(c) > K THEN HeapSelect(c, K) ELSE c
           kept == Softmax(sel)
           n    == Cardinality(A)
<1>1. /\ K > 0 /\ total' = Mass(kept)
      /\ probs' \in IF TopPActive THEN Descending(kept) ELSE {kept}
      /\ Sampling
  BY DEF KeepTopK, Sampling
<1>2. K \in Nat
  BY EffectiveKTyped
<1>3. /\ A \in SUBSET Eligible /\ A # {}
      /\ \A t \in Eligible \ A, u \in A : Below(u) <= Below(t)
      /\ A = Eligible \/ K <= n
  BY <1>1, CutoffIs
<1>4. A \in SUBSET Tokens /\ Eligible \in SUBSET Tokens
      /\ IsFiniteSet(Eligible) /\ Cardinality(Eligible) \in Nat
      /\ logits \in [Tokens -> Int]
  BY <1>1, <1>3, EligibleIs DEF InputInv
<1> HIDE DEF A, K
<1>5. /\ Lists(c, A, logits) /\ Len(c) = n
      /\ \A t \in A : \E j \in 1 .. Len(c) : c[j].id = t
  BY <1>3, <1>4, ExtractLists
<1>6. n \in Nat \ {0}
  BY <1>5, ListsFacts
<1> HIDE DEF c, n
<1>7. Lists(sel, A, logits) /\ Best(sel, A, logits)
      /\ Len(sel) = IF n > K THEN K ELSE n
  <2>1. CASE n > K
    <3>1. K \in 1 .. Len(c)
      BY <1>1, <1>2, <1>5, <1>6, <2>1
    <3> QED
      BY <1>5, <2>1, <3>1, SelectLists
  <2>2. CASE ~(n > K)
    BY <1>5, <2>2, AllBest
  <2> QED
    BY <2>1, <2>2
<1> HIDE DEF sel
<1>8. /\ Lists(kept, A, Weights) /\ Best(kept, A, Weights)
      /\ Len(kept) = IF n > K THEN K ELSE n
  BY <1>1, <1>4, <1>7, SoftmaxLists
<1> HIDE DEF kept
<1>9. Lists(kept, Eligible, Weights)
  BY <1>3, <1>8, ListsWider
<1>10. Best(kept, Eligible, Weights)
  <2> SUFFICES ASSUME NEW t \in Eligible
               PROVE  \/ \E k \in 1 .. Len(kept) : kept[k].id = t
                      \/ \A j \in 1 .. Len(kept) : Weights[t] <= kept[j].val
    BY DEF Best
  <2>1. CASE t \in A
    BY <1>8, <2>1 DEF Best
  <2>2. ASSUME t \notin A, NEW j \in 1 .. Len(kept)
        PROVE  Weights[t] <= kept[j].val
    <3>1. kept[j].id \in A /\ kept[j].val = Weights[kept[j].id]
      BY <1>8, ListsFacts DEF Lists
    <3>2. Below(kept[j].id) <= Below(t)
      BY <1>3, <2>2, <3>1
    <3>3. kept[j].id \in Tokens /\ t \in Tokens
      BY <1>4, <3>1
    <3> QED
      BY <1>1, <3>1, <3>2, <3>3, WeightsAre
  <2> QED
    BY <2>1, <2>2
<1>11. Len(kept) = Min({K, Cardinality(Eligible)})
  <2> DEFINE N == Cardinality(Eligible)
  <2>1. n <= N
    BY <1>3, <1>4, Fewer DEF n
  <2>2. n = N \/ K <= n
    BY <1>3 DEF n
  <2>3. N \in Nat
    BY <1>4
  <2> HIDE DEF N
  <2>4. Len(kept) \in {K, N} /\ Len(kept) <= K /\ Len(kept) <= N
    BY <1>2, <1>6, <1>8, <2>1, <2>2, <2>3
  <2>5. Min({K, N}) = Len(kept)
    <3>1. {K, N} \subseteq Nat /\ \A y \in {K, N} : Len(kept) <= y
      BY <1>2, <2>3, <2>4
    <3> HIDE DEF K
    <3> QED
      BY <2>4, <3>1, MinUnique
  <2> QED
    BY <2>5 DEF N
<1>12. /\ Lists(probs', Eligible, Weights) /\ Best(probs', Eligible, Weights)
       /\ Len(probs') = Len(kept) /\ Mass(probs') = Mass(kept)
       /\ Sorted(probs') \/ ~TopPActive
  <2>1. CASE TopPActive
    <3>1. probs' \in Descending(kept)
      BY <1>1, <2>1
    <3> QED
      BY <1>4, <1>9, <1>10, <3>1, QSortIs
  <2>2. CASE ~TopPActive
    BY <1>1, <1>9, <1>10, <2>2
  <2> QED
    BY <2>1, <2>2
<1> QED
  BY <1>1, <1>11, <1>12 DEF Ranked, K

\* Without, no candidate is lost unless those left cover top_p.
LEMMA MinPRanked ==
  ASSUME InputInv, MaxInv, KeepMinP
  PROVE  Ranked(probs', total')
<1> DEFINE c == MinPCandidates
           S == {t \in Tokens : PassesMinP(t)}
           N == Cardinality(Eligible)
<1>1. /\ EffectiveK = 0 /\ total' = Mass(c)
      /\ probs' \in IF OrderFree(Len(c)) THEN {c}
                    ELSE IF PartialSuffices(c)
                         THEN Descending(HeapSelect(c, PartialK))
                         ELSE Descending(c)
      /\ Sampling
  BY DEF KeepMinP, Sampling
<1>2. S = Eligible
  BY <1>1 DEF Eligible, InRange
<1>3. Eligible \in SUBSET Tokens /\ Eligible # {} /\ N \in Nat
  BY <1>1, EligibleIs
<1>4. c = Softmax(Extract(Eligible))
  BY <1>2 DEF MinPCandidates
<1> HIDE DEF c
<1>5. /\ Lists(c, Eligible, Weights) /\ Best(c, Eligible, Weights)
      /\ Len(c) = N
      /\ \A t \in Eligible : \E j \in 1 .. Len(c) : c[j].id = t
      /\ Mass(c) = SumFunction([t \in Eligible |-> Weights[t]])
  BY <1>1, <1>3, <1>4, SoftmaxMass
<1>6. CASE OrderFree(Len(c))
  <2>1. probs' = c /\ ~TopPActive
    BY <1>1, <1>6 DEF OrderFree
  <2>2. args.topK \notin 1 .. Len(c) - 1
    <3>1. args.topK <= 0 \/ args.topK >= Len(c)
      BY <1>6 DEF OrderFree
    <3>2. args.topK \in Int /\ Len(c) \in Nat
      BY <1>3, <1>5, ArgsTyped
    <3> QED
      BY <3>1, <3>2
  <2> QED
    BY <1>1, <1>5, <2>1, <2>2 DEF Ranked
<1>7. CASE ~OrderFree(Len(c)) /\ PartialSuffices(c)
  <2> DEFINE h == HeapSelect(c, PartialK)
  <2>1. /\ probs' \in Descending(h) /\ TopPActive /\ Len(c) > PartialK
        /\ Covers(args.topP, Mass(h), Mass(c))
    BY <1>1, <1>7 DEF PartialSuffices
  <2>2. PartialK \in 1 .. Len(c)
    BY <1>3, <1>5, <2>1, SamplerAssumption
  <2>3. Lists(h, Eligible, Weights) /\ Best(h, Eligible, Weights)
    BY <1>5, <2>2, SelectLists
  <2> HIDE DEF h
  <2>4. /\ Lists(probs', Eligible, Weights) /\ Best(probs', Eligible, Weights)
        /\ Sorted(probs') /\ Mass(probs') = Mass(h)
    BY <1>3, <2>1, <2>3, QSortIs
  <2> QED
    BY <1>1, <1>5, <2>1, <2>4 DEF Ranked
<1>8. CASE ~OrderFree(Len(c)) /\ ~PartialSuffices(c)
  <2>1. probs' \in Descending(c)
    BY <1>1, <1>8
  <2>2. /\ Lists(probs', Eligible, Weights) /\ Best(probs', Eligible, Weights)
        /\ Sorted(probs') /\ Len(probs') = Len(c)
    BY <1>3, <1>5, <2>1, QSortIs
  <2> QED
    BY <1>1, <1>5, <2>2 DEF Ranked
<1> QED
  BY <1>6, <1>7, <1>8

FilterInv == phase = "filter" => Ranked(probs, total)

DrawInv   == phase = "draw" =>
               \E s, t : Ranked(s, t) /\ probs = SubSeq(s, 1, Cut(s, t))

SamplerInv == InputInv /\ PenaltyInv /\ MaxInv /\ FilterInv /\ DrawInv

LEMMA MaxNext ==
  ASSUME InputInv, PenaltyInv, MaxInv, [SamplerNext]_samplerVars
  PROVE  MaxInv'
<1>1. CASE Temperature
  <2>1. CASE phase' = "sample"
    <3> DEFINE T == {logits'[t] : t \in Tokens}
    <3>1. logits' \in [Tokens -> Int] /\ maxLogit' = Max(T)
      BY <1>1, PenaltyNext DEF InputInv, Temperature
    <3>2. T \subseteq Int /\ \E z \in T : \A y \in T : z >= y
      <4> DEFINE f == logits'
      <4>1. f \in [Tokens -> Int] /\ Tokens # {} /\ IsFiniteSet(Tokens)
        BY <3>1, TokensFinite, SamplerAssumption DEF Tokens
      <4> HIDE DEF f
      <4>2. \E x \in Tokens : \A y \in Tokens : f[y] <= f[x]
        BY <4>1, LargestValue
      <4> QED
        BY <4>1, <4>2 DEF f
    <3>3. Max(T) \in T /\ \A y \in T : y <= Max(T)
      <4>1. Max(T) \in T /\ \A y \in T : Max(T) >= y
        <5> HIDE DEF T
        <5> QED
          BY <3>2 DEF Max
      <4> QED
        BY <3>2, <4>1
    <3>4. /\ maxLogit' \in Int /\ \A t \in Tokens : logits'[t] <= maxLogit'
          /\ \E t \in Tokens : logits'[t] = maxLogit'
      BY <3>1, <3>2, <3>3
    <3> QED
      BY <3>4 DEF MaxInv
  <2>2. CASE phase' # "sample"
    <3>1. phase' = "returned"
      BY <1>1, <2>2 DEF Temperature, Return
    <3> QED
      BY <3>1 DEF MaxInv, Sampling
  <2> QED
    BY <2>1, <2>2
<1>2. CASE KeepTopK \/ KeepMinP \/ Filter
  <2>1. Sampling /\ maxLogit' = maxLogit /\ logits' = logits
    BY <1>2 DEF KeepTopK, KeepMinP, Filter, Sampling
  <2> QED
    BY <2>1 DEF MaxInv
<1>3. CASE RejectToken \/ ForwardPass \/ PenaliseNext \/ Draw
  BY <1>3 DEF RejectToken, ForwardPass, PenaliseNext, Draw, Return, MaxInv,
              Sampling
<1>4. CASE UNCHANGED samplerVars
  BY <1>4 DEF samplerVars, MaxInv, Sampling
<1> QED
  BY <1>1, <1>2, <1>3, <1>4 DEF SamplerNext

\* What is ranked depends on the arguments and the logits only.
LEMMA RankedKept ==
  ASSUME args' = args, logits' = logits, maxLogit' = maxLogit
  PROVE  /\ \A s, t : Ranked(s, t)' <=> Ranked(s, t)
         /\ \A s, t : Cut(s, t)' = Cut(s, t)
<1>1. \A t : (PassesMinP(t)' <=> PassesMinP(t)) /\ Below(t)' = Below(t)
  BY DEF PassesMinP, Below
<1>2. EffectiveK' = EffectiveK /\ (TopPActive' <=> TopPActive)
  BY DEF EffectiveK, TopPActive
<1>3. \A t : InRange(t)' <=> InRange(t)
  BY <1>1, <1>2 DEF InRange
<1>4. Eligible' = Eligible
  BY <1>1, <1>3 DEF Eligible
<1>5. Weights' = Weights
  BY <1>1 DEF Weights
<1>6. \A s, t : Ranked(s, t)' <=> Ranked(s, t)
  BY <1>2, <1>4, <1>5 DEF Ranked
<1>7. \A s, t : Cut(s, t)' = Cut(s, t)
  BY <1>2 DEF Cut
<1> QED
  BY <1>6, <1>7

LEMMA RankedNext ==
  ASSUME SamplerInv, [SamplerNext]_samplerVars
  PROVE  FilterInv' /\ DrawInv'
<1>1. InputInv /\ PenaltyInv /\ MaxInv /\ FilterInv /\ DrawInv
  BY DEF SamplerInv
<1>2. CASE KeepTopK \/ KeepMinP
  <2>1. /\ args' = args /\ logits' = logits /\ maxLogit' = maxLogit
        /\ phase' = "filter"
    BY <1>2 DEF KeepTopK, KeepMinP
  <2>2. Ranked(probs', total')
    BY <1>1, <1>2, TopKRanked, MinPRanked
  <2>3. Ranked(probs, total)'
    BY <2>1, <2>2, RankedKept
  <2> QED
    BY <2>1, <2>3 DEF FilterInv, DrawInv
<1>3. CASE Filter
  <2>1. /\ args' = args /\ logits' = logits /\ maxLogit' = maxLogit
        /\ phase = "filter" /\ phase' = "draw"
        /\ probs' = SubSeq(probs, 1, Cut(probs, total))
    BY <1>3 DEF Filter
  <2>2. Ranked(probs, total)
    BY <1>1, <2>1 DEF FilterInv
  <2>3. \E s, t : Ranked(s, t)' /\ probs' = SubSeq(s, 1, Cut(s, t)')
    BY <2>1, <2>2, RankedKept
  <2> QED
    BY <2>1, <2>3 DEF FilterInv, DrawInv
<1>4. CASE UNCHANGED samplerVars
  <2>1. /\ args' = args /\ logits' = logits /\ maxLogit' = maxLogit
        /\ phase' = phase /\ probs' = probs /\ total' = total
    BY <1>4 DEF samplerVars
  <2>2. phase = "filter" => Ranked(probs, total)'
    BY <1>1, <2>1, RankedKept DEF FilterInv
  <2>3. phase = "draw" =>
          \E s, t : Ranked(s, t)' /\ probs' = SubSeq(s, 1, Cut(s, t)')
    BY <1>1, <2>1, RankedKept DEF DrawInv
  <2> QED
    BY <2>1, <2>2, <2>3 DEF FilterInv, DrawInv
<1>5. CASE RejectToken \/ ForwardPass \/ PenaliseNext \/ Temperature \/ Draw
  <2>1. phase' \notin {"filter", "draw"}
    BY <1>5 DEF RejectToken, ForwardPass, PenaliseNext, Temperature, Draw, Return
  <2> QED
    BY <2>1 DEF FilterInv, DrawInv
<1> QED
  BY <1>2, <1>3, <1>4, <1>5 DEF SamplerNext

LEMMA SamplerInvInit == SamplerInit => SamplerInv
<1> SUFFICES ASSUME SamplerInit PROVE SamplerInv
  OBVIOUS
<1>1. phase = "called"
  BY DEF SamplerInit
<1> QED
  BY <1>1, PenaltyInit DEF SamplerInv, MaxInv, Sampling, FilterInv, DrawInv

LEMMA SamplerInvNext ==
  ASSUME SamplerInv, [SamplerNext]_samplerVars
  PROVE  SamplerInv'
<1>1. InputInv /\ PenaltyInv /\ MaxInv
  BY DEF SamplerInv
<1>2. InputInv' /\ PenaltyInv'
  BY <1>1, PenaltyNext
<1>3. MaxInv'
  BY <1>1, MaxNext
<1>4. FilterInv' /\ DrawInv'
  BY RankedNext
<1> QED
  BY <1>2, <1>3, <1>4 DEF SamplerInv

\* From the call to the token, the logits are the penalised ones, the filter
\* is given enough of the best candidates, in order if it will cut, and what
\* it leaves is a cut of those.
THEOREM SamplerInvariant == SamplerSpec => []SamplerInv
<1>1. SamplerInv /\ [SamplerNext]_samplerVars => SamplerInv'
  BY SamplerInvNext
<1> QED
  BY <1>1, SamplerInvInit, PTL DEF SamplerSpec

-----------------------------------------------------------------------------
(* The draw.                                                               *)

\* The mass of the first n candidates.
Prefix(s, n) == Mass(SubSeq(s, 1, n))

LEMMA PrefixMass ==
  ASSUME NEW C, Valued(C), NEW s \in Seq(C)
  PROVE  /\ Prefix(s, 0) = 0 /\ Prefix(s, Len(s)) = Mass(s)
         /\ \A n \in 0 .. Len(s) : Prefix(s, n) \in Int
         /\ \A n \in 1 .. Len(s) : Prefix(s, n) = Prefix(s, n - 1) + s[n].val
<1> DEFINE N == Len(s)
           f == [j \in 1 .. N |-> s[j].val]
<1>1. N \in Nat /\ DOMAIN s = 1 .. N /\ \A j \in 1 .. N : s[j] \in C
  OBVIOUS
<1>2. f \in [1 .. N -> Int] /\ \A j \in 1 .. N : f[j] = s[j].val
  BY <1>1 DEF Valued
<1>3. ASSUME NEW n \in 0 .. N
      PROVE  Prefix(s, n) = SumOf(f, 1, n + 1)
  <2> DEFINE a == SubSeq(s, 1, n)
  <2>1. /\ a \in [1 .. n -> C] /\ \A q \in 1 .. n : a[q] = s[q]
    BY PrefixIs
  <2> HIDE DEF a
  <2>2. \A q \in 1 .. n : q \in 1 .. N /\ a[q].val = f[q]
    BY <1>1, <1>2, <2>1
  <2> HIDE DEF f
  <2>3. [j \in DOMAIN a |-> a[j].val] = [i \in 1 .. n |-> f[i]]
    BY <2>1, <2>2
  <2>4. (n + 1) - 1 = n
    OBVIOUS
  <2>5. SumOf(f, 1, n + 1) = SumFunction([i \in 1 .. n |-> f[i]])
    BY <2>4 DEF SumOf
  <2>6. Mass(a) = SumFunction([i \in 1 .. n |-> f[i]])
    BY <2>3 DEF Mass
  <2> QED
    BY <2>5, <2>6 DEF Prefix, a
<1>4. SubSeq(s, 1, N) = s
  <2> DEFINE a == SubSeq(s, 1, N)
  <2>1. N \in 0 .. Len(s)
    BY <1>1
  <2>2. a \in Seq(C) /\ Len(a) = N /\ \A q \in 1 .. N : a[q] = s[q]
    BY <2>1, PrefixIs
  <2> HIDE DEF a
  <2>3. a = s
    BY <2>2, SeqEqual
  <2> QED
    BY <2>3 DEF a
<1>5. Prefix(s, N) = Mass(s)
  BY <1>4 DEF Prefix
<1> HIDE DEF f, N
<1>6. Prefix(s, 0) = 0
  <2>1. 0 \in 0 .. N /\ 0 + 1 = 1 /\ 1 \in Int
    BY <1>1
  <2>2. Prefix(s, 0) = SumOf(f, 1, 1)
    BY <1>3, <2>1
  <2> QED
    BY <2>1, <2>2, SumNone
<1>7. ASSUME NEW n \in 0 .. N PROVE Prefix(s, n) \in Int
  <2>1. 1 \in Int /\ n + 1 \in Int /\ 1 <= n + 1
        /\ \A i \in 1 .. (n + 1) - 1 : f[i] \in Int
    BY <1>1, <1>2
  <2>2. SumOf(f, 1, n + 1) \in Int
    BY <2>1, SumInt
  <2> QED
    BY <1>3, <2>2
<1>8. ASSUME NEW n \in 1 .. N
      PROVE  Prefix(s, n) = Prefix(s, n - 1) + s[n].val
  <2>1. 1 \in Int /\ n \in Int /\ 1 <= n /\ \A i \in 1 .. n : f[i] \in Int
    BY <1>1, <1>2
  <2>2. SumOf(f, 1, n + 1) = SumOf(f, 1, n) + f[n]
    BY <2>1, SumNext
  <2>3. n \in 0 .. N /\ n - 1 \in 0 .. N /\ (n - 1) + 1 = n
    BY <1>1
  <2> QED
    BY <1>2, <1>3, <2>2, <2>3
<1> QED
  BY <1>5, <1>6, <1>7, <1>8 DEF N

\* A longer prefix has at least the mass, for no mass is negative.
LEMMA PrefixGrows ==
  ASSUME NEW C, Valued(C), NEW s \in Seq(C),
         \A j \in 1 .. Len(s) : s[j].val >= 0,
         NEW m \in 0 .. Len(s), NEW n \in m .. Len(s)
  PROVE  Prefix(s, m) <= Prefix(s, n)
<1> DEFINE N == Len(s)
           P == {i \in m .. N : Prefix(s, m) <= Prefix(s, i)}
<1>1. N \in Nat /\ \A j \in 1 .. N : s[j].val \in Int
  BY DEF Valued
<1>2. /\ \A i \in 0 .. N : Prefix(s, i) \in Int
      /\ \A i \in 1 .. N : Prefix(s, i) = Prefix(s, i - 1) + s[i].val
  BY PrefixMass
<1> HIDE DEF N
<1>3. m \in Int /\ N \in Int /\ m \in 0 .. N /\ n \in m .. N
  BY <1>1 DEF N
<1>4. m \in P
  BY <1>2, <1>3
<1>5. ASSUME NEW i \in m + 1 .. N, i - 1 \in P PROVE i \in P
  <2>1. i \in 1 .. N /\ i \in m .. N /\ i - 1 \in 0 .. N /\ i \in 0 .. N
    BY <1>1, <1>3
  <2>2. s[i].val >= 0 /\ s[i].val \in Int
    BY <1>1, <2>1 DEF N
  <2>3. Prefix(s, m) <= Prefix(s, i - 1)
    BY <1>5
  <2>4. Prefix(s, m) \in Int /\ Prefix(s, i - 1) \in Int /\ Prefix(s, i) \in Int
    BY <1>2, <1>3, <2>1
  <2>5. Prefix(s, i) = Prefix(s, i - 1) + s[i].val
    BY <1>2, <2>1
  <2>6. Prefix(s, m) <= Prefix(s, i)
    BY <2>2, <2>3, <2>4, <2>5
  <2> QED
    BY <2>1, <2>6
<1> HIDE DEF P
<1>6. m .. N \subseteq P
  BY <1>3, <1>4, <1>5, IntervalInduction
<1>7. n \in P
  BY <1>3, <1>6
<1> QED
  BY <1>7 DEF P

\* The random numbers that name a candidate are those between the mass
\* before it and the mass with it.
LEMMA PickIs ==
  ASSUME NEW C, Valued(C), NEW s \in Seq(C),
         \A j \in 1 .. Len(s) : s[j].val >= 0,
         \A j, k \in 1 .. Len(s) : s[j].id = s[k].id => j = k,
         NEW r \in 0 .. Mass(s) - 1, NEW j \in 1 .. Len(s)
  PROVE  Pick(s, r) = s[j].id <=> Prefix(s, j - 1) <= r /\ r < Prefix(s, j)
<1> DEFINE N   == Len(s)
           hit == {n \in 1 .. N : r < Mass(SubSeq(s, 1, n))}
           m   == Min(hit)
<1>1. N \in Nat
  OBVIOUS
<1>2. /\ Prefix(s, 0) = 0 /\ Prefix(s, N) = Mass(s)
      /\ \A n \in 0 .. N : Prefix(s, n) \in Int
  BY PrefixMass
<1>3. \A a \in 0 .. N : \A b \in a .. N : Prefix(s, a) <= Prefix(s, b)
  BY PrefixGrows
<1>4. hit = {n \in 1 .. N : r < Prefix(s, n)}
  BY DEF Prefix
<1> HIDE DEF N
<1>5. j \in 1 .. N /\ r \in Int /\ 0 <= r /\ r < Prefix(s, N)
  <2>1. N \in 0 .. N
    BY <1>1
  <2>2. Mass(s) \in Int
    BY <1>2, <2>1
  <2> QED
    BY <1>2, <2>2 DEF N
<1>6. N \in hit
  BY <1>1, <1>4, <1>5
<1>7. Pick(s, r) = s[m].id
  BY <1>6 DEF Pick, N
<1> HIDE DEF hit
<1>8. m \in hit /\ \A n \in hit : m <= n
  <2>1. hit \subseteq Nat /\ hit # {}
    BY <1>4, <1>6
  <2> QED
    BY <2>1, MinIs
<1> HIDE DEF m
<1>9. m \in 1 .. N /\ r < Prefix(s, m)
  BY <1>4, <1>8
<1>10. Prefix(s, m - 1) <= r
  <2>1. CASE m = 1
    BY <1>2, <1>5, <2>1
  <2>2. CASE m # 1
    <3>1. m - 1 \in 1 .. N /\ m - 1 \in 0 .. N /\ ~(m <= m - 1)
      BY <1>1, <1>9, <2>2
    <3>2. ~(r < Prefix(s, m - 1))
      BY <1>4, <1>8, <3>1
    <3> QED
      BY <1>2, <1>5, <3>1, <3>2
  <2> QED
    BY <2>1, <2>2
<1>11. ASSUME Pick(s, r) = s[j].id
       PROVE  Prefix(s, j - 1) <= r /\ r < Prefix(s, j)
  <2>1. m = j
    BY <1>5, <1>7, <1>9, <1>11 DEF N
  <2> QED
    BY <1>9, <1>10, <2>1
<1>12. ASSUME Prefix(s, j - 1) <= r, r < Prefix(s, j)
       PROVE  Pick(s, r) = s[j].id
  <2>1. m <= j
    BY <1>4, <1>5, <1>8, <1>12
  <2>2. ASSUME m # j PROVE FALSE
    <3>1. m \in 0 .. N /\ j - 1 \in m .. N /\ j - 1 \in 0 .. N
      BY <1>1, <1>5, <1>9, <2>1, <2>2
    <3>2. Prefix(s, m) <= Prefix(s, j - 1)
      BY <1>3, <3>1
    <3>3. Prefix(s, m) \in Int /\ Prefix(s, j - 1) \in Int
      BY <1>2, <3>1
    <3> QED
      BY <1>5, <1>9, <1>12, <3>2, <3>3
  <2> QED
    BY <1>7, <2>2
<1> QED
  BY <1>11, <1>12

\* The cut leaves a candidate at least.
LEMMA CutIs ==
  ASSUME InputInv, NEW s, NEW t, Len(s) \in Nat \ {0}
  PROVE  /\ Cut(s, t) \in 1 .. Len(s)
         /\ TopPCut(args.topP, s, t) \in 1 .. Len(s)
<1> DEFINE N == Len(s)
           T == {n \in 1 .. N : Covers(args.topP, Mass(SubSeq(s, 1, n)), t)}
                \cup {N}
           q == TopPCut(args.topP, s, t)
<1>1. T \subseteq Nat /\ T # {} /\ T \subseteq 1 .. N
  OBVIOUS
<1>2. q = Min(T)
  BY DEF TopPCut
<1>3. q \in 1 .. N
  <2> HIDE DEF T, q
  <2> QED
    BY <1>1, <1>2, MinIs
<1> HIDE DEF q
<1> DEFINE p == IF TopPActive THEN q ELSE N
<1>4. p \in 1 .. N
  BY <1>3
<1>5. Cut(s, t) = IF EffectiveK = 0 /\ args.topK \in 1 .. p - 1
                  THEN args.topK ELSE p
  BY DEF Cut, q
<1> HIDE DEF p
<1>6. Cut(s, t) \in 1 .. N
  <2>1. args.topK \in 1 .. p - 1 => args.topK \in 1 .. N
    BY <1>4
  <2> QED
    BY <1>4, <1>5, <2>1
<1> QED
  BY <1>3, <1>6 DEF q

LEMMA PrefixLists ==
  ASSUME NEW s, NEW S, NEW w, Lists(s, S, w), NEW c \in 1 .. Len(s)
  PROVE  /\ Lists(SubSeq(s, 1, c), S, w) /\ Len(SubSeq(s, 1, c)) = c
         /\ \A j \in 1 .. c : SubSeq(s, 1, c)[j] = s[j]
<1> DEFINE C == [id: S, val: Int]
           a == SubSeq(s, 1, c)
<1>1. s \in Seq(C) /\ c \in 0 .. Len(s) /\ c \in Nat \ {0}
      /\ \A j \in 1 .. c : j \in 1 .. Len(s)
  <2>1. s \in Seq(C)
    BY DEF Lists
  <2>2. Len(s) \in Nat
    BY ListsFacts
  <2> QED
    BY <2>1, <2>2
<1> HIDE DEF C
<1>2. a \in Seq(C) /\ Len(a) = c /\ \A j \in 1 .. c : a[j] = s[j]
  BY <1>1, PrefixIs
<1> HIDE DEF a
<1>3. a # <<>>
  BY <1>1, <1>2, EmptySeq
<1>4. Lists(a, S, w)
  <2>1. \A j \in 1 .. c : a[j].val = w[a[j].id]
    BY <1>1, <1>2 DEF Lists
  <2>2. \A j, k \in 1 .. c : a[j].id = a[k].id => j = k
    BY <1>1, <1>2 DEF Lists
  <2> QED
    BY <1>2, <1>3, <2>1, <2>2 DEF Lists, C
<1> QED
  BY <1>2, <1>4 DEF a

LEMMA DrawKept ==
  ASSUME SamplerInv
  PROVE  DrawProportional
<1> SUFFICES ASSUME phase = "draw"
             PROVE  /\ \A j \in DOMAIN probs :
                         Cardinality({r \in 0 .. Mass(probs) - 1 :
                                        Pick(probs, r) = probs[j].id})
                           = probs[j].val
                    /\ Pick(probs, Mass(probs))
                         \in {probs[j].id : j \in DOMAIN probs}
  BY DEF DrawProportional
<1>1. InputInv /\ MaxInv /\ Sampling
  BY DEF SamplerInv, Sampling
<1>2. PICK s, t : Ranked(s, t) /\ probs = SubSeq(s, 1, Cut(s, t))
  BY DEF SamplerInv, DrawInv
<1>3. Lists(s, Eligible, Weights)
  BY <1>2 DEF Ranked
<1>4. Cut(s, t) \in 1 .. Len(s)
  BY <1>1, <1>3, ListsFacts, CutIs
<1>5. Lists(probs, Eligible, Weights)
  BY <1>2, <1>3, <1>4, PrefixLists
<1> DEFINE C == [id: Eligible, val: Int]
           N == Len(probs)
<1>6. /\ N \in Nat \ {0} /\ DOMAIN probs = 1 .. N
      /\ \A j \in 1 .. N : probs[j].id \in Eligible /\ probs[j].val \in Int
  BY <1>5, ListsFacts
<1>7. Valued(C) /\ probs \in Seq(C)
  BY <1>5 DEF Valued, Lists
<1>8. /\ \A j \in 1 .. N : probs[j].val = Weights[probs[j].id]
      /\ \A j, k \in 1 .. N : probs[j].id = probs[k].id => j = k
  BY <1>5 DEF Lists
<1> HIDE DEF C
<1>9. \A j \in 1 .. N : probs[j].val >= 0
  <2>1. \A u \in Eligible : Weights[u] \in Nat
    BY <1>1, WeightsAre, EligibleIs
  <2> QED
    BY <1>6, <1>8, <2>1
<1>10. /\ Prefix(probs, 0) = 0 /\ Prefix(probs, N) = Mass(probs)
       /\ \A n \in 0 .. N : Prefix(probs, n) \in Int
       /\ \A n \in 1 .. N :
            Prefix(probs, n) = Prefix(probs, n - 1) + probs[n].val
  BY <1>7, PrefixMass
<1>11. \A a \in 0 .. N : \A b \in a .. N : Prefix(probs, a) <= Prefix(probs, b)
  BY <1>7, <1>9, PrefixGrows
<1>12. Mass(probs) \in Nat
  <2>1. 0 \in 0 .. N /\ N \in 0 .. N
    BY <1>6
  <2>2. Prefix(probs, 0) <= Prefix(probs, N)
    BY <1>11, <2>1
  <2> QED
    BY <1>10, <2>1, <2>2
<1>13. ASSUME NEW j \in 1 .. N
       PROVE  Cardinality({r \in 0 .. Mass(probs) - 1 :
                             Pick(probs, r) = probs[j].id}) = probs[j].val
  <2> DEFINE a == Prefix(probs, j - 1)
             b == Prefix(probs, j)
  <2>1. \A r \in 0 .. Mass(probs) - 1 :
          Pick(probs, r) = probs[j].id <=> a <= r /\ r < b
    BY <1>7, <1>8, <1>9, PickIs
  <2>2. a \in Int /\ b \in Int /\ b = a + probs[j].val /\ probs[j].val \in Int
        /\ probs[j].val >= 0 /\ 0 <= a /\ b <= Mass(probs)
    <3>1. j - 1 \in 0 .. N /\ j \in 0 .. N /\ 0 \in 0 .. N /\ N \in j .. N
      BY <1>6
    <3>2. j - 1 \in 0 .. N
      BY <3>1
    <3>3. 0 <= a /\ b <= Mass(probs)
      BY <1>10, <1>11, <3>1
    <3> QED
      BY <1>6, <1>9, <1>10, <3>1, <3>3
  <2> HIDE DEF a, b
  <2>3. {r \in 0 .. Mass(probs) - 1 : Pick(probs, r) = probs[j].id}
          = a .. b - 1
    <3>1. \A r \in 0 .. Mass(probs) - 1 : r \in Int
      OBVIOUS
    <3>2. \A r \in a .. b - 1 : r \in 0 .. Mass(probs) - 1 /\ a <= r /\ r < b
      BY <1>12, <2>2
    <3>3. \A r \in 0 .. Mass(probs) - 1 : a <= r /\ r < b => r \in a .. b - 1
      BY <1>12, <2>2
    <3> QED
      BY <2>1, <3>2, <3>3
  <2>4. Cardinality(a .. b - 1) = IF a > b - 1 THEN 0 ELSE (b - 1) - a + 1
    <3> DEFINE e == b - 1
    <3>1. a \in Int /\ e \in Int
      BY <2>2
    <3> HIDE DEF e
    <3>2. Cardinality(a .. e) = IF a > e THEN 0 ELSE e - a + 1
      BY <3>1, FS_Interval
    <3> QED
      BY <3>2 DEF e
  <2>5. (IF a > b - 1 THEN 0 ELSE (b - 1) - a + 1) = probs[j].val
    BY <2>2
  <2> QED
    BY <2>3, <2>4, <2>5
<1>14. Pick(probs, Mass(probs)) \in {probs[j].id : j \in 1 .. N}
  <2> DEFINE hit == {n \in 1 .. N : Mass(probs) < Mass(SubSeq(probs, 1, n))}
  <2>1. Pick(probs, Mass(probs)) = probs[IF hit = {} THEN N ELSE Min(hit)].id
    BY DEF Pick
  <2>2. hit # {} => Min(hit) \in 1 .. N
    <3>1. hit \subseteq Nat /\ hit \subseteq 1 .. N
      OBVIOUS
    <3> HIDE DEF hit
    <3> QED
      BY <3>1, MinIs
  <2>3. N \in 1 .. N
    BY <1>6
  <2> QED
    BY <2>1, <2>2, <2>3
<1> QED
  BY <1>6, <1>13, <1>14

\* Sorted or not, every candidate is drawn by exactly its weight of the random
\* values below the mass, and a random number of 1 still names a candidate.
THEOREM DrawnByWeight == SamplerSpec => []DrawProportional
BY SamplerInvariant, DrawKept, PTL

-----------------------------------------------------------------------------
(* The reference.                                                          *)

\* As many elements are reached as they are reached from.
Reached(p, I) == {p[i] : i \in I}

LEMMA ImageCount ==
  ASSUME NEW E, NEW D, NEW p \in Injection(E, D), NEW I \in SUBSET E,
         IsFiniteSet(I)
  PROVE  /\ IsFiniteSet(Reached(p, I))
         /\ Cardinality(Reached(p, I)) = Cardinality(I)
<1> DEFINE T == {p[i] : i \in I}
           q == [i \in I |-> p[i]]
<1>1. p \in [E -> D] /\ \A a, b \in E : p[a] = p[b] => a = b
  BY DEF Injection, IsInjective
<1>2. q \in [I -> T] /\ \A i \in I : q[i] = p[i]
  OBVIOUS
<1>3. \A y \in T : \E i \in I : q[i] = y
  BY <1>2
<1>4. \A a, b \in I : q[a] = q[b] => a = b
  BY <1>1, <1>2
<1> HIDE DEF q, T
<1>5. q \in Bijection(I, T)
  BY <1>2, <1>3, <1>4 DEF Bijection, Injection, Surjection, IsInjective
<1>6. IsFiniteSet(T) /\ Cardinality(T) = Cardinality(I)
  BY <1>5, FS_Bijection DEF ExistsBijection
<1> QED
  BY <1>6 DEF T, Reached

\* In a sorted list of the best of S, the j-th has the j-th largest weight.
LEMMA NthWeightIs ==
  ASSUME InputInv, MaxInv, Sampling, NEW S \in SUBSET Tokens,
         NEW s, Lists(s, S, Weights), Best(s, S, Weights), Sorted(s),
         NEW j \in 1 .. Len(s)
  PROVE  NthWeight(S, j) = s[j].val
<1> DEFINE n        == Len(s)
           w(t)     == Weight(Below(t))
           Above(x) == {t \in S : w(t) > x}
           From(x)  == {t \in S : w(t) >= x}
           v        == s[j].val
           id       == [i \in 1 .. n |-> s[i].id]
           Ok(x)    == Cardinality(Above(x)) < j /\ Cardinality(From(x)) >= j
<1>1. n \in Nat /\ \A i \in 1 .. n : s[i].id \in S /\ s[i].val \in Int
  BY ListsFacts
<1>2. /\ \A i \in 1 .. n : s[i].val = Weights[s[i].id]
      /\ \A i, k \in 1 .. n : s[i].id = s[k].id => i = k
  BY DEF Lists
<1>3. \A t \in S : w(t) \in Nat /\ Weights[t] = w(t)
  BY WeightsAre
<1>4. \A x : /\ IsFiniteSet(Above(x)) /\ Cardinality(Above(x)) \in Nat
             /\ IsFiniteSet(From(x)) /\ Cardinality(From(x)) \in Nat
  <2> TAKE x
  <2>1. Above(x) \in SUBSET Tokens /\ From(x) \in SUBSET Tokens
    OBVIOUS
  <2> QED
    BY <2>1, TokensFinite
<1> HIDE DEF n
<1>5. j \in 1 .. n /\ j \in Nat
  BY <1>1 DEF n
<1>6. id \in Injection(1 .. n, S) /\ \A i \in 1 .. n : id[i] = s[i].id
  <2>1. id \in [1 .. n -> S] /\ \A i \in 1 .. n : id[i] = s[i].id
    BY <1>1
  <2>2. \A i, k \in 1 .. n : id[i] = id[k] => i = k
    BY <1>2, <2>1
  <2> HIDE DEF id
  <2> QED
    BY <2>1, <2>2 DEF Injection, IsInjective
<1> HIDE DEF id
<1>7. \A i \in 1 .. n : s[i].val = w(s[i].id)
  BY <1>1, <1>2, <1>3
<1> HIDE DEF w
<1>8. \A k \in 0 .. n : /\ IsFiniteSet(Reached(id, 1 .. k))
                        /\ Cardinality(Reached(id, 1 .. k)) = k
  <2> TAKE k \in 0 .. n
  <2> DEFINE I == 1 .. k
             E == 1 .. n
  <2>1. /\ IsFiniteSet(I) /\ Cardinality(I) = k /\ I \in SUBSET E
        /\ id \in Injection(E, S)
    BY <1>1, <1>6, FS_Interval
  <2> HIDE DEF I, E
  <2>2. /\ IsFiniteSet(Reached(id, I))
        /\ Cardinality(Reached(id, I)) = Cardinality(I)
    BY <2>1, ImageCount
  <2> QED
    BY <2>1, <2>2 DEF I
<1>9. Cardinality(Above(v)) < j
  <2> DEFINE T == Reached(id, 1 .. j - 1)
  <2>1. ASSUME NEW t \in Above(v) PROVE t \in T
    <3>1. t \in S /\ w(t) > v /\ w(t) \in Int /\ v \in Int
      BY <1>1, <1>3, <1>5
    <3>2. ~(Weights[t] <= s[j].val)
      BY <1>3, <3>1
    <3>3. PICK i \in 1 .. n : s[i].id = t
      BY <1>5, <3>1, <3>2 DEF Best, n
    <3>4. s[i].val > s[j].val /\ s[i].val \in Int /\ s[j].val \in Int
      BY <1>1, <1>5, <1>7, <3>1, <3>3
    <3>5. ~(j < i)
      BY <1>5, <3>3, <3>4 DEF Sorted, n
    <3>6. i # j
      BY <3>4
    <3>7. i \in 1 .. j - 1
      BY <1>5, <3>5, <3>6
    <3> QED
      BY <1>6, <3>3, <3>7 DEF Reached
  <2>2. Above(v) \in SUBSET T
    BY <2>1
  <2>3. IsFiniteSet(T) /\ Cardinality(T) = j - 1
    <3>1. j - 1 \in 0 .. n
      BY <1>1, <1>5
    <3> QED
      BY <1>8, <3>1
  <2> HIDE DEF T, Above
  <2>4. Cardinality(Above(v)) <= j - 1
    BY <2>2, <2>3, Fewer
  <2>5. Cardinality(Above(v)) \in Nat
    BY <1>4
  <2> QED
    BY <1>5, <2>4, <2>5
<1>10. Cardinality(From(v)) >= j
  <2> DEFINE T == Reached(id, 1 .. j)
  <2>1. ASSUME NEW i \in 1 .. j PROVE id[i] \in From(v)
    <3>1. i \in 1 .. n
      BY <1>1, <1>5
    <3>2. s[i].val >= s[j].val
      <4>1. i < j \/ i = j
        BY <1>5
      <4>2. s[j].val \in Int
        BY <1>1, <1>5
      <4> QED
        BY <1>5, <3>1, <4>1, <4>2 DEF Sorted, n
    <3> QED
      BY <1>1, <1>6, <1>7, <3>1, <3>2
  <2>2. T \in SUBSET From(v)
    BY <2>1 DEF Reached
  <2>3. IsFiniteSet(T) /\ Cardinality(T) = j
    <3>1. j \in 0 .. n
      BY <1>1, <1>5
    <3> QED
      BY <1>8, <3>1
  <2> HIDE DEF T, From
  <2>4. Cardinality(T) <= Cardinality(From(v))
    BY <1>4, <2>2, Fewer
  <2> QED
    BY <1>4, <1>5, <2>3, <2>4
<1>11. v \in {w(t) : t \in S}
  BY <1>1, <1>5, <1>7
<1>12. ASSUME NEW x \in Int, NEW y \in Int, Ok(x), Ok(y), x < y PROVE FALSE
  <2>1. From(y) \in SUBSET Above(x)
    <3>1. \A t \in S : w(t) >= y => w(t) > x
      BY <1>3, <1>12
    <3> QED
      BY <3>1
  <2>2. Cardinality(From(y)) <= Cardinality(Above(x))
    <3> HIDE DEF From, Above
    <3> QED
      BY <1>4, <2>1, Fewer
  <2> HIDE DEF From, Above
  <2> QED
    BY <1>4, <1>5, <1>12, <2>2
<1>13. \A x \in {w(t) : t \in S} : Ok(x) => x = v
  <2> TAKE x \in {w(t) : t \in S}
  <2>1. x \in Int /\ v \in Int
    BY <1>3, <1>11
  <2>2. Ok(v)
    BY <1>9, <1>10
  <2> HAVE Ok(x)
  <2> HIDE DEF Ok, v
  <2>3. ~(x < v)
    BY <1>12, <2>1, <2>2
  <2>4. ~(v < x)
    BY <1>12, <2>1, <2>2
  <2> QED
    BY <2>1, <2>3, <2>4
<1>14. NthWeight(S, j) = CHOOSE x \in {w(t) : t \in S} : Ok(x)
  BY DEF NthWeight, w
<1>15. Ok(v)
  BY <1>9, <1>10
<1> HIDE DEF Ok, v
<1>16. NthWeight(S, j) = v
  BY <1>11, <1>13, <1>14, <1>15
<1> QED
  BY <1>16 DEF v

\* A list of the best can be sorted, and has the same weights then.
LEMMA SortedExists ==
  ASSUME NEW s, NEW S, NEW w, Lists(s, S, w), Best(s, S, w)
  PROVE  \E o : /\ Lists(o, S, w) /\ Best(o, S, w) /\ Sorted(o)
                /\ Len(o) = Len(s) /\ Mass(o) = Mass(s) /\ Reorders(o, s)
<1> DEFINE n == Len(s)
           f == [j \in 1 .. n |-> s[j].val]
<1>1. n \in Nat /\ \A j \in 1 .. n : s[j].val \in Int
  BY ListsFacts
<1>2. f \in [1 .. n -> Int] /\ \A j \in 1 .. n : f[j] = s[j].val
  BY <1>1
<1>3. IsFiniteSet(1 .. n) /\ Cardinality(1 .. n) = n
  BY <1>1, FS_Interval
<1> HIDE DEF n, f
<1>4. PICK p \in Bijection(1 .. n, 1 .. n) :
        \A j, k \in 1 .. n : j < k => f[p[j]] >= f[p[k]]
  <2> DEFINE D == 1 .. n
  <2>1. IsFiniteSet(D) /\ f \in [D -> Int] /\ Cardinality(D) = n
    BY <1>2, <1>3
  <2> HIDE DEF D
  <2>2. \E p \in Bijection(1 .. Cardinality(D), D) :
          \A j, k \in 1 .. Cardinality(D) : j < k => f[p[j]] >= f[p[k]]
    BY <2>1, OrderExists
  <2> QED
    BY <2>1, <2>2 DEF D
<1> DEFINE o == [j \in 1 .. n |-> s[p[j]]]
<1>5. p \in [1 .. n -> 1 .. n]
  BY <1>4 DEF Bijection, Injection, Surjection
<1>6. Len(o) = n /\ \A j \in 1 .. n : o[j] = s[p[j]]
  BY <1>1
<1>7. Reorders(o, s)
  BY <1>4 DEF Reorders, n
<1> HIDE DEF o
<1>8. Sorted(o)
  <2> SUFFICES ASSUME NEW j \in 1 .. n, NEW k \in 1 .. n, j < k
               PROVE  o[j].val >= o[k].val
    BY <1>6 DEF Sorted
  <2>1. f[p[j]] >= f[p[k]] /\ p[j] \in 1 .. n /\ p[k] \in 1 .. n
    BY <1>4, <1>5
  <2> QED
    BY <1>2, <1>6, <2>1
<1>9. Lists(o, S, w) /\ Best(o, S, w) /\ Mass(o) = Mass(s)
  BY <1>7, ReordersIs
<1> QED
  BY <1>6, <1>7, <1>8, <1>9 DEF n

\* All of S in order.
LEMMA FullOrder ==
  ASSUME InputInv, MaxInv, Sampling, NEW S \in SUBSET Tokens, S # {}
  PROVE  \E z : /\ Lists(z, S, Weights) /\ Best(z, S, Weights) /\ Sorted(z)
                /\ Len(z) = Cardinality(S)
                /\ Mass(z) = SumFunction([t \in S |-> Weights[t]])
<1> DEFINE s == Softmax(Extract(S))
<1>1. /\ Lists(s, S, Weights) /\ Best(s, S, Weights) /\ Len(s) = Cardinality(S)
      /\ Mass(s) = SumFunction([t \in S |-> Weights[t]])
  BY SoftmaxMass
<1> HIDE DEF s
<1>2. PICK z : /\ Lists(z, S, Weights) /\ Best(z, S, Weights) /\ Sorted(z)
               /\ Len(z) = Len(s) /\ Mass(z) = Mass(s)
  BY <1>1, SortedExists
<1> QED
  BY <1>1, <1>2

\* The values of a list of candidates.
Values(s) == [j \in 1 .. Len(s) |-> s[j].val]

\* In another order, a list has the same values as often.
LEMMA CountsReordered ==
  ASSUME NEW s, NEW S, NEW w, Lists(s, S, w), NEW o, Reorders(o, s)
  PROVE  Counts(Values(o)) = Counts(Values(s))
<1> DEFINE n == Len(s)
           E == 1 .. n
           f == Values(s)
           g == Values(o)
<1>1. n \in Nat /\ Len(o) = n
  BY ListsFacts, ReordersIs
<1>2. PICK p \in Bijection(E, E) : o = [j \in E |-> s[p[j]]]
  BY DEF Reorders
<1>3. /\ p \in [E -> E] /\ p \in Injection(E, E)
      /\ \A d \in E : \E e \in E : p[e] = d
  BY <1>2 DEF Bijection, Injection, Surjection
<1>4. IsFiniteSet(E)
  BY <1>1, FS_Interval
<1>5. /\ DOMAIN f = E /\ DOMAIN g = E
      /\ \A j \in E : f[j] = s[j].val /\ g[j] = o[j].val
  BY <1>1 DEF Values
<1> HIDE DEF E, f, g, n
<1>6. \A j \in E : g[j] = f[p[j]]
  BY <1>2, <1>3, <1>5
<1>7. Range(g) = Range(f)
  BY <1>3, <1>5, <1>6 DEF Range
<1>8. ASSUME NEW v
      PROVE  Cardinality({j \in E : g[j] = v}) = Cardinality({j \in E : f[j] = v})
  <2> DEFINE I == {j \in E : g[j] = v}
             T == {j \in E : f[j] = v}
  <2>1. I \in SUBSET E /\ IsFiniteSet(I)
    BY <1>4, FS_Subset
  <2>2. Reached(p, I) = T
    <3>1. \A i \in I : p[i] \in T
      BY <1>3, <1>6
    <3>2. ASSUME NEW d \in T PROVE \E i \in I : p[i] = d
      <4>1. PICK e \in E : p[e] = d
        BY <1>3
      <4>2. e \in I
        BY <1>6, <4>1
      <4> QED
        BY <4>1, <4>2
    <3> HIDE DEF I, T
    <3> QED
      BY <3>1, <3>2 DEF Reached
  <2> HIDE DEF I, T
  <2>3. Cardinality(Reached(p, I)) = Cardinality(I)
    BY <1>3, <2>1, ImageCount
  <2>4. Cardinality(I) = Cardinality(T)
    BY <2>2, <2>3
  <2> QED
    BY <2>4 DEF I, T
<1>9. Counts(g) = [v \in Range(g) |-> Cardinality({j \in E : g[j] = v})]
      /\ Counts(f) = [v \in Range(f) |-> Cardinality({j \in E : f[j] = v})]
  BY <1>5 DEF Counts
<1>10. Counts(g) = Counts(f)
  BY <1>7, <1>8, <1>9
<1> QED
  BY <1>10 DEF f, g

LEMMA PrefixValues ==
  ASSUME NEW s, NEW S, NEW w, Lists(s, S, w), NEW c \in 1 .. Len(s)
  PROVE  /\ Values(SubSeq(s, 1, c)) = [j \in 1 .. c |-> s[j].val]
         /\ Prefix(s, c) = SumFunction([j \in 1 .. c |-> s[j].val])
<1> DEFINE a == SubSeq(s, 1, c)
<1>1. /\ Lists(a, S, w) /\ Len(a) = c /\ \A j \in 1 .. c : a[j] = s[j]
  BY PrefixLists
<1>2. DOMAIN a = 1 .. c
  BY <1>1, ListsFacts
<1> HIDE DEF a
<1>3. Values(a) = [j \in 1 .. c |-> s[j].val]
      /\ [j \in DOMAIN a |-> a[j].val] = [j \in 1 .. c |-> s[j].val]
  BY <1>1, <1>2 DEF Values
<1> QED
  BY <1>3 DEF Prefix, Mass, a

\* The reference's ranking, and where it cuts it.
Places == IF EffectiveK > 0 THEN Min({EffectiveK, Cardinality(Eligible)})
          ELSE Cardinality(Eligible)

First  == [j \in 1 .. Places |-> NthWeight(Eligible, j)]

Nucleus ==
  Min({Places} \cup
      {j \in 1 .. Places :
         TopPActive
         /\ Covers(args.topP, SumFunction(SubSeq(First, 1, j)),
                   SumFunction(First))})

LastKept == IF EffectiveK = 0 /\ args.topK > 0 THEN Min({args.topK, Nucleus})
            ELSE Nucleus

LEMMA NaiveIs == NaiveMasses = Counts(SubSeq(First, 1, LastKept))
BY DEF NaiveMasses, Eligible, Places, First, Nucleus, LastKept

\* What the filter is given, sorted, begins the reference's ranking, and the
\* masses refer to the same sum.
LEMMA RankedIsFirst ==
  ASSUME InputInv, MaxInv, Sampling, NEW s, NEW t, Ranked(s, t),
         NEW o, Lists(o, Eligible, Weights), Best(o, Eligible, Weights),
         Sorted(o), Len(o) = Len(s), Mass(o) = Mass(s)
  PROVE  /\ Places \in Nat \ {0} /\ Len(o) \in 1 .. Places
         /\ First \in Seq(Int) /\ Len(First) = Places
         /\ \A j \in 1 .. Len(o) : First[j] = o[j].val
         /\ SumFunction(First) = t
         /\ Len(o) = Places
            \/ (EffectiveK = 0 /\ TopPActive /\ Covers(args.topP, Mass(s), t))
<1> DEFINE N == Cardinality(Eligible)
           n == Len(o)
<1>1. /\ Eligible \in SUBSET Tokens /\ Eligible # {} /\ IsFiniteSet(Eligible)
      /\ N \in Nat \ {0}
  BY EligibleIs
<1>2. n \in Nat \ {0} /\ n <= N
  BY <1>1, ListsFacts, ListsAll
<1>3. EffectiveK \in Nat
  BY EffectiveKTyped
<1>4. PICK z : /\ Lists(z, Eligible, Weights) /\ Best(z, Eligible, Weights)
               /\ Sorted(z) /\ Len(z) = N
               /\ Mass(z) = SumFunction([u \in Eligible |-> Weights[u]])
  BY <1>1, FullOrder
<1>5. /\ \A j \in 1 .. N : NthWeight(Eligible, j) = z[j].val
      /\ \A j \in 1 .. n : NthWeight(Eligible, j) = o[j].val
  BY <1>1, <1>4, NthWeightIs
<1>6. DOMAIN z = 1 .. N /\ \A j \in 1 .. N : z[j].val \in Int
  BY <1>4, ListsFacts
<1>7. DOMAIN o = 1 .. n
  BY ListsFacts
<1> HIDE DEF N, n
<1>8. /\ Places \in Nat \ {0} /\ n <= Places /\ Places <= N
      /\ EffectiveK > 0 => n = Places
      /\ EffectiveK = 0 =>
           /\ Places = N /\ t = Mass(z)
           /\ n = Places \/ (TopPActive /\ Covers(args.topP, Mass(s), t))
  <2>1. CASE EffectiveK > 0
    <3>1. n = Places
      BY <2>1 DEF Ranked, Places, n
    <3> QED
      BY <1>2, <2>1, <3>1
  <2>2. CASE EffectiveK = 0
    <3>1. Places = N
      BY <2>2 DEF Places, N
    <3>2. t = Mass(z)
      BY <1>4, <2>2 DEF Ranked
    <3>3. n = N \/ (TopPActive /\ Covers(args.topP, Mass(s), t))
      <4>1. \/ Len(s) = Cardinality(Eligible)
            \/ TopPActive /\ Covers(args.topP, Mass(s), t)
        BY <2>2 DEF Ranked
      <4> QED
        BY <4>1 DEF n, N
    <3> QED
      BY <1>1, <1>2, <2>2, <3>1, <3>2, <3>3
  <2> QED
    BY <1>3, <2>1, <2>2
<1>9. /\ \A j \in 1 .. Places : First[j] = z[j].val /\ First[j] \in Int
      /\ First = [j \in 1 .. Places |-> z[j].val]
  <2>1. \A j \in 1 .. Places : j \in 1 .. N
    BY <1>1, <1>8
  <2> QED
    BY <1>5, <1>6, <2>1 DEF First
<1>10. First \in Seq(Int) /\ Len(First) = Places
  <2>1. First \in [1 .. Places -> Int]
    BY <1>9
  <2> QED
    BY <1>8, <2>1
<1>11. \A j \in 1 .. n : First[j] = o[j].val
  <2>1. \A j \in 1 .. n : j \in 1 .. Places
    BY <1>2, <1>8
  <2> QED
    BY <1>5, <2>1 DEF First
<1>12. SumFunction(First) = t
  <2>1. CASE EffectiveK = 0
    <3>1. First = [j \in DOMAIN z |-> z[j].val]
      BY <1>6, <1>8, <1>9, <2>1
    <3>2. Mass(z) = SumFunction(First)
      BY <3>1 DEF Mass
    <3> QED
      BY <1>8, <2>1, <3>2
  <2>2. CASE EffectiveK > 0
    <3>1. First = [j \in DOMAIN o |-> o[j].val]
      BY <1>7, <1>8, <1>9, <1>11, <2>2
    <3>2. Mass(o) = SumFunction(First)
      BY <3>1 DEF Mass
    <3>3. t = Mass(s)
      BY <2>2 DEF Ranked
    <3> QED
      BY <3>2, <3>3
  <2> QED
    BY <1>3, <2>1, <2>2
<1>13. n \in 1 .. Places
  BY <1>2, <1>8
<1>14. n = Places
       \/ (EffectiveK = 0 /\ TopPActive /\ Covers(args.topP, Mass(s), t))
  <2>1. EffectiveK > 0 \/ EffectiveK = 0
    BY <1>3
  <2> QED
    BY <1>8, <2>1, Zenon
<1> QED
  BY <1>8, <1>10, <1>11, <1>12, <1>13, <1>14 DEF n

\* The shortcuts cut where the reference cuts; an unsorted list is not cut.
LEMMA CutIsLast ==
  ASSUME InputInv, MaxInv, Sampling, NEW s, NEW t, Ranked(s, t),
         NEW o, Lists(o, Eligible, Weights), Best(o, Eligible, Weights),
         Sorted(o), Len(o) = Len(s), Mass(o) = Mass(s), Sorted(s) => o = s
  PROVE  /\ Cut(s, t) = LastKept
         /\ ~Sorted(s) => Cut(s, t) = Len(s)
<1> DEFINE n == Len(o)
           m == Places
           q == TopPCut(args.topP, s, t)
           p == IF TopPActive THEN q ELSE n
           A == {m} \cup {j \in 1 .. m :
                            TopPActive
                            /\ Covers(args.topP, SumFunction(SubSeq(First, 1, j)),
                                      SumFunction(First))}
           T == {i \in 1 .. n : Covers(args.topP, Mass(SubSeq(s, 1, i)), t)}
                \cup {n}
<1>1. /\ m \in Nat \ {0} /\ n \in 1 .. m
      /\ First \in Seq(Int) /\ Len(First) = m
      /\ \A j \in 1 .. n : First[j] = o[j].val
      /\ SumFunction(First) = t
      /\ n = m
         \/ (EffectiveK = 0 /\ TopPActive /\ Covers(args.topP, Mass(s), t))
  BY RankedIsFirst
<1>2. Nucleus = Min(A) /\ q = Min(T)
  BY DEF Nucleus, TopPCut
<1>3. \/ Sorted(s)
      \/ ~TopPActive /\ (EffectiveK = 0 => args.topK \notin 1 .. n - 1)
  BY DEF Ranked
<1>4. Cut(s, t) = IF EffectiveK = 0 /\ args.topK \in 1 .. p - 1
                  THEN args.topK ELSE p
  BY DEF Cut
<1>5. A \subseteq 1 .. m /\ T \subseteq 1 .. n /\ n \in T /\ m \in A
  BY <1>1
<1> HIDE DEF q, m, n
<1>6. ASSUME TopPActive PROVE Nucleus = p /\ p \in 1 .. n
  <2>1. o = s
    BY <1>3, <1>6
  <2>2. s \in Seq([id: Eligible, val: Int]) /\ Valued([id: Eligible, val: Int])
    BY DEF Ranked, Lists, Valued
  <2>3. ASSUME NEW j \in 1 .. n
        PROVE  SumFunction(SubSeq(First, 1, j)) = Mass(SubSeq(s, 1, j))
    <3> DEFINE a == SubSeq(First, 1, j)
    <3>1. j \in 0 .. Len(First)
      BY <1>1
    <3>2. a \in [1 .. j -> Int] /\ \A i \in 1 .. j : a[i] = First[i]
      BY <1>1, <3>1, PrefixIs
    <3>3. \A i \in 1 .. j : i \in 1 .. n
      BY <1>1
    <3> HIDE DEF a
    <3>4. a = [i \in 1 .. j |-> s[i].val]
      BY <1>1, <2>1, <3>2, <3>3
    <3>5. Prefix(s, j) = SumFunction([i \in 1 .. j |-> s[i].val])
      <4>1. Lists(s, Eligible, Weights) /\ j \in 1 .. Len(s)
        BY <2>1 DEF n
      <4> QED
        BY <4>1, PrefixValues
    <3> QED
      BY <3>4, <3>5 DEF Prefix, a
  <2>4. n = m \/ Covers(args.topP, Mass(SubSeq(s, 1, n)), t)
    <3>1. Prefix(s, Len(s)) = Mass(s)
      BY <2>2, PrefixMass
    <3> QED
      BY <1>1, <3>1 DEF Prefix, n
  <2>5. \A j \in 1 .. n : j \in A <=> j = m \/ Covers(args.topP, Mass(SubSeq(s, 1, j)), t)
    <3>1. \A j \in 1 .. n : j \in 1 .. m
      BY <1>1
    <3> QED
      BY <1>1, <1>6, <2>3, <3>1
  <2>6. q \in T /\ \A y \in T : q <= y
    <3>1. T \subseteq Nat /\ T # {}
      BY <1>5
    <3> HIDE DEF T
    <3> QED
      BY <1>2, <3>1, MinIs
  <2>7. n \in A /\ n \in 1 .. n
    BY <1>1, <2>4, <2>5
  <2>8. q \in A
    <3>1. q \in 1 .. n /\ (q = n \/ Covers(args.topP, Mass(SubSeq(s, 1, q)), t))
      BY <1>5, <2>6
    <3> HIDE DEF A, T
    <3> QED
      BY <2>5, <2>7, <3>1
  <2>9. ASSUME NEW y \in A PROVE q <= y
    <3>1. y \in 1 .. m /\ q \in 1 .. n
      BY <1>5, <2>6
    <3>2. CASE y \in 1 .. n
      <4>1. y = m \/ Covers(args.topP, Mass(SubSeq(s, 1, y)), t)
        <5> HIDE DEF A
        <5> QED
          BY <2>5, <3>2
      <4>2. CASE y = m
        <5>1. y = n
          BY <1>1, <3>2, <4>2
        <5> QED
          BY <1>5, <2>6, <5>1
      <4>3. CASE Covers(args.topP, Mass(SubSeq(s, 1, y)), t)
        <5>1. y \in T
          BY <3>2, <4>3
        <5> QED
          BY <2>6, <5>1
      <4> QED
        BY <4>1, <4>2, <4>3
    <3>3. CASE y \notin 1 .. n
      BY <1>1, <3>1, <3>3
    <3> QED
      BY <3>2, <3>3
  <2>10. Min(A) = q
    <3>1. A \subseteq Nat
      BY <1>1, <1>5
    <3> HIDE DEF A
    <3> QED
      BY <2>8, <2>9, <3>1, MinUnique
  <2>11. q \in 1 .. n
    BY <1>5, <2>6
  <2> QED
    BY <1>2, <1>6, <2>10, <2>11
<1>7. ASSUME ~TopPActive PROVE Nucleus = p /\ p \in 1 .. n
  <2>1. n = m
    BY <1>1, <1>7
  <2>2. A = {m}
    BY <1>7
  <2>3. Min(A) = m
    <3>1. A \subseteq Nat /\ m \in A /\ \A y \in A : m <= y
      BY <1>1, <2>2
    <3> HIDE DEF A
    <3> QED
      BY <3>1, MinUnique
  <2> QED
    BY <1>1, <1>2, <1>7, <2>1, <2>3
<1>8. Nucleus = p /\ p \in 1 .. n
  BY <1>6, <1>7
<1> HIDE DEF p, A, T
<1>9. Cut(s, t) = LastKept
  <2>1. args.topK \in Int
    BY ArgsTyped
  <2>2. CASE EffectiveK = 0 /\ args.topK > 0
    <3> DEFINE k == args.topK
               y == IF k < p THEN k ELSE p
               B == {k, p}
    <3>1. B \subseteq Nat /\ y \in B /\ \A x \in B : y <= x
      BY <1>8, <2>1, <2>2
    <3> HIDE DEF k, y, B
    <3>2. Min(B) = y
      BY <3>1, MinUnique
    <3>3. LastKept = y
      BY <1>8, <2>2, <3>2 DEF LastKept, k, B
    <3>4. args.topK \in 1 .. p - 1 <=> k < p
      BY <1>8, <2>1, <2>2 DEF k
    <3> QED
      BY <1>4, <2>2, <3>3, <3>4 DEF k, y
  <2>3. CASE ~(EffectiveK = 0 /\ args.topK > 0)
    <3>1. LastKept = p
      BY <1>8, <2>3 DEF LastKept
    <3>2. ~(EffectiveK = 0 /\ args.topK \in 1 .. p - 1)
      BY <2>1, <2>3
    <3> QED
      BY <1>4, <3>1, <3>2
  <2> QED
    BY <2>2, <2>3
<1>10. ASSUME ~Sorted(s) PROVE Cut(s, t) = Len(s)
  <2>1. p = n
    BY <1>3, <1>10 DEF p
  <2> QED
    BY <1>3, <1>4, <1>10, <2>1 DEF n
<1> QED
  BY <1>9, <1>10

LEMMA NaiveKept ==
  ASSUME SamplerInv
  PROVE  KeptIsNaive
<1> SUFFICES ASSUME phase = "draw"
             PROVE  LET kept == [j \in DOMAIN probs |-> probs[j].val]
                    IN  /\ \A j, k \in DOMAIN probs :
                             probs[j].id = probs[k].id => j = k
                        /\ \A j \in DOMAIN probs :
                             kept[j] = Weight(Below(probs[j].id))
                        /\ Counts(kept) = NaiveMasses
  BY DEF KeptIsNaive
<1> DEFINE kept == [j \in DOMAIN probs |-> probs[j].val]
<1>1. InputInv /\ MaxInv /\ Sampling
  BY DEF SamplerInv, Sampling
<1>2. PICK s, t : Ranked(s, t) /\ probs = SubSeq(s, 1, Cut(s, t))
  BY DEF SamplerInv, DrawInv
<1>3. Lists(s, Eligible, Weights) /\ Best(s, Eligible, Weights)
  BY <1>2 DEF Ranked
<1> DEFINE c == Cut(s, t)
           n == Len(s)
<1>4. n \in Nat \ {0} /\ c \in 1 .. n
  BY <1>1, <1>3, ListsFacts, CutIs
<1>5. Lists(probs, Eligible, Weights) /\ Len(probs) = c
  BY <1>2, <1>3, <1>4, PrefixLists
<1>6. /\ DOMAIN probs = 1 .. c
      /\ \A j \in 1 .. c : probs[j].id \in Eligible
  BY <1>5, ListsFacts
<1>7. /\ \A j \in 1 .. c : probs[j].val = Weights[probs[j].id]
      /\ \A j, k \in 1 .. c : probs[j].id = probs[k].id => j = k
  BY <1>5 DEF Lists
<1>8. kept = Values(probs)
  BY <1>5, <1>6 DEF Values
<1>9. PICK o : /\ Lists(o, Eligible, Weights) /\ Best(o, Eligible, Weights)
               /\ Sorted(o) /\ Len(o) = Len(s) /\ Mass(o) = Mass(s)
               /\ Sorted(s) => o = s
               /\ ~Sorted(s) => Reorders(o, s)
  <2>1. CASE Sorted(s)
    BY <1>3, <2>1
  <2>2. CASE ~Sorted(s)
    BY <1>3, <2>2, SortedExists
  <2> QED
    BY <2>1, <2>2
<1>10. c = LastKept /\ (~Sorted(s) => c = n)
  BY <1>1, <1>2, <1>9, CutIsLast
<1>11. /\ First \in Seq(Int) /\ Len(First) = Places /\ n \in 1 .. Places
       /\ Places \in Nat
       /\ \A j \in 1 .. n : First[j] = o[j].val
  BY <1>1, <1>2, <1>9, RankedIsFirst
<1> HIDE DEF c, n
<1>12. SubSeq(First, 1, c) = [j \in 1 .. c |-> o[j].val]
  <2> DEFINE a == SubSeq(First, 1, c)
  <2>1. c \in 0 .. Len(First) /\ \A j \in 1 .. c : j \in 1 .. n
    BY <1>4, <1>11
  <2>2. a \in [1 .. c -> Int] /\ \A i \in 1 .. c : a[i] = First[i]
    BY <1>11, <2>1, PrefixIs
  <2> HIDE DEF a
  <2>3. a = [j \in 1 .. c |-> o[j].val]
    BY <1>11, <2>1, <2>2
  <2> QED
    BY <2>3 DEF a
<1>13. Counts(Values(probs)) = Counts(SubSeq(First, 1, c))
  <2>1. CASE Sorted(s)
    <3>1. Values(SubSeq(s, 1, c)) = [j \in 1 .. c |-> s[j].val]
      BY <1>3, <1>4, PrefixValues DEF n
    <3>2. Values(probs) = [j \in 1 .. c |-> o[j].val]
      BY <1>2, <1>9, <2>1, <3>1 DEF c
    <3> QED
      BY <1>12, <3>2
  <2>2. CASE ~Sorted(s)
    <3>1. c = n /\ Reorders(o, s) /\ Len(o) = n
      BY <1>9, <1>10, <2>2 DEF n
    <3>2. Values(probs) = Values(s)
      <4>1. Values(SubSeq(s, 1, c)) = [j \in 1 .. c |-> s[j].val]
        BY <1>3, <1>4, PrefixValues DEF n
      <4> QED
        BY <1>2, <3>1, <4>1 DEF c, n, Values
    <3>3. Counts(Values(o)) = Counts(Values(s))
      BY <1>3, <3>1, CountsReordered
    <3>4. Values(o) = SubSeq(First, 1, c)
      BY <1>12, <3>1 DEF Values
    <3> QED
      BY <3>2, <3>3, <3>4
  <2> QED
    BY <2>1, <2>2
<1>14. Counts(kept) = NaiveMasses
  BY <1>8, <1>10, <1>13, NaiveIs
<1>15. \A j \in 1 .. c : kept[j] = Weight(Below(probs[j].id))
  <2>1. \A u \in Eligible : Weights[u] = Weight(Below(u))
    BY <1>1, EligibleIs, WeightsAre
  <2> QED
    BY <1>6, <1>7, <2>1
<1> QED
  BY <1>6, <1>7, <1>14, <1>15

\* The shortcuts lose nothing, whatever the vocabulary, the logits, the
\* arguments and the limits that choose between them: the candidates drawn
\* from are distinct tokens with their own weights, and those weights are the
\* ones a sort of everything would keep.
THEOREM ShortcutsLoseNothing == SamplerSpec => []KeptIsNaive
BY SamplerInvariant, NaiveKept, PTL
=============================================================================
