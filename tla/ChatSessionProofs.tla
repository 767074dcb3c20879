-------------------------- MODULE ChatSessionProofs -------------------------
(***************************************************************************)
(* Proofs about ChatSession, for every number of layers and of starts and  *)
(* every length of a prompt, an answer and the repetition history: through *)
(* signals, crashes, write errors, torn and damaged files all layers hold  *)
(* the same conversation, the repetition history is its newest end and a   *)
(* clean exit leaves a file that restores the final state.                 *)
(***************************************************************************)
EXTENDS ChatSession, WorkRangeProofs, SequenceTheorems

-----------------------------------------------------------------------------
(* Flattened sequences.                                                    *)

\* The prefixes that FlattenSeq joins one by one.
Joins(f, seqs, T) ==
  /\ f \in [1 .. Len(seqs) -> Seq(T)]
  /\ f[1] = seqs[1]
  /\ \A i \in 2 .. Len(seqs) : f[i] = f[i - 1] \o seqs[i]

LEMMA FlattenIs ==
  ASSUME NEW T, NEW seqs \in Seq(Seq(T)), seqs # <<>>
  PROVE  \E f : Joins(f, seqs, T) /\ FlattenSeq(seqs) = f[Len(seqs)]
<1> DEFINE n == Len(seqs)
           D == 1 .. n
           Plus(v, i) == v \o seqs[i]
           Eq(f) == f = [i \in D |-> IF i = 1 THEN seqs[i] ELSE Plus(f[i - 1], i)]
           At(i) == IF i \in D THEN seqs[i] ELSE <<>>
           S == [k \in Nat |-> [v \in Seq(T) |-> v \o At(k + 2)]]
<1>1. n \in Nat \ {0} /\ seqs \in [D -> Seq(T)]
  BY EmptySeq, LenProperties
<1>2. FlattenSeq(seqs) = (CHOOSE f : Eq(f))[n]
  BY <1>1 DEF FlattenSeq
<1> HIDE DEF n
<1>3. \A i \in Nat : At(i) \in Seq(T)
  BY <1>1, EmptySeq
<1>4. S \in [Nat -> [Seq(T) -> Seq(T)]]
  <2> HIDE DEF At
  <2>1. ASSUME NEW k \in Nat, NEW v \in Seq(T) PROVE v \o At(k + 2) \in Seq(T)
    <3>1. At(k + 2) \in Seq(T)
      BY <1>3
    <3> QED
      BY <3>1, ConcatProperties
  <2> QED
    BY <2>1
<1>5. At(1) \in Seq(T) /\ At(1) = seqs[1]
  BY <1>1, <1>3
<1>6. PICK g : Follows(g, Seq(T), At(1), S)
  <2> HIDE DEF S, At
  <2> QED
    BY <1>4, <1>5, Recursion
<1> DEFINE h == [i \in D |-> g[i - 1]]
<1>7. h \in [D -> Seq(T)] /\ h[1] = seqs[1]
  BY <1>1, <1>5, <1>6 DEF Follows
<1>8. ASSUME NEW i \in 2 .. n PROVE h[i] = h[i - 1] \o seqs[i]
  <2>1. /\ i - 2 \in Nat /\ (i - 2) + 1 = i - 1
        /\ (i - 1) - 1 = i - 2 /\ (i - 2) + 2 = i
        /\ i \in D /\ i - 1 \in D
    BY <1>1
  <2>2. g[i - 1] = S[i - 2][g[i - 2]] /\ g[i - 2] \in Seq(T)
    BY <1>6, <2>1 DEF Follows
  <2>3. g[i - 1] = g[i - 2] \o At(i)
    <3> HIDE DEF At
    <3> QED
      BY <2>1, <2>2
  <2> QED
    BY <2>1, <2>3
<1> HIDE DEF h
<1>9. Eq(h)
  <2>1. ASSUME NEW i \in D
        PROVE  h[i] = IF i = 1 THEN seqs[i] ELSE Plus(h[i - 1], i)
    <3>1. CASE i = 1
      BY <1>7, <3>1
    <3>2. CASE i # 1
      <4>1. i \in 2 .. n
        BY <1>1, <3>2
      <4> QED
        BY <1>8, <3>2, <4>1
    <3> QED
      BY <3>1, <3>2
  <2> HIDE DEF Plus
  <2> QED
    BY <1>7, <2>1
<1>10. PICK f : f = (CHOOSE e : Eq(e)) /\ Eq(f)
  <2> HIDE DEF Eq
  <2> QED
    BY <1>9
<1>11. f = h
  <2>7. \A i \in 2 .. n : h[i] = Plus(h[i - 1], i)
    BY <1>8
  <2> HIDE DEF Plus
  <2>1. \A i \in D : f[i] = IF i = 1 THEN seqs[i] ELSE Plus(f[i - 1], i)
    BY <1>10
  <2> DEFINE Same == {k \in Nat : k + 1 \in D => f[k + 1] = h[k + 1]}
  <2>2. 0 \in Same
    BY <1>1, <1>7, <2>1
  <2>3. ASSUME NEW k \in Nat, k \in Same PROVE k + 1 \in Same
    <3>1. CASE (k + 1) + 1 \in D
      <4>1. /\ k + 1 \in D /\ (k + 1) + 1 \in 2 .. n /\ ((k + 1) + 1) - 1 = k + 1
            /\ (k + 1) + 1 # 1
        BY <1>1, <3>1
      <4> QED
        BY <2>7, <2>1, <2>3, <3>1, <4>1
    <3> QED
      BY <3>1
  <2>4. Nat \subseteq Same
    <3> HIDE DEF Same
    <3> QED
      BY <2>2, <2>3, SetInduction
  <2>5. ASSUME NEW i \in D PROVE f[i] = h[i]
    <3>1. i - 1 \in Nat /\ (i - 1) + 1 = i
      BY <1>1
    <3> QED
      BY <2>4, <3>1
  <2>6. DOMAIN f = D /\ f = [i \in D |-> f[i]]
    BY <1>10
  <2> QED
    BY <1>7, <2>5, <2>6
<1>12. Joins(h, seqs, T)
  BY <1>7, <1>8 DEF Joins, n
<1> HIDE DEF Eq
<1> QED
  BY <1>2, <1>10, <1>11, <1>12 DEF n

LEMMA FlattenEmpty == FlattenSeq(<<>>) = <<>>
  BY EmptySeq DEF FlattenSeq

LEMMA FlattenAppend ==
  ASSUME NEW T, NEW seqs \in Seq(Seq(T)), NEW x \in Seq(T)
  PROVE  /\ FlattenSeq(seqs) \in Seq(T)
         /\ FlattenSeq(Append(seqs, x)) = FlattenSeq(seqs) \o x
<1> DEFINE t == Append(seqs, x)
           n == Len(seqs)
<1>1. /\ t \in Seq(Seq(T)) /\ t # <<>> /\ Len(t) = n + 1 /\ t[n + 1] = x
      /\ \A i \in 1 .. n : t[i] = seqs[i]
      /\ n \in Nat
  BY AppendProperties, LenProperties
<1>2. PICK f : Joins(f, t, T) /\ FlattenSeq(t) = f[n + 1]
  BY <1>1, FlattenIs
<1> HIDE DEF t
<1>3. CASE seqs = <<>>
  <2>1. n = 0 /\ FlattenSeq(seqs) = <<>> /\ <<>> \in Seq(T)
    BY <1>3, EmptySeq, FlattenEmpty
  <2>2. FlattenSeq(t) = x
    <3> HIDE DEF n
    <3> QED
      BY <1>1, <1>2, <2>1 DEF Joins
  <2> QED
    BY <2>1, <2>2, ConcatEmptySeq DEF t
<1>4. CASE seqs # <<>>
  <2>1. PICK g : Joins(g, seqs, T) /\ FlattenSeq(seqs) = g[n]
    BY <1>4, FlattenIs
  <2>2. n \in Nat \ {0}
    BY <1>4, EmptySeq
  <2>3. /\ f[1] = t[1] /\ \A i \in 2 .. n + 1 : f[i] = f[i - 1] \o t[i]
        /\ g[1] = seqs[1] /\ \A i \in 2 .. n : g[i] = g[i - 1] \o seqs[i]
        /\ g \in [1 .. n -> Seq(T)]
    BY <1>1, <1>2, <2>1 DEF Joins
  <2> DEFINE Plus(v, i) == v \o seqs[i]
  <2>10. /\ \A i \in 2 .. n : f[i] = Plus(f[i - 1], i) /\ g[i] = Plus(g[i - 1], i)
        /\ f[1] = g[1]
    <3>1. ASSUME NEW i \in 2 .. n PROVE i \in 1 .. n /\ i \in 2 .. n + 1
      <4> HIDE DEF n
      <4> QED
        BY <2>2
    <3>2. 1 \in 1 .. n
      <4> HIDE DEF n
      <4> QED
        BY <2>2
    <3> QED
      BY <1>1, <2>3, <3>1, <3>2
  <2> HIDE DEF n, Plus
  <2> DEFINE Same == {k \in Nat : k + 1 \in 1 .. n => f[k + 1] = g[k + 1]}
  <2>4. 0 \in Same
    BY <2>2, <2>10
  <2>5. ASSUME NEW k \in Nat, k \in Same PROVE k + 1 \in Same
    <3>1. CASE (k + 1) + 1 \in 1 .. n
      <4>1. /\ k + 1 \in 1 .. n /\ (k + 1) + 1 \in 2 .. n
            /\ (k + 1) + 1 \in 2 .. n + 1 /\ ((k + 1) + 1) - 1 = k + 1
        BY <2>2, <3>1
      <4> QED
        BY <2>10, <2>5, <3>1, <4>1
    <3> QED
      BY <3>1
  <2>6. Nat \subseteq Same
    <3> HIDE DEF Same
    <3> QED
      BY <2>4, <2>5, SetInduction
  <2>7. f[n] = g[n]
    <3>1. n - 1 \in Nat /\ (n - 1) + 1 = n /\ n \in 1 .. n
      BY <2>2
    <3> QED
      BY <2>6, <3>1
  <2>8. n + 1 \in 2 .. n + 1 /\ (n + 1) - 1 = n /\ n \in 1 .. n
    BY <2>2
  <2>9. f[n + 1] = g[n] \o x /\ g[n] \in Seq(T)
    BY <1>1, <2>3, <2>7, <2>8
  <2> QED
    BY <1>2, <2>1, <2>9 DEF t, n
<1> QED
  BY <1>3, <1>4

-----------------------------------------------------------------------------
(* The invariant.                                                          *)

Tok  == 0 .. MaxClock
Word == 1 .. MaxClock
Turn == [math : BOOLEAN, toks : Seq(Word)]

TypeInv ==
  /\ pc \in {"down", "load", "ready", "read", "gen", "turned", "open", "save",
             "failed", "exited"}
  /\ pipe \in BOOLEAN /\ flag \in BOOLEAN /\ leaving \in BOOLEAN
  /\ ssm \in [Layer -> Seq(Tok)]
  /\ hist \in Seq(Word)
  /\ disk \in [head : BOOLEAN, body : Seq(Seq(Tok) \cup {BadPos})]
  /\ Len(disk.body) <= NLayers
  /\ at \in 0 .. NLayers /\ gen \in 0 .. MaxGen
  /\ talk \in Seq(Turn) /\ kept \in Seq(Turn) /\ from \in 0 .. Len(talk)
  /\ clock \in 0 .. MaxClock /\ starts \in 0 .. MaxStarts

\* s is what the turns tk may have left in a layer.
Left(s, tk) ==
  \E f \in Seq(Seq(Tok)) :
    /\ Len(f) = Len(tk) /\ \A j \in 1 .. Len(tk) : f[j] \in Absorbed(tk[j])
    /\ s = FlattenSeq(f)

\* While the model answers, all but the last token shown has been absorbed.
Answering(s, tk) ==
  \E tk0 \in Seq(Turn), t \in Turn, r \in Seq(Tok) :
    /\ tk = Append(tk0, t) /\ ~t.math /\ t.toks # <<>> /\ from <= Len(tk0)
    /\ Left(r, tk0) /\ s = r \o Front(t.toks)

StateInv ==
  /\ pc \notin {"load", "down"} =>
       (\A l \in Layer : ssm[l] = ssm[1]) /\ Left(ssm[1], talk)
  /\ pc = "gen" => Answering(ssm[1], talk)

\* A file with a good header: the damaged one of the first start, or layers
\* that hold one conversation, even if some are missing.
Damaged == Len(disk.body) = NLayers /\ disk.body[NLayers] = BadPos
Uniform == \A i \in 1 .. Len(disk.body) :
             disk.body[i] = disk.body[1] /\ Left(disk.body[i], kept)

FileInv ==
  /\ disk.head => Damaged \/ Uniform
  /\ pc = "save" => /\ disk.head /\ Len(disk.body) = at /\ kept = talk
                    /\ \A i \in 1 .. at : disk.body[i] = ssm[i]
  /\ ExitIsSaved

\* Half-way through a load.
LoadInv ==
  pc = "load" =>
    /\ talk = <<>> /\ hist = <<>> /\ from = 0
    /\ at = 0 => ssm = Zero
    /\ at > 0 => disk.head /\ at <= Len(disk.body)
    /\ \A i \in 1 .. at : ssm[i] = disk.body[i] /\ disk.body[i] # BadPos

\* What a turn shows the repetition history, and the turns since the start or
\* the reset.
Words(t) == IF t.math /\ ~HasTpl THEN <<>> ELSE t.toks
Told(tk, k) == FlattenSeq([j \in 1 .. Len(tk) - k |-> Words(tk[k + j])])

\* h is the newest end of s.
Newest(h, s) ==
  /\ Len(h) = IF Len(s) < HistoryMax THEN Len(s) ELSE HistoryMax
  /\ \A i \in 1 .. Len(h) : h[i] = s[Len(s) - Len(h) + i]

HistInv == Newest(hist, Told(talk, from))

IInv == TypeInv /\ StateInv /\ FileInv /\ LoadInv /\ HistInv

-----------------------------------------------------------------------------
(* What a turn leaves.                                                     *)

LEMMA FrontIs ==
  ASSUME NEW T, NEW s \in Seq(T)
  PROVE  /\ Front(s) \in Seq(T)
         /\ s # <<>> => Last(s) \in T /\ s = Front(s) \o <<Last(s)>>
         /\ \A x \in T : Front(s \o <<x>>) = s
<1>1. Front(s) \in Seq(T)
  <2>1. Len(s) \in Nat /\ \A i \in 1 .. Len(s) - 1 : s[i] \in T
    BY LenProperties
  <2> QED
    BY <2>1, SubSeqProperties DEF Front
<1>2. ASSUME s # <<>> PROVE Last(s) \in T /\ s = Front(s) \o <<Last(s)>>
  <2>1. Len(s) \in Nat \ {0} /\ 1 \in 1 .. Len(s) /\ Len(s) \in 1 .. Len(s)
    BY <1>2, EmptySeq
  <2>2. SubSeq(s, 1, Len(s)) = SubSeq(s, 1, Len(s) - 1) \o <<s[Len(s)]>>
    BY <2>1, SubSeqRecursiveSecond
  <2> QED
    BY <2>1, <2>2, SubSeqFull, ElementOfSeq DEF Front, Last
<1>3. ASSUME NEW x \in T PROVE Front(s \o <<x>>) = s
  <2> DEFINE u == s \o <<x>>
  <2>1. <<x>> \in Seq(T) /\ u = Append(s, x)
    BY AppendIsConcat
  <2>2. u \in Seq(T) /\ Len(u) = Len(s) + 1 /\ \A i \in 1 .. Len(s) : u[i] = s[i]
    BY <2>1, AppendProperties
  <2>3. Len(s) \in Nat
    BY LenProperties
  <2> HIDE DEF u
  <2> DEFINE n == Len(s)
             v == SubSeq(u, 1, n)
  <2>4. v \in Seq(T) /\ Len(v) = n /\ \A i \in 1 .. n : v[i] = s[i]
    <3>1. \A i \in 1 .. n : u[i] \in T
      BY <2>2, LenProperties
    <3>2. n \in Nat /\ 1 \in Int /\ n \in Int /\ n - 1 + 1 = n
          /\ (1 <= n \/ n = 0) /\ \A i \in 1 .. n : 1 + i - 1 = i
      BY <2>3
    <3>3. /\ v \in Seq(T) /\ Len(v) = IF 1 <= n THEN n - 1 + 1 ELSE 0
          /\ \A i \in 1 .. n - 1 + 1 : v[i] = u[1 + i - 1]
      <4> HIDE DEF n
      <4> QED
        BY <3>1, <3>2, SubSeqProperties
    <3> QED
      BY <2>2, <3>2, <3>3
  <2>5. v = s
    <3> HIDE DEF v
    <3> QED
      BY <2>4, SeqEqual
  <2>6. Len(u) - 1 = Len(s)
    BY <2>2, <2>3
  <2> QED
    BY <2>5, <2>6 DEF Front, u
<1> QED
  BY <1>1, <1>2, <1>3

LEMMA WordsAreToks == Seq(Word) \subseteq Seq(Tok)
<1>1. Word \subseteq Tok
  BY BoundsAssumption DEF Word, Tok
<1> QED
  BY <1>1, SeqMonotonic

LEMMA AbsorbedType ==
  ASSUME NEW t \in Turn
  PROVE  Absorbed(t) \subseteq Seq(Tok) /\ Words(t) \in Seq(Word)
<1>1. t.toks \in Seq(Word) /\ <<>> \in Seq(Word)
  BY EmptySeq DEF Turn
<1>2. Front(t.toks) \in Seq(Word)
  BY <1>1, FrontIs
<1> QED
  BY <1>1, <1>2, WordsAreToks DEF Absorbed, Words

LEMMA LeftEmpty == Left(<<>>, <<>>)
<1>1. <<>> \in Seq(Seq(Tok)) /\ Len(<<>>) = 0
  BY EmptySeq
<1>2. \A j \in 1 .. Len(<<>>) : FALSE
  BY <1>1
<1> DEFINE e == <<>>
<1> HIDE DEF e
<1>3. Left(e, e)
  BY <1>1, <1>2, FlattenEmpty, Zenon DEF Left, e
<1> QED
  BY <1>3 DEF e

LEMMA LeftAppend ==
  ASSUME NEW s, NEW tk \in Seq(Turn), Left(s, tk), NEW t \in Turn,
         NEW a \in Absorbed(t)
  PROVE  Left(s \o a, Append(tk, t))
<1>1. PICK f \in Seq(Seq(Tok)) :
        /\ Len(f) = Len(tk) /\ \A j \in 1 .. Len(tk) : f[j] \in Absorbed(tk[j])
        /\ s = FlattenSeq(f)
  BY DEF Left
<1>2. a \in Seq(Tok) /\ Len(tk) \in Nat
  BY AbsorbedType, LenProperties
<1> DEFINE g == Append(f, a)
           u == Append(tk, t)
<1>3. /\ g \in Seq(Seq(Tok)) /\ Len(g) = Len(f) + 1 /\ g[Len(f) + 1] = a
      /\ \A j \in 1 .. Len(f) : g[j] = f[j]
      /\ Len(u) = Len(tk) + 1 /\ u[Len(tk) + 1] = t
      /\ \A j \in 1 .. Len(tk) : u[j] = tk[j]
  BY <1>2, AppendProperties
<1>4. FlattenSeq(g) = s \o a
  BY <1>1, <1>2, FlattenAppend
<1> HIDE DEF g, u
<1>5. ASSUME NEW j \in 1 .. Len(u) PROVE g[j] \in Absorbed(u[j])
  <2>1. CASE j = Len(tk) + 1
    BY <1>1, <1>3, <2>1
  <2>2. CASE j # Len(tk) + 1
    <3>1. j \in 1 .. Len(tk) /\ j \in 1 .. Len(f)
      BY <1>1, <1>2, <1>3, <2>2
    <3>2. g[j] = f[j] /\ u[j] = tk[j]
      BY <1>3, <3>1
    <3> QED
      BY <1>1, <3>1, <3>2, Zenon
  <2> QED
    BY <2>1, <2>2
<1> QED
  BY <1>1, <1>3, <1>4, <1>5 DEF Left, u

\* The tokens as they are numbered.
LEMMA FreshIs ==
  ASSUME TypeInv, NEW n \in Nat, clock + n <= MaxClock
  PROVE  /\ Fresh(n) \in Seq(Word) /\ Len(Fresh(n)) = n
         /\ Front(Fresh(n)) = SubSeq(Fresh(n), 1, n - 1)
         /\ n = 1 => Fresh(n) = <<clock + 1>> /\ clock + 1 \in Word
<1>1. \A j \in 1 .. n : clock + j \in Word
  BY BoundsAssumption DEF TypeInv, Word
<1>2. Fresh(n) \in [1 .. n -> Word]
  BY <1>1 DEF Fresh
<1>3. Fresh(n) \in Seq(Word) /\ Len(Fresh(n)) = n
  BY <1>2, SeqDef
<1>4. n = 1 => Fresh(n) = <<clock + 1>> /\ clock + 1 \in Word
  BY <1>1 DEF Fresh
<1> QED
  BY <1>3, <1>4 DEF Front

-----------------------------------------------------------------------------
(* What the repetition history is told.                                    *)

Shown(tk, k) == [j \in 1 .. Len(tk) - k |-> Words(tk[k + j])]

LEMMA ShownIs ==
  ASSUME NEW tk \in Seq(Turn), NEW k \in 0 .. Len(tk)
  PROVE  /\ Shown(tk, k) \in Seq(Seq(Word)) /\ Len(Shown(tk, k)) = Len(tk) - k
         /\ Told(tk, k) = FlattenSeq(Shown(tk, k)) /\ Told(tk, k) \in Seq(Word)
<1> DEFINE n == Len(tk) - k
<1>1. n \in Nat /\ \A j \in 1 .. n : k + j \in 1 .. Len(tk)
  BY LenProperties
<1>2. \A j \in 1 .. n : tk[k + j] \in Turn
  BY <1>1, ElementOfSeq
<1>3. \A j \in 1 .. n : Words(tk[k + j]) \in Seq(Word)
  BY <1>2, AbsorbedType
<1>4. Shown(tk, k) \in [1 .. n -> Seq(Word)]
  BY <1>3 DEF Shown
<1>5. Shown(tk, k) \in Seq(Seq(Word)) /\ Len(Shown(tk, k)) = n
  <2> HIDE DEF n
  <2> QED
    BY <1>1, <1>4, SeqDef
<1>6. Told(tk, k) = FlattenSeq(Shown(tk, k))
  BY DEF Told, Shown
<1>7. <<>> \in Seq(Word)
  BY EmptySeq
<1> QED
  BY <1>5, <1>6, <1>7, FlattenAppend

LEMMA ToldNone ==
  ASSUME NEW tk \in Seq(Turn)
  PROVE  Told(tk, Len(tk)) = <<>>
<1>1. Len(tk) \in 0 .. Len(tk) /\ Len(tk) - Len(tk) = 0
  BY LenProperties
<1>2. Shown(tk, Len(tk)) = <<>>
  BY <1>1, ShownIs, EmptySeq
<1> QED
  BY <1>1, <1>2, ShownIs, FlattenEmpty

LEMMA ToldAppend ==
  ASSUME NEW tk \in Seq(Turn), NEW k \in 0 .. Len(tk), NEW t \in Turn
  PROVE  Told(Append(tk, t), k) = Told(tk, k) \o Words(t)
<1> DEFINE u == Append(tk, t)
           g == Append(Shown(tk, k), Words(t))
           n == Len(tk) - k
<1>1. /\ u \in Seq(Turn) /\ Len(u) = Len(tk) + 1 /\ u[Len(tk) + 1] = t
      /\ \A j \in 1 .. Len(tk) : u[j] = tk[j]
      /\ Len(tk) \in Nat
  BY AppendProperties, LenProperties
<1>2. Words(t) \in Seq(Word)
  BY AbsorbedType
<1>3. Shown(tk, k) \in Seq(Seq(Word)) /\ Len(Shown(tk, k)) = n
  BY ShownIs
<1>4. /\ g \in Seq(Seq(Word)) /\ Len(g) = n + 1 /\ g[n + 1] = Words(t)
      /\ \A j \in 1 .. n : g[j] = Shown(tk, k)[j]
  BY <1>2, <1>3, AppendProperties
<1>5. k \in 0 .. Len(u)
  BY <1>1
<1>6. Shown(u, k) \in Seq(Seq(Word)) /\ Len(Shown(u, k)) = n + 1
  <2>1. Len(u) - k = n + 1
    BY <1>1
  <2> QED
    BY <1>1, <1>5, <2>1, ShownIs
<1> HIDE DEF u, g
<1>7. ASSUME NEW j \in 1 .. n + 1 PROVE Shown(u, k)[j] = g[j]
  <2>1. Shown(u, k)[j] = Words(u[k + j])
    BY <1>1 DEF Shown
  <2>2. CASE j = n + 1
    BY <1>1, <1>4, <2>1, <2>2
  <2>3. CASE j # n + 1
    <3>1. j \in 1 .. n /\ k + j \in 1 .. Len(tk)
      BY <1>1, <2>3
    <3>2. Shown(tk, k)[j] = Words(tk[k + j])
      BY <3>1 DEF Shown
    <3> QED
      BY <1>1, <1>4, <2>1, <3>1, <3>2
  <2> QED
    BY <2>2, <2>3
<1>8. Shown(u, k) = g
  <2> HIDE DEF n
  <2> QED
    BY <1>4, <1>6, <1>7, SeqEqual
<1>9. Told(u, k) = FlattenSeq(g) /\ Told(tk, k) = FlattenSeq(Shown(tk, k))
  BY <1>1, <1>5, <1>8, ShownIs
<1>10. FlattenSeq(g) = FlattenSeq(Shown(tk, k)) \o Words(t)
  BY <1>2, <1>3, FlattenAppend DEF g
<1> QED
  BY <1>9, <1>10 DEF u

\* Pushing onto the history keeps the newest end.
LEMMA PushedNewest ==
  ASSUME NEW h \in Seq(Word), NEW s \in Seq(Word), NEW a \in Seq(Word),
         Newest(h, s)
  PROVE  /\ Pushed(h, a) \in Seq(Word) /\ Newest(Pushed(h, a), s \o a)
<1> DEFINE all == h \o a
           e == s \o a
           l == Len(h)
           m == Len(s)
           n == Len(a)
           p == Pushed(h, a)
<1>1. l \in Nat /\ m \in Nat /\ n \in Nat /\ HistoryMax \in Nat \ {0}
  BY LenProperties, BoundsAssumption
<1>2. /\ l = IF m < HistoryMax THEN m ELSE HistoryMax
      /\ \A i \in 1 .. l : h[i] = s[m - l + i]
  BY DEF Newest
<1>3. /\ all \in Seq(Word) /\ Len(all) = l + n
      /\ \A i \in 1 .. l + n : all[i] = IF i <= l THEN h[i] ELSE a[i - l]
  BY ConcatProperties
<1>4. /\ e \in Seq(Word) /\ Len(e) = m + n
      /\ \A i \in 1 .. m + n : e[i] = IF i <= m THEN s[i] ELSE a[i - m]
  BY ConcatProperties
<1>5. p = IF Len(all) <= HistoryMax THEN all
          ELSE SubSeq(all, Len(all) - HistoryMax + 1, Len(all))
  BY DEF Pushed
<1> HIDE DEF all, e, l, m, n, p
<1>6. ASSUME NEW i \in 1 .. l + n PROVE all[i] = e[m - l + i]
  <2>1. m - l + i \in 1 .. m + n /\ (m - l + i) - m = i - l
        /\ (i <= l <=> m - l + i <= m) /\ (i <= l => i \in 1 .. l)
    BY <1>1, <1>2
  <2> QED
    BY <1>2, <1>3, <1>4, <2>1
<1>7. CASE l + n <= HistoryMax
  <2>1. p = all
    BY <1>3, <1>5, <1>7
  <2>2. l + n = IF m + n < HistoryMax THEN m + n ELSE HistoryMax
    BY <1>1, <1>2, <1>7
  <2>3. m + n - (l + n) = m - l
    BY <1>1
  <2>4. Len(p) = l + n /\ Len(e) = m + n
    BY <1>3, <1>4, <2>1
  <2>5. \A i \in 1 .. l + n : p[i] = e[m + n - (l + n) + i]
    <3>1. m + n - (l + n) = m - l
      BY <2>3
    <3> QED
      BY <1>6, <2>1, <3>1
  <2>6. Newest(p, e)
    <3>1. \A i \in 1 .. Len(p) : p[i] = e[Len(e) - Len(p) + i]
      BY <1>1, <2>4, <2>5
    <3>2. Len(p) = IF Len(e) < HistoryMax THEN Len(e) ELSE HistoryMax
      BY <2>2, <2>4
    <3> QED
      BY <3>1, <3>2, Zenon DEF Newest
  <2> QED
    BY <1>3, <2>1, <2>6 DEF p, e
<1>8. CASE ~(l + n <= HistoryMax)
  <2> DEFINE hi == l + n
             lo == hi - HistoryMax + 1
             q  == SubSeq(all, lo, hi)
  <2>1. p = q /\ Len(all) = hi
    BY <1>1, <1>3, <1>5, <1>8
  <2>2. /\ lo \in Int /\ hi \in Int /\ lo <= hi /\ hi - lo + 1 = HistoryMax
        /\ lo \in 1 .. hi /\ ~(m + n < HistoryMax)
    BY <1>1, <1>2, <1>8
  <2>3. ASSUME NEW i \in 1 .. HistoryMax
        PROVE  /\ lo + i - 1 \in 1 .. hi
               /\ m - l + (lo + i - 1) = m + n - HistoryMax + i
    BY <1>1, <1>8
  <2>4. \A i \in 1 .. hi : all[i] = e[m - l + i]
    BY <1>6
  <2> HIDE DEF lo, hi
  <2>5. \A i \in lo .. hi : all[i] \in Word
    <3>1. \A i \in lo .. hi : i \in 1 .. Len(all)
      BY <2>1, <2>2
    <3> QED
      BY <1>3, <3>1, ElementOfSeq
  <2>6. /\ q \in Seq(Word) /\ Len(q) = IF lo <= hi THEN hi - lo + 1 ELSE 0
        /\ \A i \in 1 .. hi - lo + 1 : q[i] = all[lo + i - 1]
    BY <2>2, <2>5, SubSeqProperties
  <2> HIDE DEF q
  <2>7. Len(q) = HistoryMax
    BY <2>2, <2>6
  <2>8. \A i \in 1 .. HistoryMax : q[i] = e[m + n - HistoryMax + i]
    BY <2>2, <2>3, <2>4, <2>6
  <2>9. Newest(p, e)
    <3>1. Len(p) = HistoryMax /\ Len(e) = m + n
      BY <1>4, <2>1, <2>7
    <3>2. \A i \in 1 .. Len(p) : p[i] = e[Len(e) - Len(p) + i]
      BY <1>1, <2>1, <2>8, <3>1
    <3>3. Len(p) = IF Len(e) < HistoryMax THEN Len(e) ELSE HistoryMax
      BY <2>2, <3>1
    <3> QED
      BY <3>2, <3>3, Zenon DEF Newest
  <2> QED
    BY <2>1, <2>6, <2>9 DEF p, e
<1> QED
  BY <1>7, <1>8

\* The newest end, as SequencesExt says it.
LEMMA NewestIsSuffix ==
  ASSUME NEW h \in Seq(Word), NEW s \in Seq(Word), Newest(h, s)
  PROVE  IsSuffix(h, s)
<1> DEFINE l == Len(h)
           m == Len(s)
           x == Reverse(h)
           y == Reverse(s)
<1>1. l \in Nat /\ m \in Nat /\ l <= m
  BY LenProperties, BoundsAssumption DEF Newest
<1>2. \A i \in 1 .. l : h[i] = s[m - l + i] /\ h[i] \in Word
  BY ElementOfSeq DEF Newest
<1>3. \A i \in 1 .. m : s[i] \in Word
  BY ElementOfSeq
<1>4. /\ x = [i \in 1 .. l |-> h[(l - i) + 1]]
      /\ y = [i \in 1 .. m |-> s[(m - i) + 1]]
  BY DEF Reverse
<1> HIDE DEF l, m, x, y
<1>5. x \in Seq(Word) /\ Len(x) = l
  <2>1. \A i \in 1 .. l : (l - i) + 1 \in 1 .. l
    BY <1>1
  <2>2. x \in [1 .. l -> Word]
    BY <1>2, <1>4, <2>1
  <2> QED
    BY <1>1, <2>2, SeqDef
<1>6. y \in Seq(Word) /\ Len(y) = m
  <2>1. \A i \in 1 .. m : (m - i) + 1 \in 1 .. m
    BY <1>1
  <2>2. y \in [1 .. m -> Word]
    BY <1>3, <1>4, <2>1
  <2> QED
    BY <1>1, <2>2, SeqDef
<1>7. ASSUME NEW i \in 1 .. l PROVE x[i] = y[i] /\ x[i] \in Word
  <2>1. /\ i \in 1 .. m /\ (l - i) + 1 \in 1 .. l
        /\ m - l + ((l - i) + 1) = (m - i) + 1
    BY <1>1
  <2>2. x[i] = h[(l - i) + 1] /\ y[i] = s[(m - i) + 1]
    BY <1>4, <2>1
  <2> QED
    BY <1>2, <2>1, <2>2
<1>8. SubSeq(x, 1, l) = SubSeq(y, 1, l)
  <2> DEFINE v == SubSeq(x, 1, l)
             w == SubSeq(y, 1, l)
  <2>1. l \in Int /\ 1 \in Int /\ (\A i \in 1 .. l : x[i] \in Word /\ y[i] \in Word)
        /\ l - 1 + 1 = l /\ \A i \in 1 .. l : 1 + i - 1 = i
    BY <1>1, <1>7
  <2>2. /\ v \in Seq(Word) /\ Len(v) = IF 1 <= l THEN l - 1 + 1 ELSE 0
        /\ \A i \in 1 .. l - 1 + 1 : v[i] = x[1 + i - 1]
    BY <2>1, SubSeqProperties
  <2>3. /\ w \in Seq(Word) /\ Len(w) = IF 1 <= l THEN l - 1 + 1 ELSE 0
        /\ \A i \in 1 .. l - 1 + 1 : w[i] = y[1 + i - 1]
    BY <2>1, SubSeqProperties
  <2> HIDE DEF v, w
  <2>4. Len(v) = l /\ Len(w) = l /\ \A i \in 1 .. l : v[i] = w[i]
    BY <1>1, <1>7, <2>1, <2>2, <2>3
  <2> QED
    BY <2>2, <2>3, <2>4, SeqEqual DEF v, w
<1> QED
  BY <1>1, <1>5, <1>6, <1>8 DEF IsSuffix, IsPrefix, x, y

-----------------------------------------------------------------------------
(* The initial states and the types.                                       *)

LEMMA InitInv == Init => IInv
<1> SUFFICES ASSUME Init PROVE IInv
  OBVIOUS
<1> USE BoundsAssumption DEF Init
<1>1. <<>> \in Seq(Tok) /\ <<>> \in Seq(Word) /\ <<>> \in Seq(Turn) /\ Len(<<>>) = 0
  BY EmptySeq
<1>2. ASSUME disk = NoFile
      PROVE  /\ disk \in [head : BOOLEAN, body : Seq(Seq(Tok) \cup {BadPos})]
             /\ Len(disk.body) <= NLayers /\ ~disk.head
  <2>1. <<>> \in Seq(Seq(Tok) \cup {BadPos})
    BY EmptySeq
  <2> QED
    BY <1>1, <1>2, <2>1 DEF NoFile
<1>3. ASSUME disk # NoFile
      PROVE  /\ disk \in [head : BOOLEAN, body : Seq(Seq(Tok) \cup {BadPos})]
             /\ Len(disk.body) <= NLayers /\ Damaged
  <2> DEFINE B == [l \in Layer |-> IF l = NLayers THEN BadPos ELSE <<0>>]
  <2>1. disk = [head |-> TRUE, body |-> B]
    BY <1>3
  <2>2. <<0>> \in Seq(Tok)
    BY DEF Tok
  <2>3. B \in [1 .. NLayers -> Seq(Tok) \cup {BadPos}] /\ B[NLayers] = BadPos
    BY <2>2 DEF Layer
  <2> HIDE DEF B
  <2>4. B \in Seq(Seq(Tok) \cup {BadPos}) /\ Len(B) = NLayers
    BY <2>3, SeqDef
  <2> QED
    BY <2>1, <2>3, <2>4 DEF Damaged
<1>4. Zero \in [Layer -> Seq(Tok)]
  BY <1>1 DEF Zero
<1>5. TypeInv
  <2>1. /\ disk \in [head : BOOLEAN, body : Seq(Seq(Tok) \cup {BadPos})]
        /\ Len(disk.body) <= NLayers
    BY <1>2, <1>3
  <2>2. /\ pc = "down" /\ pipe = FALSE /\ flag = FALSE /\ leaving = FALSE
        /\ ssm = Zero /\ hist = <<>> /\ talk = <<>> /\ kept = <<>> /\ from = 0
        /\ at = 0 /\ gen = 0 /\ clock = 0 /\ starts = 0
    OBVIOUS
  <2> HIDE DEF Init
  <2>3. at \in 0 .. NLayers /\ gen \in 0 .. MaxGen /\ clock \in 0 .. MaxClock
        /\ starts \in 0 .. MaxStarts /\ from \in 0 .. Len(talk)
    BY <1>1, <2>2
  <2> QED
    BY <1>1, <1>4, <2>1, <2>2, <2>3 DEF TypeInv
<1>6. StateInv /\ LoadInv
  BY DEF StateInv, LoadInv
<1>7. FileInv
  BY <1>2, <1>3 DEF FileInv, ExitIsSaved
<1>8. HistInv
  <2>1. Told(talk, from) = <<>>
    <3>1. talk = <<>> /\ from = Len(talk) /\ talk \in Seq(Turn)
      BY <1>1
    <3> QED
      BY <3>1, ToldNone
  <2> QED
    BY <1>1, <2>1 DEF HistInv, Newest
<1> QED
  BY <1>5, <1>6, <1>7, <1>8 DEF IInv

\* What is left of a torn file is a beginning of it.
LEMMA TornIs ==
  ASSUME TypeInv, NEW d \in Torn(disk)
  PROVE  /\ d \in [head : BOOLEAN, body : Seq(Seq(Tok) \cup {BadPos})]
         /\ Len(d.body) <= Len(disk.body)
         /\ \A i \in 1 .. Len(d.body) : d.body[i] = disk.body[i]
<1> DEFINE B == Seq(Tok) \cup {BadPos}
           b == disk.body
<1>1. b \in Seq(B) /\ disk.head \in BOOLEAN /\ Len(b) \in Nat
  BY LenProperties DEF TypeInv
<1>2. CASE d = NoFile
  BY <1>1, <1>2, EmptySeq DEF NoFile
<1>3. CASE d # NoFile
  <2>1. PICK m \in 0 .. Len(b) : d = [disk EXCEPT !.body = SubSeq(@, 1, m)]
    BY <1>3 DEF Torn
  <2>2. d.head = disk.head /\ d.body = SubSeq(b, 1, m)
        /\ d = [head |-> disk.head, body |-> SubSeq(b, 1, m)]
    BY <2>1 DEF TypeInv
  <2> HIDE DEF b, B
  <2>3. m \in Int /\ 1 \in Int /\ m - 1 + 1 = m /\ (1 <= m \/ m = 0) /\ m <= Len(b)
        /\ \A i \in 1 .. m : 1 + i - 1 = i /\ i \in 1 .. Len(b)
    BY <1>1
  <2>4. \A i \in 1 .. m : b[i] \in B
    BY <1>1, <2>3, ElementOfSeq
  <2> DEFINE v == SubSeq(b, 1, m)
  <2>5. /\ v \in Seq(B) /\ Len(v) = IF 1 <= m THEN m - 1 + 1 ELSE 0
        /\ \A i \in 1 .. m - 1 + 1 : v[i] = b[1 + i - 1]
    BY <2>3, <2>4, SubSeqProperties
  <2> HIDE DEF v
  <2>6. v \in Seq(B) /\ Len(v) = m /\ \A i \in 1 .. m : v[i] = b[i]
    BY <2>3, <2>5
  <2>7. d.body = v /\ d = [head |-> disk.head, body |-> v]
    BY <2>2 DEF v
  <2> QED
    BY <1>1, <2>3, <2>6, <2>7 DEF b, B
<1> QED
  BY <1>2, <1>3

\* A turn's first tokens: the talk grows by it.
LEMMA TurnGrows ==
  ASSUME TypeInv, NEW n \in Nat, clock + n <= MaxClock, NEW b \in BOOLEAN,
         talk' = Append(talk, [math |-> b, toks |-> Fresh(n)])
  PROVE  /\ [math |-> b, toks |-> Fresh(n)] \in Turn
         /\ talk' \in Seq(Turn) /\ Len(talk') = Len(talk) + 1
         /\ Fresh(n) \in Seq(Word)
<1>1. [math |-> b, toks |-> Fresh(n)] \in Turn /\ Fresh(n) \in Seq(Word)
  BY FreshIs DEF Turn
<1> QED
  BY <1>1, AppendProperties DEF TypeInv

\* All layers absorb the same.
LEMMA AbsorbIs ==
  ASSUME TypeInv, NEW s \in Seq(Tok), Absorb(s)
  PROVE  /\ ssm' \in [Layer -> Seq(Tok)] /\ ssm'[1] = ssm[1] \o s
         /\ (\A l \in Layer : ssm[l] = ssm[1]) =>
               \A l \in Layer : ssm'[l] = ssm'[1]
<1>1. ssm' = [l \in Layer |-> ssm[l] \o s]
  BY DEF Absorb
<1>2. \A l \in Layer : ssm[l] \o s \in Seq(Tok)
  BY ConcatProperties DEF TypeInv
<1>3. 1 \in Layer
  BY BoundsAssumption DEF Layer
<1> QED
  BY <1>1, <1>2, <1>3

\* The turn being answered, opened up.
LEMMA AnswerGrows ==
  ASSUME TypeInv, StateInv, pc = "gen"
  PROVE  \E tk0 \in Seq(Turn), t \in Turn, r \in Seq(Tok) :
           /\ talk = Append(tk0, t) /\ ~t.math /\ t.toks # <<>>
           /\ from \in 0 .. Len(tk0)
           /\ Left(r, tk0) /\ ssm[1] = r \o Front(t.toks)
           /\ Len(talk) = Len(tk0) + 1 /\ Current = Last(t.toks)
           /\ \A w \in Turn :
                [talk EXCEPT ![Len(talk)] = w] = Append(tk0, w)
<1>1. PICK tk0 \in Seq(Turn), t \in Turn, r \in Seq(Tok) :
        /\ talk = Append(tk0, t) /\ ~t.math /\ t.toks # <<>> /\ from <= Len(tk0)
        /\ Left(r, tk0) /\ ssm[1] = r \o Front(t.toks)
  BY DEF StateInv, Answering
<1>2. /\ Len(talk) = Len(tk0) + 1 /\ talk[Len(tk0) + 1] = t
      /\ Len(tk0) \in Nat /\ talk \in Seq(Turn)
      /\ \A i \in 1 .. Len(tk0) : talk[i] = tk0[i]
  BY <1>1, AppendProperties, LenProperties
<1>3. Current = Last(t.toks)
  BY <1>2 DEF Current, Last
<1>4. ASSUME NEW w \in Turn
      PROVE  [talk EXCEPT ![Len(talk)] = w] = Append(tk0, w)
  <2> DEFINE k == Len(talk)
             u == [talk EXCEPT ![k] = w]
             v == Append(tk0, w)
  <2>1. k \in 1 .. Len(talk) /\ k = Len(tk0) + 1
    BY <1>2
  <2>2. /\ u \in Seq(Turn) /\ Len(u) = k
        /\ \A j \in 1 .. k : u[j] = IF j = k THEN w ELSE talk[j]
    BY <1>2, <2>1, ExceptSeq
  <2>3. /\ v \in Seq(Turn) /\ Len(v) = Len(tk0) + 1 /\ v[Len(tk0) + 1] = w
        /\ \A i \in 1 .. Len(tk0) : v[i] = tk0[i]
    BY AppendProperties
  <2> HIDE DEF u, v, k
  <2>4. \A j \in 1 .. k : u[j] = v[j]
    <3>1. ASSUME NEW j \in 1 .. k, j # k PROVE j \in 1 .. Len(tk0)
      BY <1>2, <2>1, <3>1
    <3> QED
      BY <1>2, <2>1, <2>2, <2>3, <3>1
  <2>5. u = v
    BY <2>1, <2>2, <2>3, <2>4, SeqEqual
  <2> QED
    BY <2>5 DEF u, v, k
<1>5. from \in 0 .. Len(tk0)
  BY <1>1, <1>2 DEF TypeInv
<1> QED
  BY <1>1, <1>2, <1>3, <1>4, <1>5

\* The model streams one more token, which was to be absorbed.
LEMMA TokenGrows ==
  ASSUME TypeInv, StateInv, GenToken
  PROVE  \E tk0 \in Seq(Turn), t, w \in Turn, r \in Seq(Tok) :
           /\ talk = Append(tk0, t) /\ talk' = Append(tk0, w)
           /\ from \in 0 .. Len(tk0)
           /\ Len(talk) = Len(tk0) + 1 /\ Len(talk') = Len(tk0) + 1
           /\ ~t.math /\ ~w.math
           /\ Left(r, tk0) /\ ssm[1] = r \o Front(t.toks)
           /\ <<Current>> \in Seq(Tok) /\ t.toks = Front(t.toks) \o <<Current>>
           /\ Fresh(1) \in Seq(Word) /\ w.toks = t.toks \o Fresh(1)
           /\ w.toks # <<>> /\ Front(w.toks) = t.toks
<1>1. PICK tk0 \in Seq(Turn), t \in Turn, r \in Seq(Tok) :
        /\ talk = Append(tk0, t) /\ ~t.math /\ t.toks # <<>>
        /\ from \in 0 .. Len(tk0)
        /\ Left(r, tk0) /\ ssm[1] = r \o Front(t.toks)
        /\ Len(talk) = Len(tk0) + 1 /\ Current = Last(t.toks)
        /\ \A w \in Turn : [talk EXCEPT ![Len(talk)] = w] = Append(tk0, w)
  BY AnswerGrows DEF GenToken
<1>2. t.toks \in Seq(Word) /\ t = [math |-> t.math, toks |-> t.toks]
  BY DEF Turn
<1>3. /\ Last(t.toks) \in Word /\ t.toks = Front(t.toks) \o <<Last(t.toks)>>
      /\ \A x \in Word : Front(t.toks \o <<x>>) = t.toks
  <2> DEFINE s == t.toks
  <2>1. s \in Seq(Word) /\ s # <<>>
    BY <1>1, <1>2
  <2> HIDE DEF s
  <2>2. /\ Last(s) \in Word /\ s = Front(s) \o <<Last(s)>>
        /\ \A x \in Word : Front(s \o <<x>>) = s
    BY <2>1, FrontIs
  <2> QED
    BY <2>2 DEF s
<1>4. Fresh(1) = <<clock + 1>> /\ clock + 1 \in Word /\ Fresh(1) \in Seq(Word)
  <2>1. clock + 1 <= MaxClock /\ 1 \in Nat
    <3>1. clock < MaxClock
      BY DEF GenToken
    <3>2. clock \in 0 .. MaxClock /\ MaxClock \in Nat
      BY BoundsAssumption DEF TypeInv
    <3> QED
      BY <3>1, <3>2
  <2> QED
    BY <2>1, FreshIs
<1> DEFINE u == t.toks \o Fresh(1)
           w == [math |-> FALSE, toks |-> u]
<1>5. u \in Seq(Word) /\ u # <<>> /\ Front(u) = t.toks
  <2>1. u \in Seq(Word) /\ Front(u) = t.toks
    BY <1>2, <1>3, <1>4, ConcatProperties
  <2>2. u # <<>>
    BY <1>1, <1>2, <1>4, ConcatEqualIffEmpty
  <2> QED
    BY <2>1, <2>2
<1> HIDE DEF u
<1>6. w \in Turn
  BY <1>5 DEF Turn
<1>7. talk' = Append(tk0, w)
  <2> DEFINE k == Len(talk)
  <2>1. k \in 1 .. Len(talk) /\ talk[k] = t /\ talk \in Seq(Turn)
    BY <1>1, AppendProperties, LenProperties
  <2>2. talk' = [talk EXCEPT ![k].toks = @ \o Fresh(1)]
    BY DEF GenToken
  <2>3. talk' = [talk EXCEPT ![k] = [t EXCEPT !.toks = @ \o Fresh(1)]]
    BY <2>1, <2>2
  <2>4. [t EXCEPT !.toks = @ \o Fresh(1)] = w
    <3>1. t.math = FALSE
      BY <1>1, Zenon DEF Turn
    <3>2. [t EXCEPT !.toks = @ \o Fresh(1)] = [t EXCEPT !.toks = u]
      BY DEF u
    <3>3. [t EXCEPT !.toks = u] = [math |-> t.math, toks |-> u]
      BY DEF Turn
    <3> QED
      BY <3>1, <3>2, <3>3
  <2> HIDE DEF w
  <2> QED
    BY <1>1, <1>6, <2>3, <2>4
<1>8. Len(talk') = Len(tk0) + 1
  BY <1>6, <1>7, AppendProperties
<1>9. <<Current>> \in Seq(Tok)
  <2>1. Current \in Tok
    BY <1>1, <1>3, BoundsAssumption DEF Word, Tok
  <2> QED
    BY <2>1
<1>10. /\ w.toks = t.toks \o Fresh(1) /\ ~w.math /\ w.toks # <<>>
       /\ Front(w.toks) = t.toks
  BY <1>5 DEF u
<1> HIDE DEF w
<1> QED
  BY <1>1, <1>3, <1>4, <1>6, <1>7, <1>8, <1>9, <1>10

LEMMA CurrentType ==
  ASSUME TypeInv, StateInv, pc = "gen"
  PROVE  <<Current>> \in Seq(Tok)
<1>1. PICK t \in Turn : t.toks # <<>> /\ Current = Last(t.toks)
  BY AnswerGrows
<1>2. t.toks \in Seq(Word)
  BY DEF Turn
<1>3. Last(t.toks) \in Word
  BY <1>1, <1>2, FrontIs
<1>4. Current \in Tok
  BY <1>1, <1>3, BoundsAssumption DEF Word, Tok
<1> QED
  BY <1>4

LEMMA PushedType ==
  ASSUME NEW h \in Seq(Word), NEW a \in Seq(Word)
  PROVE  Pushed(h, a) \in Seq(Word)
<1> DEFINE all == h \o a
           n == Len(all)
           m == n - HistoryMax + 1
<1>1. all \in Seq(Word) /\ n \in Nat /\ HistoryMax \in Nat \ {0}
  BY ConcatProperties, LenProperties, BoundsAssumption
<1>2. Pushed(h, a) = IF n <= HistoryMax THEN all ELSE SubSeq(all, m, n)
  BY DEF Pushed
<1> HIDE DEF all
<1>3. ASSUME ~(n <= HistoryMax) PROVE SubSeq(all, m, n) \in Seq(Word)
  <2>1. m \in Int /\ n \in Int /\ m >= 1
    BY <1>1, <1>3
  <2>2. \A i \in m .. n : i \in 1 .. Len(all)
    BY <2>1
  <2>3. \A i \in m .. n : all[i] \in Word
    BY <1>1, <2>2, ElementOfSeq
  <2> HIDE DEF m, n
  <2> QED
    BY <2>1, <2>3, SubSeqProperties
<1> QED
  BY <1>1, <1>2, <1>3

LEMMA TypeStep ==
  ASSUME TypeInv, StateInv, FileInv, LoadInv, [Next]_vars
  PROVE  TypeInv'
<1> USE BoundsAssumption DEF memory
<1>1. CASE Start
  <2>1. /\ Zero \in [Layer -> Seq(Tok)] /\ <<>> \in Seq(Word)
        /\ <<>> \in Seq(Turn) /\ Len(<<>>) = 0
    BY EmptySeq DEF Zero
  <2> QED
    <3>1. /\ pc' = "load" /\ pipe' \in BOOLEAN /\ flag' = FALSE /\ leaving' = FALSE
          /\ ssm' = Zero /\ hist' = <<>> /\ talk' = <<>> /\ from' = 0
          /\ at' = 0 /\ gen' = 0 /\ starts' \in 0 .. MaxStarts
          /\ UNCHANGED <<disk, kept, clock>>
      BY <1>1 DEF Start, TypeInv
    <3>2. /\ from' \in 0 .. Len(talk') /\ at' \in 0 .. NLayers
          /\ gen' \in 0 .. MaxGen
          /\ ssm' \in [Layer -> Seq(Tok)] /\ hist' \in Seq(Word)
          /\ talk' \in Seq(Turn)
      BY <2>1, <3>1
    <3>3. /\ disk' \in [head : BOOLEAN, body : Seq(Seq(Tok) \cup {BadPos})]
          /\ Len(disk'.body) <= NLayers /\ kept' \in Seq(Turn)
          /\ clock' \in 0 .. MaxClock
      BY <3>1 DEF TypeInv
    <3> QED
      BY <3>1, <3>2, <3>3 DEF TypeInv
<1>2. CASE LoadLayer
  <2>1. /\ at + 1 \in 1 .. Len(disk.body) /\ disk.body[at + 1] # BadPos
        /\ disk.body \in Seq(Seq(Tok) \cup {BadPos})
    BY <1>2, LenProperties DEF LoadLayer, Sound, TypeInv
  <2>2. disk.body[at + 1] \in Seq(Tok)
    BY <2>1, ElementOfSeq
  <2>3. at + 1 \in 0 .. NLayers /\ at' = at + 1
        /\ ssm' = [ssm EXCEPT ![at + 1] = disk.body[at + 1]]
    BY <1>2 DEF LoadLayer, TypeInv
  <2>4. ssm' \in [Layer -> Seq(Tok)]
    BY <2>2, <2>3 DEF TypeInv
  <2> QED
    BY <1>2, <2>3, <2>4 DEF LoadLayer, TypeInv
<1>3. CASE LoadFail
  <2>1. Zero \in [Layer -> Seq(Tok)]
    BY EmptySeq DEF Zero
  <2> QED
    BY <1>3, <2>1 DEF LoadFail, TypeInv
<1>4. CASE LoadDone
  <2>1. Len(kept) \in 0 .. Len(kept)
    BY LenProperties DEF TypeInv
  <2> QED
    BY <1>4, <2>1 DEF LoadDone, TypeInv
<1>5. ASSUME NEW n \in 1 .. MaxPrompt, UserTurn(n) PROVE TypeInv'
  <2>1. n \in Nat /\ clock + n <= MaxClock
    BY <1>5 DEF UserTurn
  <2> DEFINE a == SubSeq(Fresh(n), 1, n - 1)
  <2>2. a \in Seq(Tok) /\ Fresh(n) \in Seq(Word)
    <3>1. Fresh(n) \in Seq(Word) /\ Front(Fresh(n)) = a
      BY <2>1, FreshIs
    <3> HIDE DEF a
    <3>2. Front(Fresh(n)) \in Seq(Word)
      BY <3>1, FrontIs
    <3> QED
      BY <3>1, <3>2, WordsAreToks
  <2>3. ssm' \in [Layer -> Seq(Tok)]
    <3>1. Absorb(a)
      BY <1>5 DEF UserTurn
    <3> HIDE DEF a
    <3> QED
      BY <2>2, <3>1, AbsorbIs
  <2>4. talk' \in Seq(Turn) /\ Len(talk') = Len(talk) + 1
    BY <1>5, <2>1, TurnGrows DEF UserTurn
  <2>5. hist' \in Seq(Word)
    BY <1>5, <2>2, PushedType DEF UserTurn, TypeInv
  <2>6. from' \in 0 .. Len(talk')
    BY <1>5, <2>4, LenProperties DEF UserTurn, TypeInv
  <2>7. clock' \in 0 .. MaxClock /\ gen' \in 0 .. MaxGen
    BY <1>5 DEF UserTurn, TypeInv
  <2> QED
    BY <1>5, <2>3, <2>4, <2>5, <2>6, <2>7 DEF UserTurn, Prompted, TypeInv
<1>6. ASSUME NEW n \in 1 .. MaxPrompt, MathTurn(n) PROVE TypeInv'
  <2>1. n \in Nat /\ clock + n <= MaxClock
    BY <1>6 DEF MathTurn
  <2>2. talk' \in Seq(Turn) /\ Len(talk') = Len(talk) + 1 /\ Fresh(n) \in Seq(Word)
    BY <1>6, <2>1, TurnGrows DEF MathTurn
  <2>3. ssm' \in [Layer -> Seq(Tok)] /\ hist' \in Seq(Word)
    <3>1. CASE HasTpl
      <4>1. Absorb(Fresh(n)) /\ hist' = Pushed(hist, Fresh(n))
        BY <1>6, <3>1 DEF MathTurn
      <4>2. Fresh(n) \in Seq(Tok)
        BY <2>2, WordsAreToks
      <4>3. ssm' \in [Layer -> Seq(Tok)]
        BY <4>1, <4>2, AbsorbIs
      <4> QED
        BY <2>2, <4>1, <4>3, PushedType DEF TypeInv
    <3>2. CASE ~HasTpl
      BY <1>6, <3>2 DEF MathTurn, TypeInv
    <3> QED
      BY <3>1, <3>2
  <2>4. from' \in 0 .. Len(talk')
    BY <1>6, <2>2, LenProperties DEF MathTurn, TypeInv
  <2>5. clock' \in 0 .. MaxClock /\ gen' \in 0 .. MaxGen
    BY <1>6 DEF MathTurn, TypeInv
  <2> QED
    BY <1>6, <2>2, <2>3, <2>4, <2>5 DEF MathTurn, Prompted, TypeInv
<1>7. CASE GenToken
  <2>1. PICK tk0 \in Seq(Turn), w \in Turn :
          /\ talk' = Append(tk0, w)
          /\ Len(talk) = Len(tk0) + 1 /\ Len(talk') = Len(tk0) + 1
          /\ <<Current>> \in Seq(Tok) /\ Fresh(1) \in Seq(Word)
    BY <1>7, TokenGrows
  <2>2. talk' \in Seq(Turn) /\ Len(talk') = Len(talk)
    BY <2>1, AppendProperties
  <2>3. ssm' \in [Layer -> Seq(Tok)]
    BY <1>7, <2>1, AbsorbIs DEF GenToken
  <2>4. hist' \in Seq(Word)
    BY <1>7, <2>1, PushedType DEF GenToken, TypeInv
  <2>5. clock' \in 0 .. MaxClock /\ gen' \in 0 .. MaxGen
    <3>1. /\ clock < MaxClock /\ clock' = clock + 1
          /\ gen < MaxGen /\ gen' = gen + 1
      BY <1>7 DEF GenToken
    <3>2. clock \in 0 .. MaxClock /\ gen \in 0 .. MaxGen
      BY DEF TypeInv
    <3> QED
      BY <3>1, <3>2
  <2> QED
    BY <1>7, <2>2, <2>3, <2>4, <2>5 DEF GenToken, TypeInv
<1>8. CASE GenStop
  <2>1. <<Current>> \in Seq(Tok)
    BY <1>8, CurrentType DEF GenStop
  <2>2. ssm' \in [Layer -> Seq(Tok)]
    BY <1>8, <2>1, AbsorbIs DEF GenStop
  <2> QED
    BY <1>8, <2>2 DEF GenStop, TypeInv
<1>9. CASE Reset
  <2>1. /\ Zero \in [Layer -> Seq(Tok)] /\ <<>> \in Seq(Word)
        /\ <<>> \in Seq(Turn) /\ Len(<<>>) = 0
    BY EmptySeq DEF Zero
  <2> QED
    BY <1>9, <2>1 DEF Reset, TypeInv
<1>10. CASE SaveOpen
  <2>1. <<>> \in Seq(Seq(Tok) \cup {BadPos}) /\ Len(<<>>) = 0
    BY EmptySeq
  <2>2. /\ disk' \in [head : BOOLEAN, body : Seq(Seq(Tok) \cup {BadPos})]
        /\ Len(disk'.body) <= NLayers
    <3> DEFINE e == <<>>
    <3>1. \/ disk' = [head |-> TRUE, body |-> e]
          \/ disk' = disk
          \/ disk' = [head |-> FALSE, body |-> e]
      BY <1>10 DEF SaveOpen, NoFile
    <3>2. e \in Seq(Seq(Tok) \cup {BadPos}) /\ Len(e) <= NLayers
      BY <2>1
    <3> HIDE DEF e
    <3>3. CASE disk' = disk
      BY <3>3 DEF TypeInv
    <3>4. CASE disk' # disk
      <4>1. PICK h \in BOOLEAN : disk' = [head |-> h, body |-> e]
        BY <3>1, <3>4
      <4>2. disk'.body = e
        BY <4>1
      <4>3. disk' \in [head : BOOLEAN, body : Seq(Seq(Tok) \cup {BadPos})]
        BY <3>2, <4>1
      <4> QED
        BY <3>2, <4>2, <4>3
    <3> QED
      BY <3>3, <3>4
  <2> QED
    BY <1>10, <2>2 DEF SaveOpen, TypeInv
<1>11. CASE SaveLayer
  <2> DEFINE B == Seq(Tok) \cup {BadPos}
             b == disk.body
             x == ssm[at + 1]
  <2>1. at < NLayers /\ Len(b) = at /\ b \in Seq(B) /\ at \in 0 .. NLayers
    BY <1>11 DEF SaveLayer, FileInv, TypeInv
  <2>2. x \in B
    BY <2>1 DEF TypeInv, Layer
  <2>3. disk' = [disk EXCEPT !.body = Append(b, x)]
    BY <1>11 DEF SaveLayer
  <2>4. Append(b, x) \in Seq(B) /\ Len(Append(b, x)) = at + 1
    <3> HIDE DEF b, x, B
    <3> QED
      BY <2>1, <2>2, AppendProperties
  <2> HIDE DEF x
  <2>5. /\ disk' \in [head : BOOLEAN, body : Seq(Seq(Tok) \cup {BadPos})]
        /\ Len(disk'.body) <= NLayers
    <3>1. disk' = [head |-> disk.head, body |-> Append(b, x)]
      BY <2>3 DEF TypeInv
    <3>2. at + 1 <= NLayers /\ disk.head \in BOOLEAN
      BY <2>1 DEF TypeInv
    <3> HIDE DEF b
    <3> QED
      BY <2>4, <3>1, <3>2
  <2>6. at' \in 0 .. NLayers
    <3>1. at' = at + 1 /\ NLayers \in Nat
      BY <1>11, BoundsAssumption DEF SaveLayer
    <3> QED
      BY <2>1, <3>1
  <2> QED
    BY <1>11, <2>5, <2>6 DEF SaveLayer, TypeInv
<1>12. ASSUME disk' \in Torn(disk),
              UNCHANGED <<memory, pipe, at, leaving, gen, kept, clock, starts>>,
              pc' \in {"down", "failed"}, flag' \in BOOLEAN
       PROVE  TypeInv'
  <2>1. /\ disk' \in [head : BOOLEAN, body : Seq(Seq(Tok) \cup {BadPos})]
        /\ Len(disk'.body) <= NLayers
    <3>1. /\ disk' \in [head : BOOLEAN, body : Seq(Seq(Tok) \cup {BadPos})]
          /\ Len(disk'.body) <= Len(disk.body)
      BY <1>12, TornIs
    <3>2. Len(disk'.body) \in Nat /\ Len(disk.body) \in Nat
      BY <3>1, LenProperties DEF TypeInv
    <3> QED
      BY <3>1, <3>2 DEF TypeInv
  <2> QED
    BY <1>12, <2>1 DEF TypeInv
<1>13. CASE SaveFail
  BY <1>12, <1>13 DEF SaveFail, TypeInv
<1>14. CASE Signal \/ Crash
  <2>1. CASE disk' \in Torn(disk) /\ pc' = "down"
    BY <1>12, <1>14, <2>1 DEF Signal, Crash, TypeInv
  <2>2. CASE UNCHANGED disk
    BY <1>14, <2>2 DEF Signal, Crash, Dies, TypeInv
  <2> QED
    BY <1>14, <2>1, <2>2 DEF Signal, Crash, Dies
<1>15. CASE LoadNothing \/ NoTokens \/ GenEnd \/ LoopHead \/ TurnEnd \/ OtherLine
         \/ Quit \/ Save \/ SaveClose
  <2>1. CASE LoadNothing \/ GenEnd \/ OtherLine \/ Save
    BY <2>1 DEF LoadNothing, GenEnd, OtherLine, Save, TypeInv
  <2>2. CASE NoTokens
    BY <2>2 DEF NoTokens, Prompted, TypeInv
  <2>3. CASE LoopHead \/ TurnEnd \/ Quit
    BY <2>3 DEF LoopHead, TurnEnd, Quit, TypeInv
  <2>4. CASE SaveClose
    <3>1. pc' \in {"ready", "down", "exited"}
      BY <2>4 DEF SaveClose
    <3> QED
      BY <2>4, <3>1 DEF SaveClose, TypeInv
  <2> QED
    BY <1>15, <2>1, <2>2, <2>3, <2>4
<1>16. CASE UNCHANGED vars
  BY <1>16 DEF vars, TypeInv
<1> QED
  BY <1>1, <1>2, <1>3, <1>4, <1>5, <1>6, <1>7, <1>8, <1>9, <1>10, <1>11,
     <1>13, <1>14, <1>15, <1>16 DEF Next, User, Program, Over

-----------------------------------------------------------------------------
(* The layers.                                                             *)

\* A talk stopped in the middle of an answer is a talk all the same.
LEMMA AnswerIsLeft ==
  ASSUME TypeInv, StateInv, pc = "gen"
  PROVE  Left(ssm[1], talk) /\ Left(ssm[1] \o <<Current>>, talk)
<1>1. PICK tk0 \in Seq(Turn), t \in Turn, r \in Seq(Tok) :
        /\ talk = Append(tk0, t) /\ ~t.math /\ t.toks # <<>>
        /\ Left(r, tk0) /\ ssm[1] = r \o Front(t.toks)
        /\ Current = Last(t.toks)
  BY AnswerGrows
<1>2. t.toks \in Absorbed(t) /\ Front(t.toks) \in Absorbed(t)
  BY <1>1 DEF Absorbed
<1>3. Left(r \o t.toks, talk) /\ Left(r \o Front(t.toks), talk)
  BY <1>1, <1>2, LeftAppend
<1>4. r \o t.toks = ssm[1] \o <<Current>>
  <2> DEFINE s == t.toks
  <2>1. s \in Seq(Word) /\ s # <<>> /\ Seq(Word) \subseteq Seq(Tok)
    BY <1>1, WordsAreToks DEF Turn
  <2> HIDE DEF s
  <2>2. s = Front(s) \o <<Last(s)>> /\ Front(s) \in Seq(Tok)
    BY <2>1, FrontIs
  <2>3. <<Last(s)>> \in Seq(Tok)
    BY <1>1, CurrentType DEF s
  <2>4. r \o (Front(s) \o <<Last(s)>>) = (r \o Front(s)) \o <<Last(s)>>
    BY <2>2, <2>3, ConcatAssociative
  <2> QED
    BY <1>1, <2>2, <2>4 DEF s
<1> QED
  BY <1>1, <1>3, <1>4

\* A turn of the model.
LEMMA UserTurnState ==
  ASSUME TypeInv, StateInv, NEW n \in Nat \ {0}, UserTurn(n)
  PROVE  StateInv'
<1> DEFINE Same == \A l \in Layer : ssm[l] = ssm[1]
           t == [math |-> FALSE, toks |-> Fresh(n)]
           a == SubSeq(Fresh(n), 1, n - 1)
<1>1. /\ clock + n <= MaxClock /\ pc = "read" /\ pc' = "gen"
      /\ talk' = Append(talk, t) /\ from' = from /\ Absorb(a)
  BY DEF UserTurn
<1>2. Fresh(n) \in Seq(Word) /\ Len(Fresh(n)) = n /\ Front(Fresh(n)) = a
  BY <1>1, FreshIs
<1>3. t \in Turn /\ ~t.math /\ t.toks = Fresh(n)
  BY <1>2 DEF Turn
<1>4. a \in Seq(Tok)
  <2> HIDE DEF a
  <2>1. Front(Fresh(n)) \in Seq(Word)
    BY <1>2, FrontIs
  <2> QED
    BY <1>2, <2>1, WordsAreToks
<1> HIDE DEF a, t
<1>5. ssm'[1] = ssm[1] \o a /\ (Same => Same')
  BY <1>1, <1>4, AbsorbIs
<1>6. Same /\ Left(ssm[1], talk) /\ ssm[1] \in Seq(Tok)
  <2>1. 1 \in Layer
    BY BoundsAssumption DEF Layer
  <2> QED
    BY <1>1, <2>1 DEF StateInv, TypeInv
<1>7. a \in Absorbed(t)
  BY <1>2, <1>3 DEF Absorbed
<1>8. talk \in Seq(Turn) /\ from <= Len(talk)
  BY LenProperties DEF TypeInv
<1>9. Left(ssm'[1], talk')
  BY <1>1, <1>3, <1>5, <1>6, <1>7, <1>8, LeftAppend
<1>10. Answering(ssm[1], talk)'
  <2>1. t.toks # <<>>
    BY <1>2, <1>3, EmptySeq
  <2>2. ssm'[1] = ssm[1] \o Front(t.toks)
    BY <1>2, <1>3, <1>5
  <2> QED
    BY <1>1, <1>3, <1>6, <1>8, <2>1, <2>2 DEF Answering
<1> QED
  BY <1>1, <1>5, <1>6, <1>9, <1>10 DEF StateInv

\* An arithmetic question.
LEMMA MathTurnState ==
  ASSUME TypeInv, StateInv, NEW n \in Nat \ {0}, MathTurn(n)
  PROVE  StateInv'
<1> DEFINE Same == \A l \in Layer : ssm[l] = ssm[1]
           t == [math |-> TRUE, toks |-> Fresh(n)]
<1>1. /\ clock + n <= MaxClock /\ pc = "read" /\ pc' = "turned"
      /\ talk' = Append(talk, t)
      /\ HasTpl => Absorb(Fresh(n))
      /\ ~HasTpl => ssm' = ssm
  BY DEF MathTurn
<1>2. Fresh(n) \in Seq(Word) /\ Fresh(n) \in Seq(Tok)
  BY <1>1, FreshIs, WordsAreToks
<1>3. t \in Turn /\ t.math /\ t.toks = Fresh(n)
  BY <1>2 DEF Turn
<1> HIDE DEF t
<1>4. Same /\ Left(ssm[1], talk) /\ ssm[1] \in Seq(Tok) /\ talk \in Seq(Turn)
  <2>1. 1 \in Layer
    BY BoundsAssumption DEF Layer
  <2> QED
    BY <1>1, <2>1 DEF StateInv, TypeInv
<1>5. CASE HasTpl
  <2>1. ssm'[1] = ssm[1] \o Fresh(n) /\ (Same => Same')
    BY <1>1, <1>2, <1>5, AbsorbIs
  <2>2. Fresh(n) \in Absorbed(t)
    BY <1>3, <1>5 DEF Absorbed
  <2>3. Left(ssm'[1], talk')
    BY <1>1, <1>3, <1>4, <2>1, <2>2, LeftAppend
  <2> QED
    BY <1>1, <1>4, <2>1, <2>3 DEF StateInv
<1>6. CASE ~HasTpl
  <2>1. <<>> \in Absorbed(t)
    BY <1>3, <1>6 DEF Absorbed
  <2>2. ssm' = ssm /\ ssm[1] \o <<>> = ssm[1]
    BY <1>1, <1>4, <1>6, ConcatEmptySeq
  <2>3. Left(ssm[1] \o <<>>, Append(talk, t))
    BY <1>3, <1>4, <2>1, LeftAppend
  <2> QED
    BY <1>1, <1>4, <2>2, <2>3 DEF StateInv
<1> QED
  BY <1>5, <1>6

\* One more token of an answer.
LEMMA TokenState ==
  ASSUME TypeInv, StateInv, GenToken
  PROVE  StateInv'
<1> DEFINE Same == \A l \in Layer : ssm[l] = ssm[1]
<1>1. PICK tk0 \in Seq(Turn), t, w \in Turn, r \in Seq(Tok) :
        /\ talk = Append(tk0, t) /\ talk' = Append(tk0, w)
        /\ from \in 0 .. Len(tk0)
        /\ ~w.math
        /\ Left(r, tk0) /\ ssm[1] = r \o Front(t.toks)
        /\ <<Current>> \in Seq(Tok) /\ t.toks = Front(t.toks) \o <<Current>>
        /\ w.toks # <<>> /\ Front(w.toks) = t.toks
  BY TokenGrows
<1>2. pc = "gen" /\ pc' = "gen" /\ from' = from /\ Absorb(<<Current>>)
  BY DEF GenToken
<1>3. Same
  BY <1>2 DEF StateInv
<1>4. ssm'[1] = ssm[1] \o <<Current>> /\ Same'
  BY <1>1, <1>2, <1>3, AbsorbIs
<1>5. Front(t.toks) \in Seq(Tok)
  <2>1. t.toks \in Seq(Word)
    BY DEF Turn
  <2>2. Front(t.toks) \in Seq(Word)
    BY <2>1, FrontIs
  <2> QED
    BY <2>2, WordsAreToks
<1>6. ssm'[1] = r \o Front(w.toks)
  <2> DEFINE k == Front(t.toks)
             c == <<Current>>
             u == t.toks
  <2>1. k \in Seq(Tok) /\ c \in Seq(Tok) /\ u = k \o c
    BY <1>1, <1>5
  <2>2. ssm'[1] = (r \o k) \o c /\ Front(w.toks) = u
    BY <1>1, <1>4
  <2> HIDE DEF k, c, u
  <2>3. r \o (k \o c) = (r \o k) \o c
    BY <2>1, ConcatAssociative
  <2> QED
    BY <2>1, <2>2, <2>3
<1>7. Left(ssm'[1], talk')
  <2>1. Front(w.toks) \in Absorbed(w)
    BY <1>1 DEF Absorbed
  <2> QED
    BY <1>1, <1>6, <2>1, LeftAppend
<1>8. Answering(ssm[1], talk)'
  <2>1. from' <= Len(tk0)
    BY <1>1, <1>2
  <2> QED
    BY <1>1, <1>6, <2>1 DEF Answering
<1> QED
  BY <1>2, <1>4, <1>7, <1>8 DEF StateInv

\* Nothing moves a layer but a turn, a reset and a load.
LEMMA StateStep ==
  ASSUME IInv, [Next]_vars
  PROVE  StateInv'
<1> USE BoundsAssumption DEF memory, IInv
<1> DEFINE Same == \A l \in Layer : ssm[l] = ssm[1]
           Blank == ssm = Zero /\ talk = <<>>
<1>1. 1 \in Layer
  BY DEF Layer
<1>2. ASSUME NEW n \in 1 .. MaxPrompt, UserTurn(n) PROVE StateInv'
  <2>1. n \in Nat \ {0}
    OBVIOUS
  <2> QED
    BY <1>2, <2>1, UserTurnState
<1>3. ASSUME NEW n \in 1 .. MaxPrompt, MathTurn(n) PROVE StateInv'
  <2>1. n \in Nat \ {0}
    OBVIOUS
  <2> QED
    BY <1>3, <2>1, MathTurnState
<1>4. CASE GenToken BY <1>4, TokenState
<1>5. CASE GenStop
  <2>1. /\ pc = "gen" /\ pc' = "turned" /\ talk' = talk /\ Absorb(<<Current>>)
        /\ Same /\ Left(ssm[1] \o <<Current>>, talk) /\ <<Current>> \in Seq(Tok)
    BY <1>5, AnswerIsLeft, CurrentType DEF GenStop, StateInv
  <2>2. ssm'[1] = ssm[1] \o <<Current>> /\ Same'
    BY <2>1, AbsorbIs
  <2> QED
    BY <2>1, <2>2 DEF StateInv
<1>6. ASSUME Blank', pc' # "gen" PROVE StateInv'
  <2>1. Same' /\ ssm'[1] = <<>>
    BY <1>1, <1>6 DEF Zero
  <2> QED
    BY <1>6, <2>1, LeftEmpty DEF StateInv
<1>7. CASE Reset \/ LoadFail \/ LoadNothing
  <2>1. Blank' /\ pc' = "ready"
    <3>1. CASE Reset
      BY <3>1 DEF Reset
    <3>2. CASE LoadFail
      BY <3>2 DEF LoadFail, LoadInv
    <3>3. CASE LoadNothing
      BY <3>3 DEF LoadNothing, LoadInv, TypeInv
    <3> QED
      BY <1>7, <3>1, <3>2, <3>3
  <2> QED
    BY <1>6, <2>1
<1>8. CASE Start \/ LoadLayer
  BY <1>8 DEF Start, LoadLayer, StateInv
<1>9. CASE LoadDone
  <2>1. /\ at = NLayers /\ pc = "load" /\ pc' = "ready" /\ talk' = kept
        /\ ssm' = ssm
    BY <1>9 DEF LoadDone
  <2>2. /\ disk.head /\ NLayers <= Len(disk.body)
        /\ \A i \in 1 .. NLayers : ssm[i] = disk.body[i] /\ disk.body[i] # BadPos
    BY <2>1 DEF LoadInv
  <2>3. Len(disk.body) = NLayers /\ NLayers \in 1 .. NLayers
    BY <2>2, LenProperties DEF TypeInv
  <2>4. Uniform
    BY <2>2, <2>3 DEF FileInv, Damaged
  <2>5. Same /\ Left(ssm[1], kept)
    BY <1>1, <2>2, <2>3, <2>4 DEF Uniform, Layer
  <2> QED
    BY <2>1, <2>5 DEF StateInv
<1>10. CASE GenEnd
  <2>1. /\ pc = "gen" /\ pc' = "turned" /\ UNCHANGED <<ssm, talk>>
        /\ Same /\ Left(ssm[1], talk)
    BY <1>10, AnswerIsLeft DEF GenEnd, StateInv
  <2> QED
    BY <2>1 DEF StateInv
<1>11. ASSUME UNCHANGED <<ssm, talk, from>>, pc' # "gen" \/ pc' = pc,
              pc \in {"load", "down"} => pc' \in {"load", "down"}
       PROVE  StateInv'
  BY <1>11 DEF StateInv, Answering
<1>12. CASE NoTokens \/ LoopHead \/ TurnEnd \/ OtherLine \/ Quit \/ Save
  BY <1>11, <1>12
  DEF NoTokens, LoopHead, TurnEnd, OtherLine, Quit, Save
<1>13. CASE SaveOpen \/ SaveLayer \/ SaveFail \/ SaveClose
  BY <1>11, <1>13 DEF SaveOpen, SaveLayer, SaveFail, SaveClose
<1>14. CASE Signal \/ Crash
  BY <1>11, <1>14 DEF Signal, Crash, Dies
<1>15. CASE UNCHANGED vars
  BY <1>11, <1>15 DEF vars
<1> QED
  BY <1>2, <1>3, <1>4, <1>5, <1>7, <1>8, <1>9, <1>10, <1>12, <1>13, <1>14,
     <1>15 DEF Next, User, Program, Over

-----------------------------------------------------------------------------
(* The file.                                                               *)

\* A save in progress has written the beginning of one conversation.
LEMMA SavedSoFar ==
  ASSUME TypeInv, StateInv, FileInv, pc = "save"
  PROVE  \A i \in 1 .. at : /\ disk.body[i] = ssm[1] /\ ssm[i] = ssm[1]
                            /\ disk.body[i] = disk.body[1]
                            /\ Left(disk.body[i], kept)
<1>1. /\ kept = talk /\ at \in 0 .. NLayers
      /\ \A i \in 1 .. at : disk.body[i] = ssm[i]
  BY DEF FileInv, TypeInv
<1>2. (\A l \in Layer : ssm[l] = ssm[1]) /\ Left(ssm[1], talk)
  BY DEF StateInv
<1>3. ASSUME NEW i \in 1 .. at PROVE i \in Layer /\ 1 \in 1 .. at /\ 1 \in Layer
  BY <1>1, BoundsAssumption DEF Layer
<1> QED
  BY <1>1, <1>2, <1>3

LEMMA FileStep ==
  ASSUME IInv, [Next]_vars
  PROVE  FileInv'
<1> USE BoundsAssumption DEF memory, IInv
<1> DEFINE Good == disk.head => Damaged \/ Uniform
           Clean == disk = [head |-> TRUE, body |-> ssm]
<1>1. CASE SaveOpen
  <2>1. pc' \in {"save", "failed"} /\ at' = 0
    BY <1>1 DEF SaveOpen
  <2>2. CASE /\ pc' = "save" /\ disk' = [head |-> TRUE, body |-> <<>>]
             /\ kept' = talk
    <3>1. disk'.head /\ disk'.body = <<>> /\ Len(<<>>) = 0
      BY <2>2, EmptySeq
    <3>2. (\A i \in 1 .. Len(disk'.body) : FALSE) /\ (\A i \in 1 .. at' : FALSE)
      BY <2>1, <3>1
    <3>3. Uniform'
      BY <3>2 DEF Uniform
    <3>4. talk' = talk
      BY <1>1 DEF SaveOpen
    <3> QED
      BY <2>1, <2>2, <3>1, <3>2, <3>3, <3>4 DEF FileInv, ExitIsSaved
  <2>3. CASE pc' = "failed" /\ (UNCHANGED disk \/ disk' = NoFile) /\ UNCHANGED kept
    <3>1. Good'
      BY <2>3 DEF FileInv, NoFile, Damaged, Uniform
    <3> QED
      BY <2>3, <3>1 DEF FileInv, ExitIsSaved
  <2> QED
    BY <1>1, <2>2, <2>3 DEF SaveOpen
<1>2. CASE SaveLayer
  <2> DEFINE B == Seq(Tok) \cup {BadPos}
             b == disk.body
             x == ssm[at + 1]
             e == disk'.body
  <2>1. /\ pc = "save" /\ pc' = "save" /\ at \in 0 .. NLayers /\ at < NLayers
        /\ at' = at + 1
        /\ b \in Seq(B) /\ disk.head /\ Len(b) = at /\ kept = talk
        /\ UNCHANGED <<ssm, talk, kept>>
        /\ disk' = [disk EXCEPT !.body = Append(b, x)]
    BY <1>2 DEF SaveLayer, FileInv, TypeInv
  <2>2. x \in B /\ x = ssm[1] /\ Left(x, talk)
    BY <2>1, SMTT(30) DEF StateInv, TypeInv, Layer
  <2>3. disk'.head /\ e = Append(b, x)
    BY <2>1 DEF TypeInv
  <2> HIDE DEF b, B, x, e
  <2>4. Len(e) = at + 1 /\ e[at + 1] = x /\ \A i \in 1 .. at : e[i] = b[i]
    BY <2>1, <2>2, <2>3, AppendProperties
  <2>5. \A i \in 1 .. at : b[i] = ssm[1] /\ b[i] = ssm[i]
    BY <2>1, SavedSoFar DEF b
  <2>6. \A i \in 1 .. at + 1 : e[i] = ssm[1] /\ e[i] = ssm[i]
    <3>1. ASSUME NEW i \in 1 .. at + 1, i # at + 1 PROVE i \in 1 .. at
      BY <2>1, <3>1
    <3> QED
      BY <2>2, <2>4, <2>5, <3>1 DEF x
  <2>7. 1 \in 1 .. at + 1
    BY <2>1
  <2>8. Uniform'
    BY <2>1, <2>2, <2>4, <2>6, <2>7 DEF Uniform, e
  <2>9. \A i \in 1 .. at' : e[i] = ssm'[i]
    BY <2>1, <2>6
  <2> QED
    BY <2>1, <2>3, <2>4, <2>8, <2>9 DEF FileInv, ExitIsSaved, e
<1>3. ASSUME pc = "save", pc' \in {"failed", "down"}, disk' \in Torn(disk),
             UNCHANGED kept
      PROVE  FileInv'
  <2>1. /\ Len(disk'.body) <= Len(disk.body)
        /\ \A i \in 1 .. Len(disk'.body) : disk'.body[i] = disk.body[i]
        /\ disk'.body \in Seq(Seq(Tok) \cup {BadPos})
    BY <1>3, TornIs
  <2>2. Len(disk.body) = at /\ at \in 0 .. NLayers
    BY <1>3 DEF FileInv, TypeInv
  <2>3. Len(disk'.body) \in Nat
    BY <2>1, LenProperties
  <2>4. ASSUME NEW i \in 1 .. Len(disk'.body)
        PROVE  i \in 1 .. at /\ 1 \in 1 .. Len(disk'.body)
    BY <2>1, <2>2, <2>3
  <2>5. Uniform'
    BY <1>3, <2>1, <2>4, SavedSoFar DEF Uniform
  <2> QED
    BY <1>3, <2>5 DEF FileInv, ExitIsSaved
<1>4. ASSUME UNCHANGED <<disk, kept>>, pc' \notin {"save", "exited"}
      PROVE  FileInv'
  BY <1>4 DEF FileInv, ExitIsSaved, Damaged, Uniform
<1>5. CASE SaveClose
  <2>1. CASE pc' = "exited"
    <3>1. /\ pc = "save" /\ at = NLayers /\ UNCHANGED <<disk, ssm, kept>>
      BY <1>5, <2>1 DEF SaveClose
    <3>2. /\ disk.head /\ Len(disk.body) = NLayers
          /\ \A i \in 1 .. NLayers : disk.body[i] = ssm[i]
      BY <3>1 DEF FileInv
    <3>3. disk.body = ssm
      <4>1. disk.body \in [1 .. NLayers -> Seq(Tok) \cup {BadPos}]
        BY <3>2, LenProperties DEF TypeInv
      <4>2. ssm \in [1 .. NLayers -> Seq(Tok)]
        BY DEF TypeInv, Layer
      <4> QED
        BY <3>2, <4>1, <4>2
    <3>4. disk = [head |-> TRUE, body |-> ssm]
      <4>1. disk = [head |-> disk.head, body |-> disk.body]
        BY DEF TypeInv
      <4>2. disk.head = TRUE
        BY <3>2, Zenon DEF TypeInv
      <4> QED
        BY <3>3, <4>1, <4>2
    <3>5. Good'
      BY <3>1 DEF FileInv, Damaged, Uniform
    <3> QED
      BY <2>1, <3>1, <3>4, <3>5 DEF FileInv, ExitIsSaved
  <2>2. CASE pc' # "exited"
    BY <1>4, <1>5, <2>2 DEF SaveClose
  <2> QED
    BY <2>1, <2>2
<1>6. CASE SaveFail
  BY <1>3, <1>6 DEF SaveFail
<1>7. CASE Signal \/ Crash
  <2>1. CASE pc' = pc /\ UNCHANGED disk
    <3>1. pc # "exited" /\ UNCHANGED <<disk, kept, pc, at, memory>>
      BY <1>7, <2>1 DEF Signal, Crash, Alive
    <3> QED
      BY <3>1 DEF FileInv, ExitIsSaved, Damaged, Uniform
  <2>2. CASE Dies
    <3>1. CASE pc = "save"
      BY <1>3, <1>7, <2>2, <3>1 DEF Signal, Crash, Dies
    <3>2. CASE pc # "save"
      BY <1>4, <1>7, <2>2, <3>2 DEF Signal, Crash, Dies
    <3> QED
      BY <3>1, <3>2
  <2> QED
    BY <1>7, <2>1, <2>2 DEF Signal, Crash
<1>8. CASE Start \/ LoadNothing \/ LoadLayer \/ LoadFail \/ LoadDone
  BY <1>4, <1>8 DEF Start, LoadNothing, LoadLayer, LoadFail, LoadDone
<1>9. ASSUME NEW n \in 1 .. MaxPrompt, UserTurn(n) \/ MathTurn(n)
      PROVE  FileInv'
  BY <1>4, <1>9 DEF UserTurn, MathTurn
<1>10. CASE NoTokens \/ GenToken \/ GenStop \/ GenEnd
  BY <1>4, <1>10 DEF NoTokens, GenToken, GenStop, GenEnd
<1>11. CASE LoopHead \/ TurnEnd \/ OtherLine \/ Quit \/ Save \/ Reset
  BY <1>4, <1>11 DEF LoopHead, TurnEnd, OtherLine, Quit, Save, Reset
<1>12. CASE UNCHANGED vars
  BY <1>12 DEF vars, FileInv, ExitIsSaved, Damaged, Uniform
<1> QED
  BY <1>1, <1>2, <1>5, <1>6, <1>7, <1>8, <1>9, <1>10, <1>11, <1>12
  DEF Next, User, Program, Over

\* A load copies the layers one by one.
LEMMA LoadStep ==
  ASSUME IInv, [Next]_vars
  PROVE  LoadInv'
<1> USE DEF memory, IInv
<1>1. CASE Start
  <2>1. /\ talk' = <<>> /\ hist' = <<>> /\ from' = 0 /\ at' = 0 /\ ssm' = Zero
    BY <1>1 DEF Start
  <2>2. \A i \in 1 .. at' : FALSE
    BY <2>1
  <2> QED
    BY <2>1, <2>2 DEF LoadInv
<1>2. CASE LoadLayer
  <2>1. /\ pc = "load" /\ disk.head /\ at \in 0 .. NLayers /\ at < NLayers
        /\ at < Len(disk.body) /\ disk.body[at + 1] # BadPos
        /\ ssm' = [ssm EXCEPT ![at + 1] = disk.body[at + 1]]
        /\ at' = at + 1 /\ UNCHANGED <<disk, talk, hist, from>>
    BY <1>2 DEF LoadLayer, Sound, TypeInv
  <2>2. at + 1 \in Layer /\ Len(disk.body) \in Nat
    <3>1. disk.body \in Seq(Seq(Tok) \cup {BadPos})
      BY DEF TypeInv
    <3>2. Len(disk.body) \in Nat
      BY <3>1, LenProperties
    <3>3. at + 1 \in 1 .. NLayers
      BY <2>1, BoundsAssumption
    <3> QED
      BY <3>2, <3>3 DEF Layer
  <2>3. ssm'[at + 1] = disk.body[at + 1] /\ \A i \in 1 .. at : ssm'[i] = ssm[i]
    BY <2>1, <2>2 DEF TypeInv, Layer
  <2>4. \A i \in 1 .. at : ssm[i] = disk.body[i] /\ disk.body[i] # BadPos
    BY <2>1 DEF LoadInv
  <2>5. \A i \in 1 .. at' : ssm'[i] = disk'.body[i] /\ disk'.body[i] # BadPos
    <3>1. ASSUME NEW i \in 1 .. at + 1, i # at + 1 PROVE i \in 1 .. at
      BY <2>1, <3>1
    <3> QED
      BY <2>1, <2>3, <2>4, <3>1
  <2>6. at' # 0 /\ at' <= Len(disk'.body)
    BY <2>1, <2>2
  <2> QED
    BY <2>1, <2>5, <2>6 DEF LoadInv
<1>3. CASE Signal \/ Crash
  <2>1. UNCHANGED <<disk, at, memory>> \/ pc' # "load"
    BY <1>3 DEF Signal, Crash, Dies
  <2>2. pc' = "load" => pc = "load"
    BY <1>3 DEF Signal, Crash, Dies
  <2> QED
    BY <2>1, <2>2 DEF LoadInv
<1>4. CASE UNCHANGED vars
  BY <1>4 DEF vars, LoadInv
<1>5. ASSUME pc' # "load" PROVE LoadInv'
  BY <1>5 DEF LoadInv
<1>6. ASSUME NEW n \in 1 .. MaxPrompt, UserTurn(n) \/ MathTurn(n)
      PROVE  pc' # "load"
  BY <1>6 DEF UserTurn, MathTurn
<1>7. LoadNothing \/ LoadFail \/ LoadDone \/ Reset \/ Save \/ NoTokens \/ OtherLine
        => pc' # "load"
  BY DEF LoadNothing, LoadFail, LoadDone, Reset, Save, NoTokens, OtherLine
<1>8. GenToken \/ GenStop \/ GenEnd \/ LoopHead \/ TurnEnd \/ Quit => pc' # "load"
  BY DEF GenToken, GenStop, GenEnd, LoopHead, TurnEnd, Quit
<1>9. SaveOpen \/ SaveLayer \/ SaveFail \/ SaveClose => pc' # "load"
  BY DEF SaveOpen, SaveLayer, SaveFail, SaveClose
<1> QED
  BY <1>1, <1>2, <1>3, <1>4, <1>5, <1>6, <1>7, <1>8, <1>9
  DEF Next, User, Program, Over

-----------------------------------------------------------------------------
(* The repetition history.                                                 *)

LEMMA HistStep ==
  ASSUME IInv, [Next]_vars
  PROVE  HistInv'
<1> USE DEF memory, IInv
<1>1. /\ hist \in Seq(Word) /\ talk \in Seq(Turn) /\ from \in 0 .. Len(talk)
      /\ Told(talk, from) \in Seq(Word) /\ Newest(hist, Told(talk, from))
  BY ShownIs DEF TypeInv, HistInv
<1>2. ASSUME hist' = <<>>, talk' \in Seq(Turn), from' = Len(talk')
      PROVE  HistInv'
  <2>1. Told(talk', from') = <<>> /\ Len(<<>>) = 0
    BY <1>2, ToldNone, EmptySeq
  <2>2. \A i \in 1 .. Len(<<>>) : FALSE
    BY <2>1
  <2> QED
    BY <1>2, <2>1, <2>2, BoundsAssumption DEF HistInv, Newest
<1>3. CASE Start \/ Reset
  <2>1. <<>> \in Seq(Turn) /\ Len(<<>>) = 0
    BY EmptySeq
  <2> QED
    BY <1>2, <1>3, <2>1 DEF Start, Reset
<1>4. CASE LoadDone
  <2>1. hist' = <<>> /\ talk' \in Seq(Turn) /\ from' = Len(talk')
    BY <1>4 DEF LoadDone, LoadInv, TypeInv
  <2> QED
    BY <1>2, <2>1
<1>5. ASSUME NEW b \in BOOLEAN, NEW n \in Nat, clock + n <= MaxClock,
             talk' = Append(talk, [math |-> b, toks |-> Fresh(n)]),
             from' = from,
             hist' = IF b /\ ~HasTpl THEN hist ELSE Pushed(hist, Fresh(n))
      PROVE  HistInv'
  <2> DEFINE t == [math |-> b, toks |-> Fresh(n)]
  <2>1. t \in Turn /\ Fresh(n) \in Seq(Word)
    BY <1>5, TurnGrows
  <2>2. t.math = b /\ t.toks = Fresh(n)
    OBVIOUS
  <2> HIDE DEF t
  <2>3. Told(talk', from') = Told(talk, from) \o Words(t)
    BY <1>1, <1>5, <2>1, ToldAppend DEF t
  <2>4. CASE b /\ ~HasTpl
    <3>1. Words(t) = <<>>
      BY <2>2, <2>4 DEF Words
    <3>2. Told(talk, from) \o <<>> = Told(talk, from)
      BY <1>1, ConcatEmptySeq
    <3> QED
      BY <1>1, <1>5, <2>3, <2>4, <3>1, <3>2 DEF HistInv
  <2>5. CASE ~(b /\ ~HasTpl)
    <3>1. Words(t) = Fresh(n)
      BY <2>2, <2>5 DEF Words
    <3> QED
      BY <1>1, <1>5, <2>1, <2>3, <2>5, <3>1, PushedNewest DEF HistInv
  <2> QED
    BY <2>4, <2>5
<1>6. ASSUME NEW n \in 1 .. MaxPrompt, UserTurn(n) PROVE HistInv'
  <2>1. /\ n \in Nat /\ clock + n <= MaxClock /\ FALSE \in BOOLEAN
        /\ talk' = Append(talk, [math |-> FALSE, toks |-> Fresh(n)])
        /\ from' = from /\ hist' = Pushed(hist, Fresh(n))
    BY <1>6 DEF UserTurn
  <2> QED
    BY <1>5, <2>1
<1>7. ASSUME NEW n \in 1 .. MaxPrompt, MathTurn(n) PROVE HistInv'
  <2>1. /\ n \in Nat /\ clock + n <= MaxClock /\ TRUE \in BOOLEAN
        /\ talk' = Append(talk, [math |-> TRUE, toks |-> Fresh(n)])
        /\ from' = from
        /\ hist' = IF TRUE /\ ~HasTpl THEN hist ELSE Pushed(hist, Fresh(n))
    BY <1>7 DEF MathTurn
  <2> QED
    BY <1>5, <2>1
<1>8. CASE GenToken
  <2>1. PICK tk0 \in Seq(Turn), t, w \in Turn :
          /\ talk = Append(tk0, t) /\ talk' = Append(tk0, w)
          /\ from \in 0 .. Len(tk0) /\ ~t.math /\ ~w.math
          /\ Fresh(1) \in Seq(Word) /\ w.toks = t.toks \o Fresh(1)
    BY <1>8, TokenGrows
  <2> DEFINE k == Told(tk0, from)
             u == t.toks
             x == Fresh(1)
  <2>2. k \in Seq(Word) /\ u \in Seq(Word) /\ x \in Seq(Word)
    BY <2>1, ShownIs DEF Turn
  <2>3. Words(t) = u /\ Words(w) = u \o x
    BY <2>1 DEF Words
  <2>4. Told(talk, from) = k \o u /\ Told(talk', from) = k \o (u \o x)
    BY <2>1, <2>3, ToldAppend
  <2>5. from' = from /\ hist' = Pushed(hist, x)
    BY <1>8 DEF GenToken
  <2> HIDE DEF k, u, x
  <2>6. k \o (u \o x) = (k \o u) \o x
    <3> DEFINE S == Word
    <3>1. k \in Seq(S) /\ u \in Seq(S) /\ x \in Seq(S)
      BY <2>2
    <3> HIDE DEF S
    <3> QED
      BY <3>1, ConcatAssociative, SMTT(30)
  <2>7. Newest(Pushed(hist, x), (k \o u) \o x)
    <3>1. hist \in Seq(Word) /\ Newest(hist, k \o u) /\ k \o u \in Seq(Word)
      BY <1>1, <2>2, <2>4, ConcatProperties DEF HistInv
    <3> QED
      BY <2>2, <3>1, PushedNewest
  <2> QED
    BY <2>4, <2>5, <2>6, <2>7 DEF HistInv
<1>9. ASSUME UNCHANGED <<hist, talk, from>> PROVE HistInv'
  BY <1>9 DEF HistInv
<1>10. CASE LoadNothing \/ LoadLayer \/ LoadFail \/ GenStop \/ GenEnd \/ NoTokens
  BY <1>9, <1>10 DEF LoadNothing, LoadLayer, LoadFail, GenStop, GenEnd, NoTokens
<1>11. CASE LoopHead \/ TurnEnd \/ OtherLine \/ Quit \/ Save
  BY <1>9, <1>11 DEF LoopHead, TurnEnd, OtherLine, Quit, Save
<1>12. CASE SaveOpen \/ SaveLayer \/ SaveFail \/ SaveClose \/ Signal \/ Crash
  BY <1>9, <1>12 DEF SaveOpen, SaveLayer, SaveFail, SaveClose, Signal, Crash
<1>13. CASE UNCHANGED vars
  BY <1>9, <1>13 DEF vars
<1> QED
  BY <1>3, <1>4, <1>6, <1>7, <1>8, <1>10, <1>11, <1>12, <1>13
  DEF Next, User, Program, Over

-----------------------------------------------------------------------------
(* The theorems about ChatSession                                          *)

\* The inductive invariant: the layers and the talk, the file and what is kept
\* of it, the load in progress, and the history.
THEOREM SessionInvariant == Spec => []IInv
<1>1. IInv /\ [Next]_vars => IInv'
  BY TypeStep, StateStep, FileStep, LoadStep, HistStep DEF IInv
<1> QED
  BY <1>1, InitInv, PTL DEF Spec

\* Every variable keeps its type, whatever is interrupted and whatever the
\* file held.
THEOREM SessionTypes == Spec => []TypeOK
<1>1. IInv => TypeOK
  <2> SUFFICES ASSUME IInv PROVE TypeOK
    OBVIOUS
  <2> USE DEF IInv
  <2>1. DOMAIN ssm = Layer /\ \A l \in Layer : ssm[l] \in Seq(0 .. MaxClock)
    BY DEF TypeInv, Tok
  <2>2. Len(hist) <= HistoryMax
    <3>1. Told(talk, from) \in Seq(Word)
      BY ShownIs DEF TypeInv
    <3>2. Len(Told(talk, from)) \in Nat
      BY <3>1, LenProperties
    <3> QED
      BY <3>2, BoundsAssumption DEF HistInv, Newest
  <2>3. \A j \in 1 .. Len(talk) : talk[j].toks \in Seq(1 .. MaxClock)
    <3>1. \A j \in 1 .. Len(talk) : talk[j] \in Turn
      BY ElementOfSeq DEF TypeInv
    <3> QED
      BY <3>1 DEF Turn, Word
  <2> QED
    BY <2>1, <2>2, <2>3 DEF TypeInv, TypeOK, Word
<1> QED
  BY <1>1, SessionInvariant, PTL

\* Over any number of starts, saves, loads, resets, failed loads, signals and
\* crashes, all layers have absorbed one conversation, in order (chat_run,
\* handle_turn, state_save, state_load, state_reset).
THEOREM SessionLineage == Spec => []Lineage
<1>1. IInv => Lineage
  <2> SUFFICES ASSUME IInv, pc \notin {"load", "down"} PROVE Lineage
    BY DEF Lineage
  <2>1. (\A l \in Layer : ssm[l] = ssm[1]) /\ Left(ssm[1], talk)
    BY DEF IInv, StateInv
  <2>2. PICK f \in Seq(Seq(Tok)) :
          /\ Len(f) = Len(talk)
          /\ \A j \in 1 .. Len(talk) : f[j] \in Absorbed(talk[j])
          /\ ssm[1] = FlattenSeq(f)
    BY <2>1 DEF Left
  <2> DEFINE A == UNION {Absorbed(talk[j]) : j \in 1 .. Len(talk)}
  <2>3. \A j \in 1 .. Len(talk) : f[j] \in A
    BY <2>2
  <2>4. f = [j \in 1 .. Len(talk) |-> f[j]]
    BY <2>2, LenProperties
  <2> HIDE DEF A
  <2>5. f \in [1 .. Len(talk) -> A]
    BY <2>3, <2>4
  <2> QED
    BY <2>1, <2>2, <2>5, Zenon DEF Lineage, A
<1> QED
  BY <1>1, SessionInvariant, PTL

\* The repetition penalty sees the newest tokens shown since the start or the
\* reset, and nothing older (history_push, state_load, state_reset).
THEOREM SessionHistory == Spec => []HistoryIsRecent
<1>1. IInv => HistoryIsRecent
  <2> SUFFICES ASSUME IInv PROVE HistoryIsRecent
    OBVIOUS
  <2> DEFINE told == FlattenSeq([j \in 1 .. Len(talk) - from |->
                       LET t == talk[from + j]
                       IN  IF t.math /\ ~HasTpl THEN <<>> ELSE t.toks])
  <2>1. told = Told(talk, from)
    BY DEF Told, Words
  <2> HIDE DEF told
  <2>2. told \in Seq(Word) /\ hist \in Seq(Word) /\ Newest(hist, told)
    BY <2>1, ShownIs DEF IInv, TypeInv, HistInv
  <2>3. IsSuffix(hist, told)
    BY <2>2, NewestIsSuffix
  <2>4. Len(hist) = IF Len(told) < HistoryMax THEN Len(told) ELSE HistoryMax
    BY <2>2 DEF Newest
  <2> QED
    BY <2>3, <2>4 DEF HistoryIsRecent, told
<1> QED
  BY <1>1, SessionInvariant, PTL

\* An exit after a save that reported no error leaves a file that restores the
\* final state (state_save at the end of chat_run).
THEOREM SessionExit == Spec => []ExitIsSaved
<1>1. IInv => ExitIsSaved
  BY DEF IInv, FileInv
<1> QED
  BY <1>1, SessionInvariant, PTL
=============================================================================
