----------------------------- MODULE Arithmetic -----------------------------
(***************************************************************************)
(* The arithmetic that chat mode answers without the model:                *)
(* extract_math_expr turns the words of a question into an expression and  *)
(* eval_expr evaluates it (src/src/chat.c); try_eval_comparison does this  *)
(* for both sides of a comparison.  A question is the sequence of          *)
(* its words after normalisation: lower case, punctuation gone, operators  *)
(* and parentheses words of their own.  An expression is a sequence of     *)
(* items, and a number is an exact fraction instead of a double.           *)
(***************************************************************************)
EXTENDS Integers, Sequences, SequencesExt, FiniteSetsExt

CONSTANTS
  Literal,        \* the words of digits: a function from word to value
  MathMaxTokens,  \* MATH_MAX_TOKENS, 32 in the code
  MaxInputBytes   \* the longest input that is looked at, 256 in the code

Units == [zero |-> 0, one |-> 1, two |-> 2, three |-> 3, four |-> 4,
          five |-> 5, six |-> 6, seven |-> 7, eight |-> 8, nine |-> 9,
          ten |-> 10, eleven |-> 11, twelve |-> 12, thirteen |-> 13,
          fourteen |-> 14, fifteen |-> 15, sixteen |-> 16,
          seventeen |-> 17, eighteen |-> 18, nineteen |-> 19]
Tens == [twenty |-> 20, thirty |-> 30, forty |-> 40, fifty |-> 50,
         sixty |-> 60, seventy |-> 70, eighty |-> 80, ninety |-> 90]
OpWords == [plus |-> "+", add |-> "+", minus |-> "-", subtract |-> "-",
            times |-> "*", over |-> "/"]
OpWordsBy == [multiplied |-> "*", divided |-> "/"]
Aggregates == [sum |-> "+", difference |-> "-", product |-> "*",
               quotient |-> "/"]
OpChars == {"+", "-", "*", "/", "^", "%"}
NoiseWords ==
  {"calculate", "compute", "evaluate", "solve", "what", "what's", "is",
   "how", "much", "please", "the", "of", "tell", "me", "can", "you",
   "could", "find", "get", "determine", "whats"}

\* Items of an expression.  NotMath stands for the NULL of the code.
Num(v) == [op |-> "num", val |-> v]
Sym(c) == [op |-> c, val |-> 0]
NotMath == <<>>

\* Where skipping words from position i on ends.
SkipTo(tok, i, stops) ==
  CHOOSE j \in i .. Len(tok) + 1 :
    /\ j \in stops \cup {Len(tok) + 1}
    /\ \A k \in i .. j - 1 : k \notin stops

\* parse_number_phrase from word pos on; next = pos if there is none.
OneIfZero(n) == IF n = 0 THEN 1 ELSE n

\* Mutant: "and" joins after any number, not only behind hundreds.
NumberPhraseAnyAnd(tok, pos) ==
  LET RECURSIVE Read(_, _, _)
      Read(j, total, cur) ==
        LET w == IF j <= Len(tok) THEN tok[j] ELSE ""
        IN  CASE w \in DOMAIN Units -> Read(j + 1, total, cur + Units[w])
              [] w \in DOMAIN Tens -> Read(j + 1, total, cur + Tens[w])
              [] w = "hundred" -> Read(j + 1, total, OneIfZero(cur) * 100)
              [] w = "thousand" ->
                   Read(j + 1, total + OneIfZero(cur) * 1000, 0)
              [] w = "and" /\ j > pos /\ j < Len(tok) ->
                   Read(j + 1, total, cur)
              [] OTHER -> [value |-> total + cur, next |-> j]
  IN  Read(pos, 0, 0)

NumberPhrase(tok, pos) ==
  LET RECURSIVE Read(_, _, _)
      Read(j, total, cur) ==
        LET w == IF j <= Len(tok) THEN tok[j] ELSE ""
        IN  CASE w \in DOMAIN Units -> Read(j + 1, total, cur + Units[w])
              [] w \in DOMAIN Tens -> Read(j + 1, total, cur + Tens[w])
              [] w = "hundred" -> Read(j + 1, total, OneIfZero(cur) * 100)
              [] w = "thousand" ->
                   Read(j + 1, total + OneIfZero(cur) * 1000, 0)
              [] w = "and" /\ j > pos /\ cur >= 100 /\ j < Len(tok) ->
                   Read(j + 1, total, cur)
              [] OTHER -> [value |-> total + cur, next |-> j]
  IN  Read(pos, 0, 0)

\* Numbers are written next to each other without a separator, so the digits
\* of a number that follows another one are appended to it.
RECURSIVE DigitShift(_)
DigitShift(v) == IF v < 10 THEN 10 ELSE 10 * DigitShift(v \div 10)

WriteNum(expr, v) ==
  LET n == Len(expr)
  IN  IF n > 0 /\ expr[n].op = "num"
      THEN [expr EXCEPT ![n] = Num(@.val * DigitShift(v) + v)]
      ELSE Append(expr, Num(v))

\* What the main loop of extract_math_expr carries.
AddNum(s, v, next) ==
  [s EXCEPT !.i = next, !.expr = WriteNum(@, v), !.num = TRUE]
AddOp(s, c, next) ==
  [s EXCEPT !.i = next, !.expr = Append(@, Sym(c)), !.op = TRUE]

WordAt(tok, i) == IF i \in 1 .. Len(tok) THEN tok[i] ELSE ""

\* "sum of A and B": the operator goes in behind A.
InjectAfterPhrase(tok, agg, s) ==
  IF agg = "" \/ s.op THEN s
  ELSE AddOp(s, agg, IF WordAt(tok, s.i) = "and" THEN s.i + 1 ELSE s.i)

InjectAfterLiteral(tok, agg, s) ==
  IF agg # "" /\ ~s.op /\ WordAt(tok, s.i) = "and"
  THEN AddOp(s, agg, s.i + 1) ELSE s

\* An "and" stands for the operator of the aggregate, if none is written yet,
\* and otherwise for a plus behind a number; else it is skipped.
JoinByAnd(agg, s) ==
  CASE agg # "" /\ ~s.op -> AddOp(s, agg, s.i + 1)
    [] (agg = "" \/ s.op) /\ s.num -> AddOp(s, "+", s.i + 1)
    [] OTHER -> [s EXCEPT !.i = @ + 1]

RECURSIVE Scan(_, _, _)
Scan(tok, agg, s) ==
  LET w == WordAt(tok, s.i)
      phrase == NumberPhrase(tok, s.i)
      by == WordAt(tok, s.i + 1) = "by"
  IN  CASE s.i > Len(tok) -> IF s.num /\ s.op THEN s.expr ELSE NotMath
        [] phrase.next > s.i ->
             Scan(tok, agg, InjectAfterPhrase(tok, agg,
                              AddNum(s, phrase.value, phrase.next)))
        [] w \in DOMAIN Literal ->
             Scan(tok, agg, InjectAfterLiteral(tok, agg,
                              AddNum(s, Literal[w], s.i + 1)))
        [] w \in DOMAIN OpWords ->
             Scan(tok, agg, AddOp(s, OpWords[w], s.i + 1))
        [] w \in DOMAIN OpWordsBy /\ by ->
             Scan(tok, agg, AddOp(s, OpWordsBy[w], s.i + 2))
        [] w \in OpChars -> Scan(tok, agg, AddOp(s, w, s.i + 1))
        [] w \in {"(", ")"} ->
             Scan(tok, agg, [s EXCEPT !.i = @ + 1,
                                      !.expr = Append(@, Sym(w))])
        [] w = "and" ->
             Scan(tok, agg, JoinByAnd(agg, s))
        [] OTHER -> NotMath

\* The words that survive tokenisation.  A question of one word more than the
\* limit has lost it in the test for more words; a longer one is refused.
Tokens(words) ==
  IF Len(words) > MathMaxTokens + 1 THEN <<>>
  ELSE SubSeq(words, 1,
              IF Len(words) < MathMaxTokens THEN Len(words) ELSE MathMaxTokens)

StartsMath(w) ==
  w \in DOMAIN Literal \cup DOMAIN Units \cup DOMAIN Tens \cup OpChars
          \cup {"("} \cup DOMAIN Aggregates

\* The bytes of a text of these words with one blank between two of them.
QuestionBytes(words) ==
  FoldLeft(LAMBDA n, w : n + Len(w), Max({0, Len(words) - 1}), words)
TooLong(words) == QuestionBytes(words) > MaxInputBytes

ExtractMathExpr(words) ==
  LET tok   == IF TooLong(words) THEN <<>> ELSE Tokens(words)
      first == SkipTo(tok, 1, {k \in DOMAIN tok : tok[k] \notin NoiseWords})
      named == WordAt(tok, first) \in DOMAIN Aggregates
      agg   == IF named THEN Aggregates[tok[first]] ELSE ""
      body  == IF ~named THEN first
               ELSE IF WordAt(tok, first + 1) = "of" THEN first + 2
               ELSE first + 1
      start == SkipTo(tok, body, {k \in DOMAIN tok : StartsMath(tok[k])})
  IN  Scan(tok, agg,
           [i |-> start, expr |-> <<>>, num |-> FALSE, op |-> FALSE])

-----------------------------------------------------------------------------
(* Numbers: fractions in lowest terms.  A power with a fractional exponent *)
(* is the one opaque value Irrational.  A pole and a power that is no real *)
(* number are NotFinite, and so is what is computed from it (a number      *)
(* divided by an infinity is 0 in the code, beyond the bounds of the runs, *)
(* as is every other calculation with these two values).                   *)

RECURSIVE Gcd(_, _)
Gcd(a, b) == IF b = 0 THEN a ELSE Gcd(b, a % b)
AbsVal(n) == IF n < 0 THEN -n ELSE n
Frac(n, d) ==
  LET g == Gcd(AbsVal(n), AbsVal(d))
      s == IF d < 0 THEN -1 ELSE 1
  IN  [n |-> s * (n \div g), d |-> s * (d \div g)]
Whole(n) == [n |-> n, d |-> 1]
Irrational == [n |-> 0, d |-> 0]
NotFinite  == [n |-> 1, d |-> 0]
IsZero(x) == x = Whole(0)

\* Neither a fraction nor Irrational, whatever its sign.
IsNotFinite(x) == x.d = 0 /\ x.n # 0

\* What is computed from operands that are not both fractions.
Fractions(x, y) == x.d # 0 /\ y.d # 0
Opaque(x, y) ==
  IF IsNotFinite(x) \/ IsNotFinite(y) THEN NotFinite ELSE Irrational

WholePower(x, k) ==
  IF k >= 0 THEN [n |-> x.n ^ k, d |-> x.d ^ k]
  ELSE Frac(x.d ^ (-k), x.n ^ (-k))

\* pow: 1 for the base 1 and for the exponent 0; a power of 0 is 0 or a pole;
\* a negative base has no power with a fractional exponent.
Power(x, y) ==
  IF x = Whole(1) \/ IsZero(y) THEN Whole(1)
  ELSE IF ~Fractions(x, y) THEN Opaque(x, y)
  ELSE CASE IsZero(x) -> IF y.n > 0 THEN Whole(0) ELSE NotFinite
         [] x.n < 0 /\ y.d # 1 -> NotFinite
         [] x.n > 0 /\ y.d # 1 -> Irrational
         [] x.n # 0 /\ y.d = 1 -> WholePower(x, y.n)

\* fmod: the quotient is truncated, the result has the sign of x.
Remainder(x, y) ==
  LET a == AbsVal(x.n * y.d)
      b == AbsVal(y.n * x.d)
      r == Frac(a % b, x.d * y.d)
  IN  IF x.n < 0 THEN [r EXCEPT !.n = -@] ELSE r

\* The operation of an operator; a zero divisor is the caller's error.
Apply(op, x, y) ==
  IF op = "^" THEN Power(x, y)
  ELSE IF ~Fractions(x, y) THEN Opaque(x, y)
  ELSE CASE op = "+" -> Frac(x.n * y.d + y.n * x.d, x.d * y.d)
         [] op = "-" -> Frac(x.n * y.d - y.n * x.d, x.d * y.d)
         [] op = "*" -> Frac(x.n * y.n, x.d * y.d)
         [] op = "/" -> Frac(x.n * y.d, x.d * y.n)
         [] op = "%" -> Remainder(x, y)

-----------------------------------------------------------------------------
(* The recursive descent: value, next position and whether it failed.      *)

OpAt(expr, p) == IF p <= Len(expr) THEN expr[p].op ELSE "end"
Failed(p) == [val |-> Whole(0), pos |-> p, err |-> TRUE]
Combine(op, l, r) ==
  [val |-> Apply(op, l.val, r.val), pos |-> r.pos, err |-> l.err \/ r.err]

RECURSIVE EvalExpr(_, _)

EvalBase(expr, p) ==
  CASE OpAt(expr, p) = "(" ->
         LET r == EvalExpr(expr, p + 1)
         IN  IF OpAt(expr, r.pos) = ")" THEN [r EXCEPT !.pos = @ + 1]
             ELSE [r EXCEPT !.err = TRUE]
    [] OpAt(expr, p) = "num" ->
         [val |-> Whole(expr[p].val), pos |-> p + 1, err |-> FALSE]
    [] OTHER -> Failed(p)

\* Mutant: unary minus belongs to the base, as the grammar in the comment
\* above the evaluator has it.
RECURSIVE EvalFactorTight(_, _)
EvalFactorTight(expr, p) ==
  LET neg  == OpAt(expr, p) = "-"
      b    == EvalBase(expr, IF neg THEN p + 1 ELSE p)
      base == IF neg THEN [b EXCEPT !.val.n = -@] ELSE b
  IN  IF OpAt(expr, base.pos) = "^"
      THEN Combine("^", base, EvalFactorTight(expr, base.pos + 1))
      ELSE base

\* Unary minus binds weaker than ^, which groups to the right.
RECURSIVE EvalFactor(_, _)
EvalFactor(expr, p) ==
  LET neg  == OpAt(expr, p) = "-"
      base == EvalBase(expr, IF neg THEN p + 1 ELSE p)
      r    == IF OpAt(expr, base.pos) = "^"
              THEN Combine("^", base, EvalFactor(expr, base.pos + 1))
              ELSE base
  IN  IF neg THEN [r EXCEPT !.val.n = -@] ELSE r

EvalTerm(expr, p) ==
  LET RECURSIVE More(_)
      More(l) ==
        LET op == OpAt(expr, l.pos)
            r  == EvalFactor(expr, l.pos + 1)
        IN  CASE op \notin {"*", "/", "%"} -> l
              [] op \in {"/", "%"} /\ IsZero(r.val) -> Failed(r.pos)
              [] OTHER -> More(Combine(op, l, r))
  IN  More(EvalFactor(expr, p))

EvalExpr(expr, p) ==
  LET RECURSIVE More(_)
      More(l) ==
        LET op == OpAt(expr, l.pos)
        IN  IF op \notin {"+", "-"} THEN l
            ELSE More(Combine(op, l, EvalTerm(expr, l.pos + 1)))
  IN  More(EvalTerm(expr, p))

\* A result of eval_expr counts if it has no error, is finite and has used the
\* whole expression: the value in a singleton, or nothing.
Complete(expr, r) ==
  IF r.err \/ r.pos <= Len(expr) \/ IsNotFinite(r.val)
  THEN {} ELSE {r.val}

EvalAll(expr) ==
  IF expr = NotMath THEN {} ELSE Complete(expr, EvalExpr(expr, 1))

\* try_eval_math, with nothing for NULL.
TryEvalMath(words) == EvalAll(ExtractMathExpr(words))

-----------------------------------------------------------------------------
(* Comparisons: "which is larger, A or B", "A vs B", "is A less than B".   *)

Separators ==
  << <<"versus">>, <<"vs.">>, <<"vs">>, <<"or">>, <<"larger", "than">>,
     <<"bigger", "than">>, <<"greater", "than">>, <<"smaller", "than">>,
     <<"less", "than">> >>
QuestionPhrases ==
  { <<"which", "one", "is">>, <<"which", "is">>, <<"what", "is">>,
    <<"compare">>, <<"is">> }

\* Where a separator stands, with words on both sides.
Places(words, sep) ==
  {i \in 2 .. Len(words) - Len(sep) : SubSeq(words, i, i + Len(sep) - 1) = sep}

\* Behind a question phrase all words up to the first digit, parenthesis or
\* minus sign are taken for an adjective.
LeftSide(words) ==
  LET Asked  == {q \in QuestionPhrases : IsPrefix(q, words)}
      Starts == {k \in DOMAIN words :
                   words[k] \in DOMAIN Literal \cup {"(", "-"}}
  IN  IF Asked = {} THEN words
      ELSE SubSeq(words, SkipTo(words, 1, Starts), Len(words))

\* eval_raw_expr: an expression or, which is none, a number in digits alone.
EvalRawExpr(words) ==
  IF Len(words) = 1 /\ words[1] \in DOMAIN Literal
  THEN {Whole(Literal[words[1]])} ELSE TryEvalMath(words)

Larger(x, y) ==
  IF x.n * y.d > y.n * x.d THEN "first"
  ELSE IF x.n * y.d < y.n * x.d THEN "second" ELSE "equal"

\* try_eval_comparison: the first separator of the list that occurs, at its
\* first place.  Both sides of an input that is not too long fit their buffers.
TryEvalComparison(words) ==
  LET Found == {k \in DOMAIN Separators : Places(words, Separators[k]) # {}}
      sep   == Separators[Min(Found)]
      at    == Min(Places(words, sep))
  IN  IF TooLong(words) \/ Found = {} THEN {}
      ELSE {Larger(x, y) :
              x \in EvalRawExpr(LeftSide(SubSeq(words, 1, at - 1))),
              y \in EvalRawExpr(SubSeq(words, at + Len(sep), Len(words)))}
=============================================================================
