------------------------------- MODULE MCText -------------------------------
(***************************************************************************)
(* What becomes of the text a user types: chat mode answers arithmetic by  *)
(* itself, and everything else is cut into tokens.  Questions for the      *)
(* arithmetic are built up word by word together with what the speaker     *)
(* means by them: a formula is written in symbols and judged by an         *)
(* independent reading of the grammar; a sentence is spoken in words and   *)
(* must be understood as it was meant.  A text for the tokenizer is built  *)
(* up byte by byte, for each of three vocabularies.                        *)
(***************************************************************************)
EXTENDS Arithmetic, Tokenizer, Bitwise, FiniteSets, SequencesExt, TLC

CONSTANTS MaxFormula, MaxSentence, Numbers

VARIABLES
  kind,   \* "formula", "sentence" or "text"
  words,  \* the question so far
  said,   \* the expression it stands for
  want    \* what may come next; "nothing" ends a formula after an error

vars == <<kind, words, said, want>>

Literals == ("1" :> 1 @@ "2" :> 2 @@ "10" :> 10)
SpokenNumbers == {2, 23, 102, 2005}
FormulaDigits == {"1", "2"}

-----------------------------------------------------------------------------
(* The grammar, read as the set of values of every stretch expr[i .. j]:   *)
(*   expr = term, or expr + term, or expr - term                          *)
(*   term = factor, or term * factor, likewise for / and %                 *)
(*   factor = base or base ^ factor, with at most one minus in front       *)
(*   base = a number, or an expr in parentheses                            *)
(* A division by zero has the value Undefined.                             *)

Undefined == [n |-> 2, d |-> 0]
Value(op, x, y) ==
  IF Undefined \in {x, y} \/ (op \in {"/", "%"} /\ IsZero(y)) THEN Undefined
  ELSE Apply(op, x, y)
Values(op, X, Y) == {Value(op, x, y) : x \in X, y \in Y}
Negated(x) == IF x = Undefined THEN x ELSE [x EXCEPT !.n = -@]

RECURSIVE ExprValues(_, _, _)
RECURSIVE FactorValues(_, _, _)
RECURSIVE TermValues(_, _, _)

BaseValues(e, i, j) ==
  CASE i = j /\ e[i].op = "num" -> {Whole(e[i].val)}
    [] i < j /\ e[i].op = "(" /\ e[j].op = ")" -> ExprValues(e, i + 1, j - 1)
    [] OTHER -> {}

PowerValues(e, i, j) ==
  BaseValues(e, i, j) \cup
    UNION {Values("^", BaseValues(e, i, k - 1), FactorValues(e, k + 1, j)) :
             k \in {k \in i + 1 .. j - 1 : e[k].op = "^"}}

FactorValues(e, i, j) ==
  IF i < j /\ e[i].op = "-"
  THEN {Negated(x) : x \in PowerValues(e, i + 1, j)}
  ELSE PowerValues(e, i, j)

TermValues(e, i, j) ==
  FactorValues(e, i, j) \cup
    UNION {Values(e[k].op, TermValues(e, i, k - 1), FactorValues(e, k + 1, j)) :
             k \in {k \in i + 1 .. j - 1 : e[k].op \in {"*", "/", "%"}}}

ExprValues(e, i, j) ==
  TermValues(e, i, j) \cup
    UNION {Values(e[k].op, ExprValues(e, i, k - 1), TermValues(e, k + 1, j)) :
             k \in {k \in i + 1 .. j - 1 : e[k].op \in {"+", "-"}}}

-----------------------------------------------------------------------------
(* Formulas: after a complete operand come an operator, a closing          *)
(* parenthesis or an error; an error ends the formula.                     *)

Say(ws, items, next) ==
  /\ words' = words \o ws
  /\ said' = said \o items
  /\ want' = next
  /\ UNCHANGED kind

Symbol(w) == IF w \in DOMAIN Literal THEN Num(Literal[w]) ELSE Sym(w)
Fits(w) == IF want = "operand" THEN w \in FormulaDigits \cup {"(", "-"}
           ELSE w \in OpChars \cup {")"}
After(w) == IF w \in FormulaDigits \cup {")"} THEN "operator" ELSE "operand"

WriteSymbol ==
  /\ kind = "formula" /\ want # "nothing" /\ Len(words) < MaxFormula
  /\ \E w \in FormulaDigits \cup OpChars \cup {"(", ")"} :
       \* a question never starts with a closing parenthesis, and two numbers
       \* in a row are one number, as in 1,000
       /\ ~(words = <<>> /\ w = ")")
       /\ ~(want = "operator" /\ w \in FormulaDigits /\ words[Len(words)] # ")")
       /\ Say(<<w>>, <<Symbol(w)>>, IF Fits(w) THEN After(w) ELSE "nothing")

-----------------------------------------------------------------------------
(* Sentences.                                                              *)

TensWord(n) == CHOOSE w \in DOMAIN Tens : Tens[w] = n
UnitWord(n) == CHOOSE w \in DOMAIN Units : Units[w] = n

BelowHundred(n) ==
  CASE n < 20 -> <<UnitWord(n)>>
    [] n >= 20 /\ n % 10 = 0 -> <<TensWord(n)>>
    [] OTHER -> <<TensWord(n - (n % 10)), UnitWord(n % 10)>>

\* With or without the "and" behind the hundreds.
RECURSIVE Spellings(_)
Spellings(n) ==
  CASE n < 100 -> {BelowHundred(n)}
    [] n >= 1000 ->
         LET k == <<UnitWord(n \div 1000), "thousand">>
         IN  IF n % 1000 = 0 THEN {k}
             ELSE {k \o s : s \in Spellings(n % 1000)}
    [] OTHER ->
         LET h == <<UnitWord(n \div 100), "hundred">>
         IN  IF n % 100 = 0 THEN {h}
             ELSE {h \o a \o BelowHundred(n % 100) : a \in {<<>>, <<"and">>}}

\* A number as words; an "and" may not follow one that ends in hundreds.
SayNumber(next(_)) ==
  \/ \E n \in Numbers : \E s \in Spellings(n) :
       Say(s, <<Num(n)>>, next(n % 1000 < 100))
  \/ \E w \in DOMAIN Literal : Say(<<w>>, <<Num(Literal[w])>>, next(TRUE))

SpokenOps ==
  {<<w, OpWords[w]>> : w \in {"plus", "minus", "times"}}
    \cup {<<"+", "+">>, <<"/", "/">>}

InSentence(w) == kind = "sentence" /\ want = w /\ Len(words) < MaxSentence

\* Where the two sides of a comparison meet.
Versus == Sym("?")
Compared == {k \in DOMAIN said : said[k] = Versus}

SpeakNoise == /\ InSentence("start")
              /\ \E w \in {"what", "calcuate"} : Say(<<w>>, <<>>, "body")

\* A question phrase is followed by a number in digits.
SpeakPhrase ==
  /\ InSentence("start")
  /\ \E q \in {<<"which", "is", "larger">>, <<"is">>, <<"compare">>} :
       Say(q, <<>>, "digits")

SpeakDigits == /\ InSentence("digits")
               /\ \E w \in DOMAIN Literal : Say(<<w>>, <<Num(Literal[w])>>, "op")

SpeakFirst == /\ InSentence("start") \/ InSentence("body")
              /\ SayNumber(LAMBDA open : IF open THEN "op or and" ELSE "op")

SpeakOp ==
  /\ InSentence("op") \/ InSentence("op or and")
  /\ \/ \E o \in SpokenOps : Say(<<o[1]>>, <<Sym(o[2])>>, "number")
     \/ Say(<<"divided", "by">>, <<Sym("/")>>, "number")
     \/ want = "op or and" /\ Say(<<"and">>, <<Sym("+")>>, "number")

SpeakNumber == /\ InSentence("number")
               /\ SayNumber(LAMBDA open : IF open THEN "op or and" ELSE "op")

\* The other side of a comparison.
SpeakVersus ==
  /\ InSentence("op") \/ InSentence("op or and")
  /\ Compared = {}
  /\ \E sep \in {<<"vs">>, <<"or">>, <<"less", "than">>} :
       Say(sep, <<Versus>>, "number")

\* "product of A and B": the operator is named first and belongs between.
SpeakAggregate ==
  /\ kind = "sentence" /\ words \in {<<>>, <<"what">>}
  /\ \E a \in DOMAIN Aggregates, of \in {<<>>, <<"of">>}, s \in {2, 23, 2005} :
       \E spell \in Spellings(s) :
         Say(<<a>> \o of \o spell \o <<"and">>,
             <<Num(s), Sym(Aggregates[a])>>, "last number")

SpeakLast == /\ InSentence("last number")
             /\ SayNumber(LAMBDA open : "done")

-----------------------------------------------------------------------------
(* Texts.  The vocabularies have the 256 bytes in GPT-2's order, spelled   *)
(* in its encoding or raw, and some longer tokens, one of them twice.      *)
(* "holes" has no token for two of the bytes: one is replaced by a second  *)
(* copy of another byte, one is only known together with its neighbour.    *)

ByteOrder ==
  SelectSeq([i \in 1 .. 256 |-> i - 1], LAMBDA b : b \in Printable)
    \o SelectSeq([i \in 1 .. 256 |-> i - 1], LAMBDA b : b \notin Printable)
Merged == << <<32, 97>>, <<97, 115>>, <<97, 97>>, <<97, 115>>, <<39, 115>>,
             <<233, 97>>, <<49, 49>>, <<32, 32, 97>>, <<10, 10>> >>
Entries == [i \in 1 .. 256 + Len(Merged) |->
              IF i <= 256 THEN <<ByteOrder[i]>> ELSE Merged[i - 256]]
PlaceOf(b) == CHOOSE i \in 1 .. 256 : ByteOrder[i] = b
Holed == [Entries EXCEPT ![PlaceOf(233)] = <<98>>,
                         ![PlaceOf(49)] = <<97>>]

Vocabularies == [spelled |-> [entries |-> Entries, spelled |-> TRUE],
                 raw     |-> [entries |-> Entries, spelled |-> FALSE],
                 holes   |-> [entries |-> Holed, spelled |-> TRUE]]

ByteXors == [h \in Bytes |-> [b \in Bytes |-> h ^^ b]]

\* A space, letters, of which s follows an apostrophe, a digit, an underscore,
\* a newline, and a byte above 127.
SomeBytes == {32, 97, 39, 115, 49, 95, 10, 233}

-----------------------------------------------------------------------------
FirstWant(k) == CASE k = "formula" -> {"operand"}
                  [] k = "sentence" -> {"start"}
                  [] k = "text" -> {"nothing"}

Init == /\ kind \in {"formula", "sentence", "text"}
        /\ words = <<>> /\ said = <<>>
        /\ want \in FirstWant(kind)
        /\ TextInit
        /\ kind # "text" => vocabFile = "raw"

NextQuestion ==
  /\ words # <<>>
  /\ words' = <<>> /\ said' = <<>>
  /\ want' \in FirstWant(kind)
  /\ UNCHANGED kind

Question == \/ NextQuestion \/ WriteSymbol
            \/ SpeakNoise \/ SpeakFirst \/ SpeakOp \/ SpeakNumber
            \/ SpeakPhrase \/ SpeakDigits \/ SpeakVersus
            \/ SpeakAggregate \/ SpeakLast

Next == \/ Question /\ UNCHANGED textVars
        \/ kind = "text" /\ TextNext /\ UNCHANGED vars

Spec == Init /\ [][Next]_<<vars, textVars>>

-----------------------------------------------------------------------------
\* A formula with a number and an operator has exactly the value the grammar
\* gives it, with + - and * / % grouping to the left, ^ to the right and
\* unary minus outside ^; what the grammar does not derive, or what divides
\* by zero, is left to the model (eval_expr and try_eval_math).
GrammarRespected ==
  kind = "formula" =>
    LET ops == {said[i].op : i \in 1 .. Len(said)}
        ref == ExprValues(said, 1, Len(said))
    IN  /\ Cardinality(ref) <= 1
        /\ TryEvalMath(words) =
             IF "num" \in ops /\ ops \cap OpChars # {}
             THEN {v \in ref \ {Undefined} : ~IsNotFinite(v)} ELSE {}

\* A sentence that is complete and not too long is turned into the expression
\* the speaker means: spelled numbers, operators of one and two words, the
\* "and" inside a number, between two numbers and in "sum of A and B", behind
\* a polite or misspelled beginning (extract_math_expr).  A comparison is
\* answered only as it was meant, and always when its numbers are in digits
\* (try_eval_comparison).
Understood ==
  (kind = "sentence" /\ want \in {"op", "op or and", "done"}
     /\ Len(words) <= MathMaxTokens /\ Len(said) > 1) =>
    /\ Compared = {} => ExtractMathExpr(words) = said
    /\ \A k \in Compared :
         LET Meant == {Larger(x, y) : x \in ExprValues(said, 1, k - 1),
                                      y \in ExprValues(said, k + 1, Len(said))}
             InDigits == \A i \in DOMAIN words :
                           words[i] \notin DOMAIN Units \cup DOMAIN Tens
             Bare == words[1] \in DOMAIN Literal \cup {"which", "is", "compare"}
         IN  \A answers \in {TryEvalComparison(words)} :
               /\ answers \subseteq Meant
               /\ InDigits /\ Bare => answers = Meant

=============================================================================
