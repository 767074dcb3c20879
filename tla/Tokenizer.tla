----------------------------- MODULE Tokenizer ------------------------------
(***************************************************************************)
(* The tokenizer (src/src/tokenizer.c): from the bytes of a text to token  *)
(* numbers and back.  A string is a sequence of bytes.  A vocabulary file  *)
(* comes in one of two formats, GPT-2's byte encoding, where every byte is *)
(* spelled as a printable character in UTF-8, or the raw bytes, and the    *)
(* loader tells them apart by the token of a space.  The hash is the       *)
(* code's own, of which only the bits that number a slot are kept.  The    *)
(* loops of the code are functions over their rounds, from 0 to a number   *)
(* of rounds that is enough.                                               *)
(***************************************************************************)
EXTENDS Integers, Sequences, FiniteSetsExt

CONSTANTS
  HtSize,     \* TOK_HT_SIZE, 2^17 in the code; a smaller power of two in runs
  XorByte,    \* the operator ^ on two bytes
  Files,      \* vocabulary files: the tokens, and whether they are spelled
  TextBytes,  \* what texts of more than one byte are made of
  MaxText,    \* bound: bytes of a text
  MaxTokens   \* the room the caller has for tokens

Bytes == 0 .. 255
Space == 32
Empty == -1       \* an unused slot, and what a look-up that fails returns

ASSUME TableAssumption ==
  /\ HtSize \in Nat \ {0}
  /\ XorByte \in [Bytes -> [Bytes -> Bytes]]

\* A slot is left free when all tokens are entered (50257 of 2^17), and token
\* 220 is a space.
ASSUME FilesAssumption ==
  \A name \in DOMAIN Files :
    /\ Files[name].entries \in Seq(Seq(Bytes))
    /\ Len(Files[name].entries) \in 221 .. HtSize - 1
    /\ Files[name].entries[221] = <<Space>>
    /\ Files[name].spelled \in BOOLEAN

ASSUME TextAssumption ==
  TextBytes \subseteq Bytes \ {0} /\ MaxText \in Nat /\ MaxTokens \in Nat

-----------------------------------------------------------------------------
(* GPT-2's byte encoding.                                                  *)

Printable == (33 .. 126) \cup (161 .. 172) \cup (174 .. 255)

\* init_byte_encoder: the code point a byte is spelled with, and back.
byte_to_unicode ==
  [b \in Bytes |->
     IF b \in Printable THEN b
     ELSE 256 + Cardinality({c \in 0 .. b - 1 : c \notin Printable})]

unicode_to_byte ==
  LET Known == {byte_to_unicode[b] : b \in Bytes}
  IN  [cp \in 0 .. 511 |->
         IF cp \in Known THEN CHOOSE b \in Bytes : byte_to_unicode[b] = cp
         ELSE -1]

EncodeByte(b) ==
  LET cp == byte_to_unicode[b]
  IN  IF cp < 128 THEN <<cp>> ELSE <<192 + cp \div 64, 128 + (cp % 64)>>

\* text_to_byte_encoding.
EncodeText(s) ==
  LET coded[n \in 0 .. Len(s)] ==
        IF n = 0 THEN <<>> ELSE coded[n - 1] \o EncodeByte(s[n])
  IN  coded[Len(s)]

\* The code point at the head of s and the number of bytes it takes.
DecodeCodepoint(s) ==
  CASE s[1] \div 32 = 6 /\ Len(s) >= 2 ->
         [cp |-> (s[1] % 32) * 64 + (s[2] % 64), size |-> 2]
    [] s[1] \div 16 = 14 /\ Len(s) >= 3 ->
         [cp |-> (s[1] % 16) * 4096 + (s[2] % 64) * 64 + (s[3] % 64),
          size |-> 3]
    [] OTHER -> [cp |-> s[1], size |-> 1]

DecodedByte(cp) ==
  LET b == IF cp < 512 THEN unicode_to_byte[cp] ELSE -1
  IN  IF b >= 0 THEN b ELSE cp % 256

\* One round of a loop over a string keeps the position it is at and what it
\* has put out.
At(i, out) == [i |-> i, out |-> out]

DecodeRound(s, w) ==
  LET d == DecodeCodepoint(SubSeq(s, w.i, Len(s)))
  IN  IF w.i > Len(s) THEN w
      ELSE At(w.i + d.size, Append(w.out, DecodedByte(d.cp)))

\* decode_token_to_bytes.
DecodeToken(s) ==
  LET round[n \in 0 .. Len(s)] ==
        IF n = 0 THEN At(1, <<>>) ELSE DecodeRound(s, round[n - 1])
  IN  round[Len(s)].out

-----------------------------------------------------------------------------
(* The table of tokens.  Numbers of tokens start at 0, positions in the    *)
(* sequence vocab at 1.                                                    *)

Token(vocab, id) == vocab[id + 1]

\* FNV-1a, modulo the number of slots.
FnvBasis == 40389   \* 2166136261 modulo 2^17
FnvPrime == 403     \* 16777619 modulo 2^17

FnvRound(h, b) ==
  ((h - (h % 256) + XorByte[h % 256][b]) * FnvPrime) % HtSize

Fnv1a(s) ==
  LET hash[n \in 0 .. Len(s)] ==
        IF n = 0 THEN FnvBasis % HtSize ELSE FnvRound(hash[n - 1], s[n])
  IN  hash[Len(s)]

\* Mutant: a taken slot is given to the new token.
FreeSlotTaken(ht, h) == h

\* The slot a token with hash h is entered in.
FreeSlot(ht, h) ==
  LET k == CHOOSE k \in 0 .. HtSize - 1 :
             /\ ht[(h + k) % HtSize] = Empty
             /\ \A l \in 0 .. k - 1 : ht[(h + l) % HtSize] # Empty
  IN  (h + k) % HtSize

Enter(ht, vocab, id) ==
  [ht EXCEPT ![FreeSlot(ht, Fnv1a(Token(vocab, id)))] = id]

\* The table when all tokens are entered, in the order of their numbers.
Entered(vocab) ==
  LET table[n \in 0 .. Len(vocab)] ==
        IF n = 0 THEN [h \in 0 .. HtSize - 1 |-> Empty]
        ELSE Enter(table[n - 1], vocab, n - 1)
  IN  table[Len(vocab)]

\* tokenizer_load of a complete file.  Token 220 is a space: one byte of raw
\* text, two bytes of the encoding.
Load(vocab) ==
  [id_to_token |-> vocab,
   ht_ids |-> Entered(vocab),
   is_byte_encoded |-> /\ Len(Token(vocab, 220)) = 2
                       /\ Token(vocab, 220)[1] = 196]

\* tokenizer_lookup: probe from the hash on until the token or a free slot.
Lookup(tok, s) ==
  LET h == Fnv1a(s)
      Found(k) == tok.ht_ids[(h + k) % HtSize]
      Stops(k) == Found(k) = Empty \/ Token(tok.id_to_token, Found(k)) = s
  IN  Found(CHOOSE k \in 0 .. HtSize - 1 :
              Stops(k) /\ \A l \in 0 .. k - 1 : ~Stops(l))

-----------------------------------------------------------------------------
(* Words.                                                                  *)

Alpha == (65 .. 90) \cup (97 .. 122)
Digit == 48 .. 57
White == (9 .. 13) \cup {32}
Other == Bytes \ (Alpha \cup Digit \cup White)

Apostrophe == 39
\* The endings 's 't 'm 'd and 're 've 'll.
ShortEndings == {<<115>>, <<116>>, <<109>>, <<100>>}
LongEndings == {<<114, 101>>, <<118, 101>>, <<108, 108>>}

\* The length of a contraction at the head of s, or 0.
Contraction(s) ==
  LET Ends(n, Endings) ==
        Len(s) >= n /\ s[1] = Apostrophe /\ SubSeq(s, 2, n) \in Endings
  IN  CASE Ends(2, ShortEndings) -> 2
        [] Ends(3, LongEndings) -> 3
        [] OTHER -> 0

\* Where the run of bytes of a class that starts at i ends.
RunEnd(s, i, Class) ==
  CHOOSE j \in i .. Len(s) :
    /\ \A k \in i .. j : s[k] \in Class
    /\ j < Len(s) => s[j + 1] \notin Class

\* Mutant: white space is looked for before a word with a space in front.
MatchWordWhiteFirst(s) ==
  LET Class == CHOOSE C \in {Alpha, Digit, Other, White} : s[1] \in C
  IN  IF Contraction(s) > 0 THEN Contraction(s) ELSE RunEnd(s, 1, Class)

\* match_gpt2_word: the length of the word at the head of s.
MatchWord(s) ==
  LET i == IF s[1] = Space THEN 2 ELSE 1
  IN  CASE Contraction(s) > 0 -> Contraction(s)
        [] Contraction(s) = 0 /\ i <= Len(s) /\ s[i] \notin White ->
             RunEnd(s, i, CHOOSE C \in {Alpha, Digit, Other} : s[i] \in C)
        [] OTHER -> RunEnd(s, 1, White)

-----------------------------------------------------------------------------
(* tokenizer_encode and tokenizer_decode_to_bytes.                         *)

\* Where the tokens end that occur in s at i.
Ends(tok, s, i) ==
  {j \in i .. Len(s) : Lookup(tok, SubSeq(s, i, j)) # Empty}

\* Mutant: what no token starts with ends the word.
GreedyRoundGivesUp(tok, s, max, w) ==
  LET e == Ends(tok, s, w.i)
  IN  CASE w.i > Len(s) \/ Len(w.out) >= max -> w
        [] w.i <= Len(s) /\ Len(w.out) < max /\ e = {} -> At(Len(s) + 1, w.out)
        [] OTHER -> At(Max(e) + 1,
                       Append(w.out, Lookup(tok, SubSeq(s, w.i, Max(e)))))

\* The longest token, if there is room for one; a byte no token starts with
\* is skipped.
GreedyRound(tok, s, max, w) ==
  LET e == Ends(tok, s, w.i)
  IN  CASE w.i > Len(s) \/ Len(w.out) >= max -> w
        [] w.i <= Len(s) /\ Len(w.out) < max /\ e = {} -> At(w.i + 1, w.out)
        [] OTHER -> At(Max(e) + 1,
                       Append(w.out, Lookup(tok, SubSeq(s, w.i, Max(e)))))

\* The tokens of one word, at most max of them.
Greedy(tok, s, max) ==
  LET round[n \in 0 .. Len(s)] ==
        IF n = 0 THEN At(1, <<>>) ELSE GreedyRound(tok, s, max, round[n - 1])
  IN  round[Len(s)].out

\* One word of the text, as the file spells it.
EncodeRound(tok, s, max, w) ==
  LET rest == SubSeq(s, w.i, Len(s))
      n    == MatchWord(rest)
      word == SubSeq(rest, 1, n)
  IN  IF w.i > Len(s) \/ Len(w.out) >= max THEN w
      ELSE At(w.i + n,
              w.out \o Greedy(tok, IF tok.is_byte_encoded THEN EncodeText(word)
                                   ELSE word, max - Len(w.out)))

\* tokenizer_encode.
Encode(tok, s, max) ==
  LET round[n \in 0 .. Len(s)] ==
        IF n = 0 THEN At(1, <<>>) ELSE EncodeRound(tok, s, max, round[n - 1])
  IN  round[Len(s)].out

\* The string that ends at the first zero byte.
CString(s) ==
  LET Zeros == {i \in 1 .. Len(s) : s[i] = 0}
  IN  IF Zeros = {} THEN s ELSE SubSeq(s, 1, Min(Zeros) - 1)

Decode(tok, id) ==
  IF id \in 0 .. Len(tok.id_to_token) - 1 THEN Token(tok.id_to_token, id)
  ELSE <<>>

DecodeToBytes(tok, id) ==
  LET s == CString(Decode(tok, id))
  IN  IF tok.is_byte_encoded THEN DecodeToken(s) ELSE s

\* What is printed for a sequence of tokens.
Printed(tok, tokens) ==
  LET shown[n \in 0 .. Len(tokens)] ==
        IF n = 0 THEN <<>> ELSE shown[n - 1] \o DecodeToBytes(tok, tokens[n])
  IN  shown[Len(tokens)]

-----------------------------------------------------------------------------
(* A text is typed byte by byte, for one of the vocabularies.              *)

VARIABLES
  text,      \* what was typed
  vocabFile  \* the name of the vocabulary

textVars == <<text, vocabFile>>

TextInit == text = <<>> /\ vocabFile \in DOMAIN Files

TypeByte ==
  /\ Len(text) < MaxText
  /\ \E b \in IF text = <<>> THEN Bytes \ {0} ELSE TextBytes :
       /\ text # <<>> => text[1] \in TextBytes
       /\ text' = Append(text, b)
  /\ UNCHANGED vocabFile

NextText == text # <<>> /\ text' = <<>> /\ vocabFile' \in DOMAIN Files

TextNext == TypeByte \/ NextText

TextSpec == TextInit /\ [][TextNext]_textVars

Spelled(name, s) == IF Files[name].spelled THEN EncodeText(s) ELSE s

\* The strings of a file, and what is loaded from it.
Strings(name) ==
  [k \in DOMAIN Files[name].entries |-> Spelled(name, Files[name].entries[k])]

Tokenizers == [name \in DOMAIN Files |-> Load(Strings(name))]

-----------------------------------------------------------------------------
\* Looking a string up finds the first token of the file that is this string,
\* and nothing when there is none, wherever collisions and the end of the
\* table have put it (tokenizer_load and tokenizer_lookup).
LookupIsFirst ==
  \A i, j \in 1 .. Len(text) :
    LET part  == SubSeq(text, i, j)
        Known == {k \in DOMAIN Files[vocabFile].entries :
                    Files[vocabFile].entries[k] = part}
    IN  part # <<>> =>
          Lookup(Tokenizers[vocabFile], Spelled(vocabFile, part)) =
            IF Known = {} THEN Empty ELSE Min(Known) - 1

\* The pattern above match_gpt2_word, its alternatives in order: the
\* contractions 's 't 're 've 'm 'll 'd first.  The code
\* takes the underscore for punctuation, where the pattern has [^\s\w].
Words(Class, s) ==
  \E lead \in {0, 1} :
    /\ lead = 1 => s[1] = Space
    /\ lead < Len(s) /\ \A i \in lead + 1 .. Len(s) : s[i] \in Class
Pattern == <<"contraction", "alpha", "digit", "other", "white">>
InPattern(p, s) ==
  CASE p = "contraction" -> s \in {<<39>> \o e : e \in
                                 {<<115>>, <<116>>, <<114, 101>>, <<118, 101>>,
                                  <<109>>, <<108, 108>>, <<100>>}}
    [] p = "alpha" -> Words(Alpha, s)
    [] p = "digit" -> Words(Digit, s)
    [] p = "other" -> Words(Bytes \ (Alpha \cup Digit \cup White), s)
    [] p = "white" -> \A i \in 1 .. Len(s) : s[i] \in White

\* Every text begins with a word of the pattern: the first alternative that
\* matches, as long as it goes on matching (match_gpt2_word).
SplitsAsPattern ==
  text # <<>> =>
    LET Lengths(p) == {n \in 1 .. Len(text) : InPattern(p, SubSeq(text, 1, n))}
        Live == {k \in DOMAIN Pattern : Lengths(Pattern[k]) # {}}
    IN  /\ Live # {}
        /\ MatchWord(text) = Max(Lengths(Pattern[Min(Live)]))

\* A byte that has a token of its own.
HasToken(name, b) ==
  \E k \in DOMAIN Files[name].entries : Files[name].entries[k] = <<b>>

\* Decoding the tokens of a text gives the text back: all of it if the room
\* for tokens was enough and its beginning otherwise, in order, without bytes
\* only where the vocabulary has no token for them (tokenizer_encode and
\* tokenizer_decode_to_bytes).
TextSurvives ==
  LET tok    == Tokenizers[vocabFile]
      tokens == Encode(tok, text, MaxTokens)
      back   == Printed(tok, tokens)
  IN  /\ Len(tokens) <= MaxTokens
      /\ \E n \in 0 .. Len(text) :
           /\ Len(tokens) < MaxTokens => n = Len(text)
           /\ \E kept \in [1 .. Len(back) -> 1 .. n] :
                /\ \A i, j \in 1 .. Len(back) : i < j => kept[i] < kept[j]
                /\ \A i \in 1 .. Len(back) : back[i] = text[kept[i]]
                /\ \A m \in 1 .. n :
                     (\A i \in 1 .. Len(back) : kept[i] # m) =>
                       ~HasToken(vocabFile, text[m])
=============================================================================
