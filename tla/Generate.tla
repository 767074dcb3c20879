------------------------------ MODULE Generate ------------------------------
(***************************************************************************)
(* One response of the chat (generate_response in src/src/chat.c): prefill *)
(* of the prompt, then one model step per token, each followed by the stop *)
(* rules in the code's order: end tokens, turn markers, paragraph flood,   *)
(* repeated token, repeating pattern (over a ring of recent tokens).  One- *)
(* shot mode (main in src/src/main.c) has the same loop without a session: *)
(* it keeps what it samples, prints it at the end, and has one stop rule.  *)
(* What the model samples is a free choice of token.                       *)
(***************************************************************************)
EXTENDS Integers, Sequences, FiniteSets

CONSTANTS
  Plain,      \* ordinary tokens
  NL, NLNL,   \* TOKEN_NL, TOKEN_NLNL
  Mark,       \* any of the turn markers TOKEN_Q .. TOKEN_ANSWER2
  End,        \* end of text, the null token or a configured stop token
  Prompts,    \* encoded prompts to consider, at least one token each
  MaxTokens,  \* cfg->max_tokens
  MaxOneShot, \* max_tokens of one-shot mode
  HasTpl,     \* cfg->prompt_tpl # NULL
  RepeatLimit, ParaLimit,  \* repeat_limit, para_limit
  Unset,      \* -1: no token yet
  BufSize,    \* NGRAM_BUF_SIZE: 64
  MaxK        \* longest pattern looked for: 16

Token == Plain \cup {NL, NLNL, Mark, End}

ASSUME ParametersAssumption ==
  /\ Unset \notin Token
  /\ MaxTokens \in Nat /\ MaxOneShot \in Nat /\ RepeatLimit \in Nat \ {0}
  /\ ParaLimit \in Nat \ {0}
  /\ MaxK \in Nat /\ BufSize \in Nat \ {0} /\ 2 * MaxK <= BufSize
  /\ NL # NLNL
  /\ \A p \in Prompts : p \in Seq(Token) /\ p # <<>>

VARIABLES
  pc,       \* "prefill", "loop", "check" or "stopped"
  mode,     \* "chat" or "one-shot"
  prompt,   \* prompt_ids
  out,      \* history: tokens streamed; generated_tokens in one-shot mode
  fed,      \* history: tokens the model has absorbed
  current,  \* the token the next model step is given
  next,     \* the token it sampled
  prev,     \* prev_token
  rtok, rcount,      \* repeat_token, repeat_count
  buf, npos, nfill,  \* ngram_buf, ngram_pos, ngram_fill
  para,     \* para_count
  why       \* history: the rule that stopped the response

vars == <<pc, mode, prompt, out, fed, current, next, prev, rtok, rcount, buf,
          npos, nfill, para, why>>

Init ==
  /\ pc = "prefill" /\ mode \in {"chat", "one-shot"}
  /\ prompt \in Prompts
  /\ out = <<>> /\ fed = <<>>
  /\ current = prompt[Len(prompt)]
  /\ next = Unset /\ prev = Unset
  /\ rtok = Unset /\ rcount = 0
  /\ buf = [j \in 0 .. BufSize - 1 |-> Unset] /\ npos = 0 /\ nfill = 0
  /\ para = 0 /\ why = "none"

\* Mutant: the last prompt token is prefilled as well.
PrefillAll ==
  /\ pc = "prefill" /\ pc' = "loop"
  /\ fed' = prompt
  /\ UNCHANGED <<mode, prompt, out, current, next, prev, rtok, rcount, buf,
                 npos, nfill, para, why>>

\* All but the last prompt token; the first model step absorbs that one.
Prefill ==
  /\ pc = "prefill" /\ pc' = "loop"
  /\ fed' = SubSeq(prompt, 1, Len(prompt) - 1)
  /\ UNCHANGED <<mode, prompt, out, current, next, prev, rtok, rcount, buf,
                 npos, nfill, para, why>>

Limit == IF mode = "chat" THEN MaxTokens ELSE MaxOneShot

\* model_forward_step absorbs current and samples a token.
Forward ==
  /\ pc = "loop" /\ Len(out) < Limit
  /\ pc' = "check"
  /\ fed' = Append(fed, current)
  /\ next' \in Token
  /\ UNCHANGED <<mode, prompt, out, current, prev, rtok, rcount, buf, npos,
                 nfill, para, why>>

\* max_tokens reached, or g_interrupted seen at the head of the chat's loop.
LoopEnd ==
  /\ pc = "loop" /\ pc' = "stopped"
  /\ \/ Len(out) >= Limit /\ why' = "limit"
     \/ mode = "chat" /\ why' = "interrupt"
  /\ UNCHANGED <<mode, prompt, out, fed, current, next, prev, rtok, rcount, buf,
                 npos, nfill, para>>

-----------------------------------------------------------------------------
(* The stop rules, each with the updates the code makes before testing it *)

Boundary == HasTpl /\ prev \in {NL, NLNL} /\ next = Mark

NewPara == para + CASE next = NL -> 1 [] next = NLNL -> 2 [] OTHER -> 0
Flood   == HasTpl /\ NewPara >= ParaLimit

\* Mutant: the first token of a run is not counted.
NewCountFromZero == IF next = rtok THEN rcount + 1 ELSE 0

NewCount == IF next = rtok THEN rcount + 1 ELSE 1
Repeats  == next = rtok /\ NewCount >= RepeatLimit

NewBuf  == [buf EXCEPT ![npos] = next]

NewPos  == (npos + 1) % BufSize
NewFill == IF nfill < BufSize THEN nfill + 1 ELSE nfill

\* Entry j of the ring, counted back from the newest.
Back(j) == NewBuf[(NewPos - 1 - j + BufSize) % BufSize]

\* Mutant: the comparison leaves out the oldest position.
LoopsShort ==
  /\ NewFill >= 6
  /\ \E k \in 3 .. MaxK :
       k <= NewFill \div 2 /\ \A j \in 0 .. k - 2 : Back(j) = Back(j + k)

\* The newest k tokens equal the k before them, for some k from 3 up.
Loops ==
  /\ NewFill >= 6
  /\ \E k \in 3 .. MaxK :
       k <= NewFill \div 2 /\ \A j \in 0 .. k - 1 : Back(j) = Back(j + k)

\* Mutant: no pattern detection.
VerdictNoLoops ==
  IF next = End THEN "end"
  ELSE IF Boundary THEN "boundary"
  ELSE IF Flood THEN "flood"
  ELSE IF Repeats THEN "repeat"
  ELSE "show"

\* The first rule that fires, in program order.
Verdict ==
  IF next = End THEN "end"
  ELSE IF Boundary THEN "boundary"
  ELSE IF Flood THEN "flood"
  ELSE IF Repeats THEN "repeat"
  ELSE IF Loops THEN "loop"
  ELSE "show"

Stop ==
  /\ mode = "chat" /\ pc = "check" /\ Verdict # "show"
  /\ pc' = "stopped" /\ why' = Verdict
  /\ UNCHANGED <<mode, prompt, out, fed, current, next, prev, rtok, rcount, buf,
                 npos, nfill, para>>

\* The token passes every rule: it is streamed and becomes the next input.
Stream ==
  /\ mode = "chat" /\ pc = "check" /\ Verdict = "show"
  /\ pc' = "loop"
  /\ out' = Append(out, next)
  /\ prev' = next /\ current' = next
  /\ para' = NewPara
  /\ rtok' = next /\ rcount' = NewCount
  /\ buf' = NewBuf /\ npos' = NewPos /\ nfill' = NewFill
  /\ UNCHANGED <<mode, prompt, fed, next, why>>

\* One-shot mode keeps every token, an end token too, and stops at that.
Keep ==
  /\ mode = "one-shot" /\ pc = "check"
  /\ out' = Append(out, next) /\ current' = next
  /\ IF next = End THEN pc' = "stopped" /\ why' = "end"
                   ELSE pc' = "loop" /\ UNCHANGED why
  /\ UNCHANGED <<mode, prompt, fed, next, prev, rtok, rcount, buf, npos, nfill,
                 para>>

Done == pc = "stopped" /\ UNCHANGED vars

Next == Prefill \/ Forward \/ LoopEnd \/ Stop \/ Stream \/ Keep \/ Done

Spec == Init /\ [][Next]_vars

-----------------------------------------------------------------------------
\* Reference definitions, over the whole text s of a response.
Count(s, x) == Cardinality({j \in 1 .. Len(s) : s[j] = x})

EndsInRun(s, m) ==
  Len(s) >= m /\ \A j \in Len(s) - m + 1 .. Len(s) : s[j] = s[Len(s)]

EndsInPattern(s, k) ==
  /\ Len(s) >= 2 * k
  /\ SubSeq(s, Len(s) - k + 1, Len(s))
       = SubSeq(s, Len(s) - 2 * k + 1, Len(s) - k)

\* Nothing degenerate is streamed: no end token, no run of repeat_limit equal
\* tokens and, under a template, no new turn after a newline and fewer
\* newlines than the limit.  In one-shot mode nothing follows an end token.
OutputClean ==
  /\ \A j \in 1 .. Len(out) :
       out[j] = End => mode = "one-shot" /\ pc = "stopped" /\ j = Len(out)
  /\ \A j \in 1 .. Len(out) :
       mode = "chat" /\ RepeatLimit > 1 =>
         ~EndsInRun(SubSeq(out, 1, j), RepeatLimit)
  /\ mode = "chat" /\ HasTpl =>
       /\ Count(out, NL) + 2 * Count(out, NLNL) < ParaLimit
       /\ \A j \in 2 .. Len(out) :
            out[j - 1] \in {NL, NLNL} => out[j] # Mark

\* In chat no pattern of 3 to MaxK tokens is streamed twice in a row, also when
\* the ring of recent tokens has wrapped.
NoLoopShown ==
  mode = "chat" => \A k \in 3 .. MaxK : ~EndsInPattern(out, k)

\* A response is only cut when the text with the withheld token really has
\* the defect the rule names: the detectors' incremental state (counter, ring,
\* fill) never drifts from the text, and never reads an unwritten ring entry.
StopsJustified ==
  LET s == Append(out, next)
  IN  /\ why = "loop" => \E k \in 3 .. MaxK : EndsInPattern(s, k)
      /\ why = "repeat" => EndsInRun(s, RepeatLimit)
      /\ why = "flood" => Count(s, NL) + 2 * Count(s, NLNL) >= ParaLimit

\* The model absorbs the prompt and the streamed tokens, in order, each once,
\* and samples only when it has absorbed all of them.
TS == INSTANCE TokenStream WITH shown <- prompt \o out

ImplementsTokenStream == TS!Spec
=============================================================================
