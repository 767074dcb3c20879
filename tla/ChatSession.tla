---------------------------- MODULE ChatSession ----------------------------
(***************************************************************************)
(* A chat session across restarts (chat_run, handle_turn, state_save,      *)
(* state_load and state_reset in src/src/chat.c): what the recurrent state *)
(* of each layer has absorbed, the repetition history, the state file and  *)
(* the interrupt flag, under signals, crashes and write errors.  A layer's *)
(* state is the sequence of tokens it has absorbed since it was zero, and  *)
(* every token of a run has a number of its own.                           *)
(***************************************************************************)
EXTENDS Integers, Sequences, SequencesExt

CONSTANTS
  NLayers,    \* config.n_layers
  HistoryMax, \* HISTORY_MAX
  MaxPrompt,  \* bound: tokens of one prompt
  MaxGen,     \* cfg->max_tokens
  MaxClock,   \* bound: tokens of one behaviour
  MaxStarts,  \* bound: starts of the program
  HasTpl,     \* cfg->prompt_tpl # NULL
  BadPos      \* a stored layer whose conv_pos is out of range

ASSUME BoundsAssumption ==
  /\ NLayers \in Nat \ {0} /\ HistoryMax \in Nat \ {0}
  /\ MaxPrompt \in Nat /\ MaxGen \in Nat
  /\ MaxClock \in Nat /\ MaxStarts \in Nat

Layer == 1 .. NLayers

VARIABLES
  pc,      \* where the program is: see TypeOK
  pipe,    \* one prompt from a pipe instead of the prompt loop
  flag,    \* g_interrupted
  ssm,     \* conv_state, ssm_state and conv_pos of each layer
  hist,    \* history
  disk,    \* the state file: valid header, stored layers
  at,      \* layers read or written so far
  leaving, \* the save in progress is the one before the exit
  gen,     \* tokens generated in this turn
  talk,    \* history: the turns since the state was last zero
  from,    \* history: turns of talk that precede the repetition history
  kept,    \* history: the talk whose state the file holds
  clock,   \* history: tokens so far
  starts   \* history: starts so far

memory == <<ssm, hist, talk, from>>
vars == <<pc, pipe, flag, memory, disk, at, leaving, gen, kept, clock, starts>>

NoFile == [head |-> FALSE, body |-> <<>>]
Zero   == [l \in Layer |-> <<>>]

\* Files found at the first start: none (or a foreign one), or a damaged one.
Init ==
  /\ pc = "down" /\ pipe = FALSE /\ flag = FALSE
  /\ ssm = Zero /\ hist = <<>> /\ talk = <<>> /\ from = 0
  /\ disk \in {NoFile,
               [head |-> TRUE,
                body |-> [l \in Layer |-> IF l = NLayers THEN BadPos
                                          ELSE <<0>>]]}
  /\ at = 0 /\ leaving = FALSE /\ gen = 0
  /\ kept = <<>> /\ clock = 0 /\ starts = 0

-----------------------------------------------------------------------------
(* Start and state_load *)

Start ==
  /\ pc \in {"down", "exited"} /\ starts < MaxStarts
  /\ pc' = "load" /\ pipe' \in BOOLEAN
  /\ flag' = FALSE
  /\ ssm' = Zero /\ hist' = <<>> /\ talk' = <<>> /\ from' = 0
  /\ at' = 0 /\ leaving' = FALSE /\ gen' = 0
  /\ starts' = starts + 1
  /\ UNCHANGED <<disk, kept, clock>>

\* The file is missing, or its header is not that of this model.
LoadNothing ==
  /\ pc = "load" /\ ~disk.head
  /\ pc' = "ready"
  /\ UNCHANGED <<pipe, flag, memory, disk, at, leaving, gen, kept, clock, starts>>

\* The next layer is in the file, and its conv_pos is possible.
Sound == at < Len(disk.body) /\ disk.body[at + 1] # BadPos

LoadLayer ==
  /\ pc = "load" /\ disk.head /\ at < NLayers /\ Sound
  /\ ssm' = [ssm EXCEPT ![at + 1] = disk.body[at + 1]]
  /\ at' = at + 1
  /\ UNCHANGED <<pc, pipe, flag, hist, talk, from, disk, leaving, gen, kept,
                 clock, starts>>

\* Mutant: a failed load leaves the layers read so far.
LoadFailKeeps ==
  /\ pc = "load" /\ disk.head /\ at < NLayers /\ ~Sound
  /\ pc' = "ready"
  /\ UNCHANGED <<pipe, flag, memory, disk, at, leaving, gen, kept, clock, starts>>

\* A truncated file or an impossible conv_pos: state_reset.
LoadFail ==
  /\ pc = "load" /\ disk.head /\ at < NLayers /\ ~Sound
  /\ pc' = "ready" /\ ssm' = Zero
  /\ UNCHANGED <<pipe, flag, hist, talk, from, disk, at, leaving, gen, kept,
                 clock, starts>>

LoadDone ==
  /\ pc = "load" /\ at = NLayers
  /\ pc' = "ready"
  /\ talk' = kept /\ from' = Len(kept)
  /\ UNCHANGED <<pipe, flag, ssm, hist, disk, at, leaving, gen, kept, clock,
                 starts>>

-----------------------------------------------------------------------------
(* Turns *)

\* Mutant: the full history is not shifted.
PushedUncapped(h, s) == h \o s

\* history_push of each token.
Pushed(h, s) ==
  LET all == h \o s
  IN  IF Len(all) <= HistoryMax THEN all
      ELSE SubSeq(all, Len(all) - HistoryMax + 1, Len(all))

\* The next n tokens.
Fresh(n) == [j \in 1 .. n |-> clock + j]

Absorb(s) == ssm' = [l \in Layer |-> ssm[l] \o s]

\* linenoise returned a line (or the pipe was read): the old flag is dropped,
\* except for a pipe.
Prompted == flag' = (flag /\ pipe)

\* A prompt of n tokens for the model: all but the last are prefilled.
UserTurn(n) ==
  /\ pc = "read" /\ clock + n <= MaxClock
  /\ Prompted
  /\ Absorb(SubSeq(Fresh(n), 1, n - 1)) /\ hist' = Pushed(hist, Fresh(n))
  /\ talk' = Append(talk, [math |-> FALSE, toks |-> Fresh(n)])
  /\ clock' = clock + n /\ gen' = 0 /\ pc' = "gen"
  /\ UNCHANGED <<pipe, disk, at, leaving, from, kept, starts>>

\* An arithmetic question is answered without the model, and question and
\* answer, of n tokens, are prefilled when there is a template.
MathTurn(n) ==
  /\ pc = "read" /\ clock + n <= MaxClock
  /\ Prompted
  /\ IF HasTpl THEN Absorb(Fresh(n)) /\ hist' = Pushed(hist, Fresh(n))
               ELSE UNCHANGED <<ssm, hist>>
  /\ talk' = Append(talk, [math |-> TRUE, toks |-> Fresh(n)])
  /\ clock' = clock + n /\ gen' = 0 /\ pc' = "turned"
  /\ UNCHANGED <<pipe, disk, at, leaving, from, kept, starts>>

\* The prompt encodes to no token at all.
NoTokens ==
  /\ pc = "read" /\ pc' = "turned"
  /\ Prompted /\ gen' = 0
  /\ UNCHANGED <<pipe, memory, disk, at, leaving, kept, clock, starts>>

\* The last token shown, which the next model step absorbs.
Current == Last(Last(talk).toks)

\* One round of generate_response that streams a token.
GenToken ==
  /\ pc = "gen" /\ ~flag /\ gen < MaxGen /\ clock < MaxClock
  /\ Absorb(<<Current>>)
  /\ hist' = Pushed(hist, Fresh(1))
  /\ talk' = [talk EXCEPT ![Len(talk)].toks = @ \o Fresh(1)]
  /\ clock' = clock + 1 /\ gen' = gen + 1
  /\ UNCHANGED <<pc, pipe, flag, from, disk, at, leaving, kept, starts>>

\* One whose token a stop rule withholds.
GenStop ==
  /\ pc = "gen" /\ ~flag /\ gen < MaxGen
  /\ Absorb(<<Current>>)
  /\ pc' = "turned"
  /\ UNCHANGED <<pipe, flag, hist, talk, from, disk, at, leaving, gen, kept,
                 clock, starts>>

\* The loop's condition fails.
GenEnd ==
  /\ pc = "gen" /\ (flag \/ gen = MaxGen)
  /\ pc' = "turned"
  /\ UNCHANGED <<pipe, flag, memory, disk, at, leaving, gen, kept, clock,
                 starts>>

-----------------------------------------------------------------------------
(* The prompt loop and state_save *)

\* while (!g_interrupted); a pipe is read without the test.
LoopHead ==
  /\ pc = "ready"
  /\ IF flag /\ ~pipe THEN pc' = "open" /\ leaving' = TRUE
                      ELSE pc' = "read" /\ UNCHANGED leaving
  /\ UNCHANGED <<pipe, flag, memory, disk, at, gen, kept, clock, starts>>

\* Back to the loop's head with the flag cleared; a pipe goes on to the save.
TurnEnd ==
  /\ pc = "turned"
  /\ IF pipe THEN pc' = "open" /\ leaving' = TRUE /\ UNCHANGED flag
             ELSE pc' = "ready" /\ flag' = FALSE /\ UNCHANGED leaving
  /\ UNCHANGED <<pipe, memory, disk, at, gen, kept, clock, starts>>

\* An empty line, /help or an unknown command: the flag is not cleared.
OtherLine ==
  /\ pc = "read" /\ ~pipe /\ pc' = "ready"
  /\ UNCHANGED <<pipe, flag, memory, disk, at, leaving, gen, kept, clock,
                 starts>>

\* /quit, /exit, end of input or an interrupted read; an empty pipe is an
\* error that saves nothing.
Quit ==
  /\ pc = "read"
  /\ IF pipe THEN pc' = "down" /\ UNCHANGED leaving
             ELSE pc' = "open" /\ leaving' = TRUE
  /\ UNCHANGED <<pipe, flag, memory, disk, at, gen, kept, clock, starts>>

Save ==
  /\ pc = "read" /\ ~pipe /\ pc' = "open" /\ leaving' = FALSE
  /\ UNCHANGED <<pipe, flag, memory, disk, at, gen, kept, clock, starts>>

\* Mutant: the repetition history survives the reset.
ResetStateOnly ==
  /\ pc = "read" /\ ~pipe /\ pc' = "ready"
  /\ ssm' = Zero /\ talk' = <<>> /\ from' = 0
  /\ UNCHANGED <<pipe, flag, hist, disk, at, leaving, gen, kept, clock, starts>>

\* /reset
Reset ==
  /\ pc = "read" /\ ~pipe /\ pc' = "ready"
  /\ ssm' = Zero /\ hist' = <<>> /\ talk' = <<>> /\ from' = 0
  /\ UNCHANGED <<pipe, flag, disk, at, leaving, gen, kept, clock, starts>>

\* fopen truncates the file and the header is written, or one of them fails.
SaveOpen ==
  /\ pc = "open" /\ at' = 0
  /\ \/ pc' = "save" /\ disk' = [head |-> TRUE, body |-> <<>>] /\ kept' = talk
     \/ pc' = "failed" /\ (UNCHANGED disk \/ disk' = NoFile) /\ UNCHANGED kept
  /\ UNCHANGED <<pipe, flag, memory, leaving, gen, clock, starts>>

SaveLayer ==
  /\ pc = "save" /\ at < NLayers
  /\ disk' = [disk EXCEPT !.body = Append(@, ssm[at + 1])] /\ at' = at + 1
  /\ UNCHANGED <<pc, pipe, flag, memory, leaving, gen, kept, clock, starts>>

\* What a write error or a crash leaves of a file written through a buffer.
Torn(d) ==
  {NoFile} \cup {[d EXCEPT !.body = SubSeq(@, 1, m)] : m \in 0 .. Len(d.body)}

\* Mutant: a failed close is not noticed.
SaveFailUnseen ==
  /\ pc = "save" /\ at = NLayers
  /\ pc' = IF leaving THEN "exited" ELSE "ready"
  /\ disk' \in Torn(disk)
  /\ UNCHANGED <<pipe, flag, memory, at, leaving, gen, kept, clock, starts>>

\* A write, the flush or the close fails: only reported.
SaveFail ==
  /\ pc = "save" /\ pc' = "failed"
  /\ disk' \in Torn(disk)
  /\ UNCHANGED <<pipe, flag, memory, at, leaving, gen, kept, clock, starts>>

SaveClose ==
  /\ \/ pc = "save" /\ at = NLayers
     \/ pc = "failed"
  /\ pc' = IF ~leaving THEN "ready"
           ELSE IF pc = "failed" THEN "down" ELSE "exited"
  /\ UNCHANGED <<pipe, flag, memory, disk, at, leaving, gen, kept, clock,
                 starts>>

-----------------------------------------------------------------------------
(* What happens to the program *)

Alive == pc \notin {"down", "exited"}

Dies ==
  /\ pc' = "down"
  /\ IF pc = "save" THEN disk' \in Torn(disk) ELSE UNCHANGED disk

\* SIGINT or SIGTERM: the first sets the flag, a second one before the flag
\* is cleared is _exit.
Signal ==
  /\ Alive
  /\ flag' = TRUE
  /\ IF flag THEN Dies ELSE UNCHANGED <<pc, disk>>
  /\ UNCHANGED <<pipe, memory, at, leaving, gen, kept, clock, starts>>

Crash ==
  /\ Alive /\ Dies
  /\ UNCHANGED <<pipe, flag, memory, at, leaving, gen, kept, clock, starts>>

\* The last start has ended.
Over == ~Alive /\ starts = MaxStarts /\ UNCHANGED vars

User ==
  \/ \E n \in 1 .. MaxPrompt : UserTurn(n) \/ MathTurn(n)
  \/ NoTokens \/ OtherLine \/ Quit \/ Save \/ Reset

Program ==
  \/ LoadNothing \/ LoadLayer \/ LoadFail \/ LoadDone
  \/ GenToken \/ GenStop \/ GenEnd \/ LoopHead \/ TurnEnd
  \/ SaveOpen \/ SaveLayer \/ SaveFail \/ SaveClose

Next == Start \/ User \/ Program \/ Signal \/ Crash \/ Over

Spec == Init /\ [][Next]_vars

-----------------------------------------------------------------------------
TypeOK ==
  /\ pc \in {"down", "load", "ready", "read", "gen", "turned", "open", "save",
             "failed", "exited"}
  /\ pipe \in BOOLEAN /\ flag \in BOOLEAN /\ leaving \in BOOLEAN
  /\ DOMAIN ssm = Layer /\ \A l \in Layer : ssm[l] \in Seq(0 .. MaxClock)
  /\ hist \in Seq(1 .. MaxClock) /\ Len(hist) <= HistoryMax
  /\ disk.head \in BOOLEAN /\ Len(disk.body) <= NLayers
  /\ at \in 0 .. NLayers /\ gen \in 0 .. MaxGen
  /\ \A j \in 1 .. Len(talk) : talk[j].toks \in Seq(1 .. MaxClock)
  /\ from \in 0 .. Len(talk)
  /\ clock \in 0 .. MaxClock /\ starts \in 0 .. MaxStarts

\* What turn t may have left in the state: all its tokens, or all but the
\* last one when the model produced it; nothing of an arithmetic exchange
\* when there is no template.
Absorbed(t) ==
  IF t.math THEN IF HasTpl THEN {t.toks} ELSE {<<>>}
  ELSE {t.toks, Front(t.toks)}

\* At every point where the state is used or stored, all layers have absorbed
\* the same tokens: those of the conversation, over saves, loads, resets and
\* failed loads, in order, none twice, and none left out but the last token
\* of an answer.
Lineage ==
  pc \notin {"load", "down"} =>
    /\ \A l \in Layer : ssm[l] = ssm[1]
    /\ \E f \in [1 .. Len(talk) -> UNION {Absorbed(talk[j]) : j \in 1 .. Len(talk)}] :
         /\ \A j \in 1 .. Len(talk) : f[j] \in Absorbed(talk[j])
         /\ ssm[1] = FlattenSeq(f)

\* The repetition penalty sees the newest tokens shown since the start or the
\* last reset, whatever has been restored into the state.
HistoryIsRecent ==
  pc # "load" =>
    LET told == FlattenSeq([j \in 1 .. Len(talk) - from |->
                  LET t == talk[from + j]
                  IN  IF t.math /\ ~HasTpl THEN <<>> ELSE t.toks])
    IN  /\ IsSuffix(hist, told)
        /\ Len(hist) = IF Len(told) < HistoryMax THEN Len(told) ELSE HistoryMax

\* When the program ends by itself after a save that reported no error, the
\* file restores exactly the state it ended with.
ExitIsSaved == pc = "exited" => disk = [head |-> TRUE, body |-> ssm]
=============================================================================
