---------------------------- MODULE TokenStream ----------------------------
(***************************************************************************)
(* What generating a response means: tokens are shown one after another,   *)
(* the model absorbs exactly the tokens shown, in order, each once, and    *)
(* the next token is only chosen when it has absorbed all of them.         *)
(***************************************************************************)
EXTENDS Naturals, Sequences

CONSTANT Token

VARIABLES
  shown,  \* the prompt and the tokens streamed after it
  fed     \* the tokens the model has absorbed

\* A prompt has been given and none of it absorbed.
Init == shown \in Seq(Token) /\ shown # <<>> /\ fed = <<>>

Feed ==
  /\ \E m \in Len(fed) + 1 .. Len(shown) : fed' = SubSeq(shown, 1, m)
  /\ UNCHANGED shown

Show ==
  /\ fed = shown
  /\ \E x \in Token : shown' = Append(shown, x)
  /\ UNCHANGED fed

Next == Feed \/ Show

Spec == Init /\ [][Next]_<<shown, fed>>
=============================================================================
