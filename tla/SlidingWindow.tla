--------------------------- MODULE SlidingWindow ----------------------------
(***************************************************************************)
(* What the convolution state of a block stands for (src/src/block.c): for *)
(* every channel, the last three inputs it has absorbed, oldest first.     *)
(* The inputs of a channel are numbered 1, 2, ... since the last reset; 0  *)
(* is the zero a fresh state holds.                                        *)
(***************************************************************************)
EXTENDS Naturals

CONSTANT Channels

VARIABLES
  window,  \* the last three inputs of each channel
  count    \* how many inputs each channel has absorbed

vars == <<window, count>>

Init ==
  /\ window = [c \in Channels |-> <<0, 0, 0>>]
  /\ count = [c \in Channels |-> 0]

\* The next input of some channels slides in.
Absorb(S) ==
  /\ count' = [c \in Channels |-> IF c \in S THEN count[c] + 1 ELSE count[c]]
  /\ window' = [c \in Channels |->
                  IF c \in S
                  THEN <<window[c][2], window[c][3], count[c] + 1>>
                  ELSE window[c]]

Reset ==
  /\ window' = [c \in Channels |-> <<0, 0, 0>>]
  /\ count' = [c \in Channels |-> 0]

Next == Reset \/ \E S \in SUBSET Channels : Absorb(S)

Spec == Init /\ [][Next]_vars
=============================================================================
