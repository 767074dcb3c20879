----------------------------- MODULE MCGenerate -----------------------------
(***************************************************************************)
(* Instances of Generate.  The ring of seven entries is the smallest that  *)
(* holds two patterns of three and is not a multiple of three, so that a   *)
(* response of nine tokens wraps it in the middle of a pattern.            *)
(***************************************************************************)
EXTENDS Generate

CONSTANT a, b

PlainTokens == {a, b}
SmallPrompts == {<<a>>, <<b, a>>}
=============================================================================
