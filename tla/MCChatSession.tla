--------------------------- MODULE MCChatSession ---------------------------
(***************************************************************************)
(* Instance of ChatSession: two layers, so that a file can hold a prefix   *)
(* of the state, and three starts, so that a state restored from a save    *)
(* can be saved and restored again.                                        *)
(***************************************************************************)
EXTENDS ChatSession
=============================================================================
