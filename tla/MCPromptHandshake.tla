------------------------- MODULE MCPromptHandshake -------------------------
(***************************************************************************)
(* PromptHandshake for TLC.  It has no parameters: its states are those of *)
(* two threads and their flags, over any number of turns and prompts.      *)
(***************************************************************************)
EXTENDS PromptHandshake
=============================================================================
