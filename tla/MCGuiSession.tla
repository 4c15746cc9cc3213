---------------------------- MODULE MCGuiSession ----------------------------
(***************************************************************************)
(* Two conversations: the first, and one that follows it by New chat, by a *)
(* resumed session or by a restart.                                        *)
(***************************************************************************)
EXTENDS GuiSession

=============================================================================
