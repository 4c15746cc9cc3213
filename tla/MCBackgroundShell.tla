-------------------------- MODULE MCBackgroundShell --------------------------
(***************************************************************************)
(* Instances of BackgroundShell for TLC.  A buffer of two lines under a    *)
(* child that writes four rolls over twice, and an agent may page at every *)
(* point of that, with a cursor inside the buffer or behind its head.      *)
(***************************************************************************)
EXTENDS BackgroundShell
=============================================================================
