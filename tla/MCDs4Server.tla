----------------------------- MODULE MCDs4Server -----------------------------
(***************************************************************************)
(* Instances of Ds4Server for TLC: three connections are enough for a job  *)
(* that is served, one that waits behind it and one that comes while the   *)
(* server stops.                                                           *)
(***************************************************************************)
EXTENDS Ds4Server
=============================================================================
