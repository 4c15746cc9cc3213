---------------------------- MODULE MCAgentLoop ----------------------------
(***************************************************************************)
(* Instances of AgentLoop for TLC.  The transcript instance                *)
(* (AgentTranscript.cfg) gives every message a token cost and has the      *)
(* model call the tools that rewrite the transcript; the permission        *)
(* instance (AgentPermissions.cfg) has one tool per class of permission    *)
(* and a budget no transcript exceeds.                                     *)
(***************************************************************************)
EXTENDS AgentLoop
=============================================================================
