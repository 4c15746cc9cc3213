----------------------------- MODULE MCTideLocal -----------------------------
(***************************************************************************)
(* Two runs that may overlap or follow each other, two profiles on the     *)
(* same default port, and the command lines that differ in what they do.   *)
(***************************************************************************)
EXTENDS TideLocal

CONSTANTS flash, flashQ4

All == Flags \ {"dry", "yes"}
Start(profile, flags) ==
    [sub |-> "start", conf |-> [profile |-> profile, port |-> 38442],
     flags |-> flags]

MCCommands == {
    Start(flash, All),
    Start(flashQ4, (All \cup {"yes"}) \ {"test"}),
    Start(flash, {"test"}),
    Start(flashQ4, All \cup {"dry"}),
    [Start(flash, {}) EXCEPT !.sub = "stop"] }
=============================================================================
