--------------------------- MODULE GracefulService ---------------------------
(***************************************************************************)
(* What a server that drains before it stops promises to its clients: it   *)
(* takes connections only until it is told to stop, every connection it    *)
(* took is closed by itself, and its resources go away after the last one. *)
(***************************************************************************)
CONSTANT Connections

VARIABLES phase, open, finished

Init == phase = "serving" /\ open = {} /\ finished = {}

Open(c) ==
    /\ phase = "serving" /\ c \notin open \cup finished
    /\ open' = open \cup {c}
    /\ UNCHANGED <<phase, finished>>

Close(c) ==
    /\ phase \in {"serving", "draining"} /\ c \in open
    /\ open' = open \ {c}
    /\ finished' = finished \cup {c}
    /\ UNCHANGED phase

BeginStop ==
    /\ phase = "serving"
    /\ phase' = "draining"
    /\ UNCHANGED <<open, finished>>

Release ==
    /\ phase = "draining" /\ open = {}
    /\ phase' = "stopped"
    /\ UNCHANGED <<open, finished>>

\* The process is killed: connections end with it.
Abort ==
    /\ phase \in {"serving", "draining"}
    /\ phase' = "aborted"
    /\ UNCHANGED <<open, finished>>

Next ==
    \/ \E c \in Connections : Open(c) \/ Close(c)
    \/ BeginStop \/ Release \/ Abort

Spec == Init /\ [][Next]_<<phase, open, finished>>
=============================================================================
