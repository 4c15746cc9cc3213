---------------------------- MODULE TurnProtocol ----------------------------
(***************************************************************************)
(* What the agent loop promises to whoever listens to its event stream     *)
(* (the terminal UI, the GUI, headless JSON): a turn opens with the user's *)
(* message, every tool call the assistant announces is answered exactly    *)
(* once and in the order announced, a batch is closed before the model     *)
(* speaks again, and the turn ends once.                                   *)
(***************************************************************************)
EXTENDS Sequences

CONSTANT CallId        \* identities of tool calls

VARIABLES
    phase,             \* "closed", "thinking" or "answering"
    owed               \* the calls announced and not answered yet, in order

vars == <<phase, owed>>

Init ==
    /\ phase = "closed"
    /\ owed = <<>>

Open ==                \* the user's message starts a turn
    /\ phase = "closed"
    /\ phase' = "thinking"
    /\ UNCHANGED owed

Announce ==            \* the assistant asks for at least one tool
    /\ phase = "thinking"
    /\ phase' = "answering"
    /\ owed' \in Seq(CallId) \ {<<>>}

Answer ==              \* the oldest unanswered call gets its result
    /\ phase = "answering"
    /\ owed # <<>>
    /\ owed' = Tail(owed)
    /\ UNCHANGED phase

Summarize ==           \* the batch is closed only when nothing is owed
    /\ phase = "answering"
    /\ owed = <<>>
    /\ phase' \in {"thinking", "closed"}
    /\ UNCHANGED owed

Close ==               \* no turn ends inside a batch
    /\ phase = "thinking"
    /\ phase' = "closed"
    /\ UNCHANGED owed

Next == Open \/ Announce \/ Answer \/ Summarize \/ Close

Spec == Init /\ [][Next]_vars
=============================================================================
