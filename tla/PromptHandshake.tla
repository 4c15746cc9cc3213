--------------------------- MODULE PromptHandshake ---------------------------
(***************************************************************************)
(* Who owns the terminal during a turn of the CLI: the queue editor's pump *)
(* thread reads keys in raw mode (run_pump in deeptide-cli/src/            *)
(* queue_editor.rs) and hands the terminal over to the permission prompts  *)
(* of the main thread (ask_callback in deeptide-cli/src/main.rs) through   *)
(* the flags `suspend` and `suspended`.  A line read in raw mode comes     *)
(* back empty at once, because VMIN and VTIME are zero, and an empty line  *)
(* means "yes".                                                            *)
(***************************************************************************)
EXTENDS Permissions, Naturals

VARIABLES
    main,           \* where the main thread is
    pump,           \* where the pump thread is
    raw,            \* the terminal is in raw mode
    suspend,        \* editor_suspend
    suspended,      \* editor_suspended
    stop,           \* editor_stop
    active,         \* raw_editor_active
    cycle,          \* editor_mode_cycle: Shift+Tab was pressed
    interrupt,      \* turn_interrupt: Ctrl-C was pressed
    lock,           \* main holds spinner_lock, the pump's paint_lock
    mode            \* permission mode

\* What the properties remember of the prompt that is open or was last.
VARIABLES
    acked,          \* the pump acknowledged before the deadline
    stale,          \* `suspended` was already up when `suspend` was raised
    unasked         \* a prompt was answered although no key was pressed

flagVars == <<suspend, suspended, stop, active, cycle, interrupt>>
askVars == <<acked, stale, unasked>>
vars == <<main, pump, raw, flagVars, lock, mode, askVars>>

Main(from, to) == main = from /\ main' = to
Pump(from, to) == pump = from /\ pump' = to

\* next_permission_mode
NextMode == [Default |-> "AcceptEdits", AcceptEdits |-> "Plan",
             Plan |-> "Bypass", Bypass |-> "Default"]

Init ==
    /\ main = "idle" /\ pump = "gone" /\ raw = FALSE /\ lock = FALSE
    /\ suspend = FALSE /\ suspended = FALSE /\ stop = FALSE
    /\ active = FALSE /\ cycle = FALSE /\ interrupt = FALSE
    /\ mode \in Modes
    /\ acked = FALSE /\ stale = FALSE /\ unasked = FALSE
-----------------------------------------------------------------------------
(***************************************************************************)
(* The main thread: a turn, with any number of permission prompts in it.   *)
(***************************************************************************)
\* A turn that keeps the cancellation of the turn before.
StartTurnCancelled ==
    /\ Main("idle", "turn")
    /\ stop' = FALSE
    /\ pump' = "painting" /\ raw' = TRUE /\ active' = TRUE
    /\ suspend' = FALSE /\ suspended' = FALSE
    /\ UNCHANGED <<interrupt, cycle, lock, mode, askVars>>

\* The editor runs unless the terminal refuses raw mode.
StartTurn ==
    /\ Main("idle", "turn")
    /\ interrupt' = FALSE /\ stop' = FALSE
    /\ \/ /\ pump' = "painting" /\ raw' = TRUE /\ active' = TRUE
          /\ suspend' = FALSE /\ suspended' = FALSE
       \/ UNCHANGED <<pump, raw, active, suspend, suspended>>
    /\ UNCHANGED <<cycle, lock, mode, askVars>>

\* ask_callback after Shift+Tab: allow the call and never ask again.
AskBypassed ==
    /\ main = "turn" /\ mode # "Bypass" /\ cycle
    /\ cycle' = FALSE /\ mode' = "Bypass"
    /\ UNCHANGED <<main, pump, raw, suspend, suspended, stop, active,
                   interrupt, lock, askVars>>

Ask ==
    /\ mode # "Bypass" /\ ~cycle
    /\ Main("turn", IF active THEN "asking" ELSE "locking")
    /\ suspend' = (active \/ suspend)
    /\ acked' = FALSE /\ stale' = suspended
    /\ UNCHANGED <<pump, raw, suspended, stop, active, cycle, interrupt, lock,
                   mode, unasked>>

\* The pump's acknowledgement, or the deadline of 250 ms.
Acknowledged ==
    /\ Main("asking", "locking")
    /\ suspended /\ acked' = TRUE
    /\ UNCHANGED <<pump, raw, flagVars, lock, mode, stale, unasked>>

DeadlinePasses ==
    /\ Main("asking", "locking")
    /\ UNCHANGED <<pump, raw, flagVars, lock, mode, askVars>>

ShowPrompt ==
    /\ Main("locking", "showing")
    /\ lock' = TRUE
    /\ UNCHANGED <<pump, raw, flagVars, mode, askVars>>

BeginRead ==
    /\ ~raw /\ Main("showing", "reading")
    /\ UNCHANGED <<pump, raw, flagVars, lock, mode, askVars>>

Answered(from) ==
    /\ Main(from, "answered")
    /\ lock' = FALSE
    /\ UNCHANGED <<pump, raw, flagVars, acked, stale>>

\* An answer whose guard of the lock is never dropped.
AnswerHoldingLock ==
    /\ Main("reading", "answered")
    /\ UNCHANGED <<pump, raw, flagVars, lock, mode, askVars>>

\* The user types a line: yes, no, this tool, or all.
Answer ==
    /\ Answered("reading")
    /\ mode' \in {mode, "Bypass"}
    /\ UNCHANGED unasked

ReadNothing ==
    /\ raw /\ Answered("showing")
    /\ unasked' = TRUE
    /\ UNCHANGED mode

Resume ==
    /\ Main("answered", "turn")
    /\ suspend' = (suspend /\ ~active)
    /\ UNCHANGED <<pump, raw, suspended, stop, active, cycle, interrupt, lock,
                   mode, askVars>>

EndTurn ==
    /\ Main("turn", "stopping")
    /\ stop' = TRUE
    /\ UNCHANGED <<pump, raw, suspend, suspended, active, cycle, interrupt,
                   lock, mode, askVars>>

\* A turn boundary that leaves Shift+Tab to the next prompt.
JoinPumpOnly ==
    /\ Main("stopping", "idle") /\ pump = "gone"
    /\ suspend' = FALSE /\ suspended' = FALSE /\ active' = FALSE
    /\ UNCHANGED <<pump, raw, stop, interrupt, cycle, lock, mode, askVars>>

JoinPump ==
    /\ Main("stopping", "idle") /\ pump = "gone"
    /\ suspend' = FALSE /\ suspended' = FALSE /\ active' = FALSE
    /\ cycle' = FALSE
    /\ mode' = IF cycle THEN NextMode[mode] ELSE mode
    /\ UNCHANGED <<pump, raw, stop, interrupt, lock, askVars>>
-----------------------------------------------------------------------------
(***************************************************************************)
(* run_pump                                                                *)
(***************************************************************************)
PumpLoop ==
    /\ Pump("top", IF stop THEN "leaving"
                   ELSE IF suspend THEN "blanking" ELSE "polling")
    /\ UNCHANGED <<main, raw, flagVars, lock, mode, askVars>>

Paint(from, to) ==
    /\ Pump(from, to) /\ ~lock
    /\ UNCHANGED <<main, raw, flagVars, lock, mode, askVars>>

Repaint == Paint("painting", "top")
Blank == Paint("blanking", "restoring")

\* A pump that acknowledges before it has left raw mode.
AcknowledgeFirst ==
    /\ Pump("restoring", "acking")
    /\ suspended' = TRUE
    /\ UNCHANGED <<main, raw, suspend, stop, active, cycle, interrupt, lock,
                   mode, askVars>>

LeaveRawMode ==
    /\ Pump("restoring", "acking")
    /\ raw' = FALSE
    /\ UNCHANGED <<main, flagVars, lock, mode, askVars>>

Acknowledge ==
    /\ Pump("acking", "parked")
    /\ suspended' = TRUE
    /\ UNCHANGED <<main, raw, suspend, stop, active, cycle, interrupt, lock,
                   mode, askVars>>

Unpark ==
    /\ ~suspend \/ stop
    /\ Pump("parked", "resuming")
    /\ UNCHANGED <<main, raw, flagVars, lock, mode, askVars>>

\* A pump that goes back to raw mode although it was told to stop.
LowerSuspendedOnly ==
    /\ Pump("resuming", "reentering")
    /\ suspended' = FALSE
    /\ UNCHANGED <<main, raw, suspend, stop, active, cycle, interrupt, lock,
                   mode, askVars>>

LowerSuspended ==
    /\ Pump("resuming", IF stop THEN "leaving" ELSE "reentering")
    /\ suspended' = FALSE
    /\ UNCHANGED <<main, raw, suspend, stop, active, cycle, interrupt, lock,
                   mode, askVars>>

\* Raw mode again, or the terminal refuses it.
ReenterRawMode ==
    /\ \/ Pump("reentering", "painting") /\ raw' = TRUE
       \/ Pump("reentering", "leaving") /\ UNCHANGED raw
    /\ UNCHANGED <<main, flagVars, lock, mode, askVars>>

\* No key, or keys that edit the draft or queue it; or stdin fails.
ReadKeys ==
    /\ \E to \in {"top", "painting", "leaving"} : Pump("polling", to)
    /\ UNCHANGED <<main, raw, flagVars, lock, mode, askVars>>

ReadShiftTab ==
    /\ Pump("polling", "painting")
    /\ cycle' = TRUE
    /\ UNCHANGED <<main, raw, suspend, suspended, stop, active, interrupt,
                   lock, mode, askVars>>

\* The byte 3, from a terminal that does not turn it into a signal.
ReadCtrlC ==
    /\ Pump("polling", "top")
    /\ interrupt' = TRUE
    /\ UNCHANGED <<main, raw, suspend, suspended, stop, active, cycle, lock,
                   mode, askVars>>

\* A pump whose guard does not restore the terminal when it is dropped.
PumpLeavesRaw ==
    /\ Pump("leaving", "gone")
    /\ suspended' = FALSE
    /\ UNCHANGED <<main, raw, suspend, stop, active, cycle, interrupt, lock,
                   mode, askVars>>

PumpLeaves ==
    /\ Pump("leaving", "gone")
    /\ suspended' = FALSE /\ raw' = FALSE
    /\ UNCHANGED <<main, suspend, stop, active, cycle, interrupt, lock, mode,
                   askVars>>
-----------------------------------------------------------------------------
PumpStep ==
    \/ PumpLoop \/ Repaint \/ Blank \/ LeaveRawMode \/ Acknowledge \/ Unpark
    \/ LowerSuspended \/ ReenterRawMode \/ ReadKeys \/ ReadShiftTab
    \/ ReadCtrlC \/ PumpLeaves

Prompting ==
    \/ Acknowledged \/ DeadlinePasses \/ ShowPrompt \/ BeginRead
    \/ ReadNothing \/ Resume

Next ==
    \/ StartTurn \/ AskBypassed \/ Ask \/ Prompting \/ Answer
    \/ EndTurn \/ JoinPump \/ PumpStep

Spec == Init /\ [][Next]_vars

(***************************************************************************)
(* Both threads are scheduled.  A turn ends, because the agent's runs do   *)
(* (RunEnds in AgentLoop); the user may never answer a prompt.             *)
(***************************************************************************)
Fairness ==
    /\ WF_vars(PumpStep) /\ WF_vars(Prompting) /\ WF_vars(JoinPump)
    /\ SF_vars(EndTurn)

FairSpec == Spec /\ Fairness
-----------------------------------------------------------------------------
\* The variables have their types, and main holds the lock at a prompt only.
TypeOK ==
    /\ main \in {"idle", "turn", "asking", "locking", "showing", "reading",
                 "answered", "stopping"}
    /\ pump \in {"gone", "top", "painting", "polling", "blanking", "restoring",
                 "acking", "parked", "resuming", "reentering", "leaving"}
    /\ raw \in BOOLEAN /\ lock \in BOOLEAN /\ mode \in Modes
    /\ suspend \in BOOLEAN /\ suspended \in BOOLEAN /\ stop \in BOOLEAN
    /\ active \in BOOLEAN /\ cycle \in BOOLEAN /\ interrupt \in BOOLEAN
    /\ acked \in BOOLEAN /\ stale \in BOOLEAN /\ unasked \in BOOLEAN
    /\ lock <=> main \in {"showing", "reading"}

(***************************************************************************)
(* Between turns the line editor gets the terminal as it was: cooked, with *)
(* no pump, no lock and no flag of the handshake left over, whatever the   *)
(* pump was doing when the turn ended.                                     *)
(***************************************************************************)
TerminalRestored ==
    main = "idle" => /\ pump = "gone" /\ ~raw /\ ~lock
                     /\ ~suspend /\ ~suspended /\ ~active

(***************************************************************************)
(* The handshake works when it is used as intended: a prompt that waited   *)
(* for the pump's acknowledgement, and did not mistake an earlier one for  *)
(* it, has the terminal to itself, cooked, until the answer is read.       *)
(***************************************************************************)
AckedPromptOwnsTerminal ==
    (acked /\ ~stale /\ main \in {"locking", "showing", "reading"})
        => ~raw /\ pump \in {"parked", "gone"}

(***************************************************************************)
(* A Ctrl-C cancels the turn it was pressed in and no other: the flag is   *)
(* down when a turn begins and stays up until the turn is over.            *)
(***************************************************************************)
CancelScoped ==
    [][/\ interrupt /\ ~interrupt' => main = "idle" /\ pump = "gone"
       /\ main = "idle" /\ main' = "turn" => ~interrupt']_vars

(***************************************************************************)
(* Nobody waits for ever: the main thread gets from its prompt to the user *)
(* and through the join at the end of the turn, although it takes a lock   *)
(* the pump also wants, and the pump may be parked or repainting.          *)
(***************************************************************************)
TurnsEnd ==
    /\ (main = "stopping") ~> (main = "idle")
    /\ (main = "asking") ~> (main \in {"reading", "answered"})

\* The steps a pump that is told to stop still takes before it is gone.
Left == [gone |-> 0, leaving |-> 1, top |-> 2, resuming |-> 2, painting |-> 3,
         parked |-> 3, polling |-> 4, reentering |-> 4, acking |-> 4,
         restoring |-> 5, blanking |-> 6]

(***************************************************************************)
(* The join at the end of a turn waits for a pump that is really leaving:  *)
(* wherever `stop` finds it, parked for a prompt or on its way back to raw *)
(* mode included, each of its steps brings it nearer to its end.           *)
(***************************************************************************)
JoinIsBounded ==
    [][main = "stopping" /\ main' = "stopping" => Left[pump'] < Left[pump]]_vars

\* Shift+Tab takes effect, at a prompt or at the end of the turn, unless the
\* user leaves a prompt unanswered.
ShiftTabApplied == cycle ~> (~cycle \/ main = "reading")

(***************************************************************************)
(* "the prompt still works in that case, the only risk is a transient race *)
(* where the first keystroke goes to the editor instead" (main.rs:2109):   *)
(* a prompt is answered by what the user typed.                            *)
(***************************************************************************)
PromptsAreAnsweredByUser == ~unasked
=============================================================================
