------------------------ MODULE PromptHandshakeProofs ------------------------
(***************************************************************************)
(* Proofs about PromptHandshake: the terminal is given back after every    *)
(* turn, a prompt that was acknowledged owns it, and the join at the end   *)
(* of a turn is short.                                                     *)
(***************************************************************************)
EXTENDS PromptHandshake, TLAPS

\* What the pump's place says of the terminal and of its acknowledgement.
PumpKeeps ==
    /\ pump \in {"gone", "acking", "parked", "resuming", "reentering"} => ~raw
    /\ suspended => pump \in {"parked", "resuming"}

\* What the flags of a turn say of its two threads.
TurnKeeps ==
    /\ ~active => pump = "gone" /\ ~suspend
    /\ main = "idle" => ~active
    /\ stop => main \in {"idle", "stopping"}
    /\ main = "stopping" => stop

\* While a prompt is open it holds `suspend` up, so that a pump that has
\* acknowledged it stays parked; one that was seen up before may be leaving.
AtPrompt == main \in {"locking", "showing", "reading"}

PromptKeeps ==
    /\ main = "asking" => active /\ ~acked
    /\ active /\ (AtPrompt \/ main \in {"asking", "answered"}) => suspend
    /\ main = "asking" /\ ~stale /\ suspended => pump = "parked"
    /\ AtPrompt /\ acked /\ ~stale => pump = "parked"

IInv == TypeOK /\ PumpKeeps /\ TurnKeeps /\ PromptKeeps
-----------------------------------------------------------------------------
\* The actions by the thread that takes them, and main's by their effect.
Boundary == StartTurn \/ EndTurn \/ JoinPump
Opening == AskBypassed \/ Ask \/ Acknowledged \/ DeadlinePasses
Closing == ShowPrompt \/ BeginRead \/ Answer \/ ReadNothing \/ Resume

LEMMA NextCases == Next => Boundary \/ Opening \/ Closing \/ PumpStep
BY DEF Next, Prompting, Boundary, Opening, Closing

LEMMA ModeType == mode \in Modes => NextMode[mode] \in Modes
BY DEF NextMode, Modes

\* The conjuncts of the type invariant in three groups.
FlagTypes ==
    /\ raw \in BOOLEAN /\ lock \in BOOLEAN
    /\ suspend \in BOOLEAN /\ suspended \in BOOLEAN /\ stop \in BOOLEAN
    /\ active \in BOOLEAN /\ cycle \in BOOLEAN /\ interrupt \in BOOLEAN
    /\ acked \in BOOLEAN /\ stale \in BOOLEAN /\ unasked \in BOOLEAN

PlaceTypes ==
    /\ main \in {"idle", "turn", "asking", "locking", "showing", "reading",
                 "answered", "stopping"}
    /\ pump \in {"gone", "top", "painting", "polling", "blanking", "restoring",
                 "acking", "parked", "resuming", "reentering", "leaving"}
    /\ mode \in Modes

LockAtPrompt == lock <=> main \in {"showing", "reading"}

LEMMA Groups == TypeOK <=> FlagTypes /\ PlaceTypes /\ LockAtPrompt
BY DEF TypeOK, FlagTypes, PlaceTypes, LockAtPrompt

LEMMA TypeStep == TypeOK /\ Next => TypeOK'
<1> SUFFICES ASSUME FlagTypes, PlaceTypes, LockAtPrompt, Next
             PROVE  FlagTypes' /\ PlaceTypes' /\ LockAtPrompt'
    BY Groups DEF TypeOK, FlagTypes, PlaceTypes, LockAtPrompt
<1> USE DEF flagVars, askVars, Main, Pump
<1>1. CASE Boundary
    <2> USE <1>1 DEF Boundary, StartTurn, EndTurn, JoinPump
    <2>1. FlagTypes'
        BY DEF FlagTypes
    <2>2. PlaceTypes'
        BY ModeType DEF PlaceTypes
    <2>3. LockAtPrompt'
        BY DEF LockAtPrompt, PlaceTypes
    <2> QED BY <2>1, <2>2, <2>3
<1>2. CASE Opening
    <2> USE <1>2 DEF Opening, AskBypassed, Ask, Acknowledged, DeadlinePasses
    <2>1. FlagTypes'
        <3>1. CASE AskBypassed
            BY <3>1 DEF FlagTypes
        <3>2. CASE Ask
            BY <3>2 DEF FlagTypes
        <3>3. CASE Acknowledged
            BY <3>3 DEF FlagTypes
        <3>4. CASE DeadlinePasses
            BY <3>4 DEF FlagTypes
        <3> QED BY <3>1, <3>2, <3>3, <3>4
    <2>2. PlaceTypes'
        BY DEF PlaceTypes, Modes
    <2>3. LockAtPrompt'
        BY DEF LockAtPrompt, PlaceTypes
    <2> QED BY <2>1, <2>2, <2>3
<1>3. CASE Closing
    <2> USE <1>3 DEF Closing, ShowPrompt, BeginRead, Answer, Answered,
            ReadNothing, Resume
    <2>1. FlagTypes'
        <3>1. CASE ShowPrompt
            BY <3>1 DEF FlagTypes
        <3>2. CASE BeginRead
            BY <3>2 DEF FlagTypes
        <3>3. CASE Answer
            BY <3>3 DEF FlagTypes
        <3>4. CASE ReadNothing
            BY <3>4 DEF FlagTypes
        <3>5. CASE Resume
            BY <3>5 DEF FlagTypes
        <3> QED BY <3>1, <3>2, <3>3, <3>4, <3>5
    <2>2. PlaceTypes'
        BY DEF PlaceTypes, Modes
    <2>3. LockAtPrompt'
        BY DEF LockAtPrompt, PlaceTypes
    <2> QED BY <2>1, <2>2, <2>3
<1>4. CASE PumpStep
    <2> USE <1>4 DEF PumpStep, PumpLoop, Repaint, Blank, Paint, LeaveRawMode,
            Acknowledge, Unpark, LowerSuspended, ReenterRawMode, ReadKeys,
            ReadShiftTab, ReadCtrlC, PumpLeaves
    <2>1. FlagTypes'
        <3>1. CASE PumpLoop
            BY <3>1 DEF FlagTypes
        <3>2. CASE Repaint
            BY <3>2 DEF FlagTypes
        <3>3. CASE Blank
            BY <3>3 DEF FlagTypes
        <3>4. CASE LeaveRawMode
            BY <3>4 DEF FlagTypes
        <3>5. CASE Acknowledge
            BY <3>5 DEF FlagTypes
        <3>6. CASE Unpark
            BY <3>6 DEF FlagTypes
        <3>7. CASE LowerSuspended
            BY <3>7 DEF FlagTypes
        <3>8. CASE ReenterRawMode
            BY <3>8 DEF FlagTypes
        <3>9. CASE ReadKeys
            BY <3>9 DEF FlagTypes
        <3>10. CASE ReadShiftTab
            BY <3>10 DEF FlagTypes
        <3>11. CASE ReadCtrlC
            BY <3>11 DEF FlagTypes
        <3>12. CASE PumpLeaves
            BY <3>12 DEF FlagTypes
        <3> QED BY <3>1, <3>2, <3>3, <3>4, <3>5, <3>6, <3>7, <3>8, <3>9, <3>10, <3>11, <3>12
    <2>2. PlaceTypes'
        BY DEF PlaceTypes
    <2>3. LockAtPrompt'
        BY DEF LockAtPrompt, PlaceTypes
    <2> QED BY <2>1, <2>2, <2>3
<1> QED BY <1>1, <1>2, <1>3, <1>4, NextCases

\* The turn and the prompt: JoinPump waits for the pump, Ask raises `suspend`
\* and remembers whether an earlier acknowledgement was still up.
LEMMA MainStep ==
    IInv /\ (Boundary \/ Opening \/ Closing)
        => PumpKeeps' /\ TurnKeeps' /\ PromptKeeps'
<1> SUFFICES ASSUME IInv, Boundary \/ Opening \/ Closing
             PROVE  PumpKeeps' /\ TurnKeeps' /\ PromptKeeps'
    OBVIOUS
<1> USE DEF IInv, TypeOK, PumpKeeps, TurnKeeps, PromptKeeps, AtPrompt,
        flagVars, askVars, Main
<1>1. CASE Boundary
    BY <1>1 DEF Boundary, StartTurn, EndTurn, JoinPump
<1>2. CASE Opening
    BY <1>2 DEF Opening, AskBypassed, Ask, Acknowledged, DeadlinePasses
<1>3. CASE Closing
    BY <1>3 DEF Closing, ShowPrompt, BeginRead, Answer, Answered, ReadNothing,
        Resume
<1> QED BY <1>1, <1>2, <1>3

\* The pump: it acknowledges in cooked mode, and is not unparked while
\* `suspend` is up and the turn goes on.
LEMMA PumpStepKeeps ==
    IInv /\ PumpStep => PumpKeeps' /\ TurnKeeps' /\ PromptKeeps'
<1> SUFFICES ASSUME IInv, PumpStep
             PROVE  PumpKeeps' /\ TurnKeeps' /\ PromptKeeps'
    OBVIOUS
<1> USE DEF IInv, TypeOK, PumpKeeps, TurnKeeps, PromptKeeps, AtPrompt,
        flagVars, askVars, Pump
<1>1. CASE PumpLoop \/ Repaint \/ Blank \/ ReadKeys \/ ReadShiftTab \/ ReadCtrlC
    BY <1>1 DEF PumpLoop, Repaint, Blank, Paint, ReadKeys, ReadShiftTab,
        ReadCtrlC
<1>2. CASE LeaveRawMode \/ Acknowledge \/ Unpark
    BY <1>2 DEF LeaveRawMode, Acknowledge, Unpark
<1>3. CASE LowerSuspended \/ ReenterRawMode \/ PumpLeaves
    BY <1>3 DEF LowerSuspended, ReenterRawMode, PumpLeaves
<1> QED BY <1>1, <1>2, <1>3 DEF PumpStep
-----------------------------------------------------------------------------
LEMMA InitInvariant == Init => IInv
BY DEF Init, IInv, TypeOK, PumpKeeps, TurnKeeps, PromptKeeps, AtPrompt

LEMMA NextInvariant == IInv /\ [Next]_vars => IInv'
<1>1. IInv /\ Next => IInv'
    BY TypeStep, MainStep, PumpStepKeeps, NextCases DEF IInv
<1>2. IInv /\ UNCHANGED vars => IInv'
    BY DEF IInv, TypeOK, PumpKeeps, TurnKeeps, PromptKeeps, AtPrompt, vars,
        flagVars, askVars
<1> QED BY <1>1, <1>2

LEMMA Invariance == Spec => []IInv
BY InitInvariant, NextInvariant, PTL DEF Spec

\* Every reachable state has its type, and the paint lock is held at a prompt
\* and nowhere else.
THEOREM TypeCorrect == Spec => []TypeOK
<1>1. IInv => TypeOK
    BY DEF IInv
<1> QED BY <1>1, Invariance, PTL

\* However the pump leaves, the next prompt of the line editor finds the
\* terminal cooked and every flag of the handshake down.
THEOREM TerminalAlwaysRestored == Spec => []TerminalRestored
<1>1. IInv => TerminalRestored
    BY DEF IInv, TypeOK, PumpKeeps, TurnKeeps, TerminalRestored
<1> QED BY <1>1, Invariance, PTL

\* A permission prompt that waited for the acknowledgement reads its answer
\* from a cooked terminal nobody else reads from.
THEOREM AckedPromptAlwaysOwns == Spec => []AckedPromptOwnsTerminal
<1>1. IInv => AckedPromptOwnsTerminal
    BY DEF IInv, PumpKeeps, PromptKeeps, AtPrompt, AckedPromptOwnsTerminal
<1> QED BY <1>1, Invariance, PTL

\* A Ctrl-C is dropped by the start of a turn alone, which finds no pump that
\* could still read one: it stays with the turn it was pressed in.
THEOREM CancelStaysScoped == Spec => CancelScoped
<1> DEFINE Scoped == /\ interrupt /\ ~interrupt' => main = "idle" /\ pump = "gone"
                     /\ main = "idle" /\ main' = "turn" => ~interrupt'
<1>1. IInv /\ [Next]_vars => [Scoped]_vars
    <2> SUFFICES ASSUME IInv, Next
                 PROVE  Scoped
        OBVIOUS
    <2> USE DEF flagVars, askVars, Main, Pump
    <2>1. CASE Boundary
        BY <2>1 DEF Boundary, StartTurn, EndTurn, JoinPump, IInv, TypeOK, TurnKeeps
    <2>2. CASE Opening
        BY <2>2 DEF Opening, AskBypassed, Ask, Acknowledged, DeadlinePasses
    <2>3. CASE Closing
        BY <2>3 DEF Closing, ShowPrompt, BeginRead, Answer, Answered,
            ReadNothing, Resume
    <2>4. CASE PumpStep
        BY <2>4 DEF PumpStep, PumpLoop, Repaint, Blank, Paint, LeaveRawMode,
            Acknowledge, Unpark, LowerSuspended, ReenterRawMode, ReadKeys,
            ReadShiftTab, ReadCtrlC, PumpLeaves
    <2> QED BY <2>1, <2>2, <2>3, <2>4, NextCases
<1> QED BY <1>1, Invariance, PTL DEF CancelScoped, Spec

\* `Left` at every place of the pump.
LEMMA Ranks ==
    /\ Left["gone"] = 0 /\ Left["leaving"] = 1 /\ Left["top"] = 2
    /\ Left["resuming"] = 2 /\ Left["painting"] = 3 /\ Left["parked"] = 3
    /\ Left["polling"] = 4 /\ Left["reentering"] = 4 /\ Left["acking"] = 4
    /\ Left["restoring"] = 5 /\ Left["blanking"] = 6
BY DEF Left

\* The steps left of a pump that was told to stop, for its places.
LEMMA StoppingPump ==
    ASSUME IInv, PumpStep, main = "stopping"
    PROVE  Left[pump'] < Left[pump]
<1>1. stop /\ ~lock
    BY DEF IInv, TypeOK, TurnKeeps
<1> USE <1>1, Ranks DEF Pump
<1>2. CASE PumpLoop
    BY <1>2 DEF PumpLoop
<1>3. CASE Repaint \/ Blank
    BY <1>3 DEF Repaint, Blank, Paint
<1>4. CASE LeaveRawMode
    BY <1>4 DEF LeaveRawMode
<1>5. CASE Acknowledge
    BY <1>5 DEF Acknowledge
<1>6. CASE Unpark
    BY <1>6 DEF Unpark
<1>7. CASE LowerSuspended
    BY <1>7 DEF LowerSuspended
<1>8. CASE ReenterRawMode
    BY <1>8 DEF ReenterRawMode
<1>9. CASE PumpLeaves
    BY <1>9 DEF PumpLeaves
<1>10. CASE ReadKeys \/ ReadShiftTab \/ ReadCtrlC
    <2>1. pump = "polling" /\ pump' \in {"top", "painting", "leaving"}
        BY <1>10 DEF ReadKeys, ReadShiftTab, ReadCtrlC
    <2> QED BY <2>1
<1> QED BY <1>2, <1>3, <1>4, <1>5, <1>6, <1>7, <1>8, <1>9, <1>10 DEF PumpStep

\* The join at the end of a turn waits for at most six steps of the pump,
\* whatever the handshake was doing when `stop` was raised.
THEOREM JoinAlwaysBounded == Spec => JoinIsBounded
<1> DEFINE Nearer == main = "stopping" /\ main' = "stopping"
                        => Left[pump'] < Left[pump]
<1>1. IInv /\ [Next]_vars => [Nearer]_vars
    <2> SUFFICES ASSUME IInv, Next, main = "stopping", main' = "stopping"
                 PROVE  Left[pump'] < Left[pump]
        OBVIOUS
    <2>1. ~(Boundary \/ Opening \/ Closing)
        BY DEF Boundary, StartTurn, EndTurn, JoinPump, Opening, AskBypassed,
            Ask, Acknowledged, DeadlinePasses, Closing, ShowPrompt, BeginRead,
            Answer, Answered, ReadNothing, Resume, Main
    <2> QED BY <2>1, NextCases, StoppingPump
<1> QED BY <1>1, Invariance, PTL DEF JoinIsBounded, Spec

\* And the pump can take them: the lock it repaints under is free, and it is
\* not parked for good, so that the join is not a deadlock.
THEOREM JoinNeverStuck ==
    Spec => [](main = "stopping" =>
                /\ stop /\ ~lock
                /\ pump = "gone" \/ Left[pump] \in 1..6)
<1>1. IInv => (main = "stopping" =>
                /\ stop /\ ~lock
                /\ pump = "gone" \/ Left[pump] \in 1..6)
    BY Ranks DEF IInv, TypeOK, TurnKeeps
<1> QED BY <1>1, Invariance, PTL
-----------------------------------------------------------------------------
(***************************************************************************)
(* What an unasked answer needs.  A prompt that neither gave up waiting    *)
(* nor took an earlier acknowledgement for its own is answered by the user *)
(* alone.                                                                  *)
(***************************************************************************)
NothingUnasked ==
    /\ ~unasked
    /\ AtPrompt /\ ~stale => ~active \/ acked

LEMMA UnaskedStep ==
    IInv /\ ~stale /\ NothingUnasked /\ [Next /\ ~DeadlinePasses]_vars
        => NothingUnasked'
<1> SUFFICES ASSUME IInv, ~stale, NothingUnasked,
                    (Next /\ ~DeadlinePasses) \/ UNCHANGED vars
             PROVE  NothingUnasked'
    OBVIOUS
<1> USE DEF NothingUnasked, AtPrompt, flagVars, askVars, Main, Pump
<1>1. CASE UNCHANGED vars
    BY <1>1 DEF vars
<1>2. CASE Boundary
    BY <1>2 DEF Boundary, StartTurn, EndTurn, JoinPump
<1>3. CASE Opening /\ ~DeadlinePasses
    BY <1>3 DEF Opening, AskBypassed, Ask, Acknowledged
<1>4. CASE ShowPrompt \/ BeginRead \/ Answer \/ Resume
    BY <1>4 DEF ShowPrompt, BeginRead, Answer, Answered, Resume
<1>5. ~ReadNothing
    BY DEF ReadNothing, Answered, IInv, PumpKeeps, TurnKeeps, PromptKeeps
<1>6. CASE PumpStep
    BY <1>6 DEF PumpStep, PumpLoop, Repaint, Blank, Paint, LeaveRawMode,
        Acknowledge, Unpark, LowerSuspended, ReenterRawMode, ReadKeys,
        ReadShiftTab, ReadCtrlC, PumpLeaves
<1> QED BY <1>1, <1>2, <1>3, <1>4, <1>5, <1>6, NextCases DEF Closing

\* The two ways a prompt can be answered although no key was pressed, and
\* there is no third: while no deadline passes and no prompt finds an earlier
\* acknowledgement still up, every prompt is answered by the user.
THEOREM UnaskedNeedsMissedHandshake ==
    Spec /\ [][~DeadlinePasses]_vars /\ []~stale
        => []PromptsAreAnsweredByUser
<1>1. Init => NothingUnasked
    BY DEF Init, NothingUnasked, AtPrompt
<1>2. IInv /\ ~stale /\ NothingUnasked /\ [Next]_vars /\ [~DeadlinePasses]_vars
        => NothingUnasked'
    BY UnaskedStep
<1>3. NothingUnasked => PromptsAreAnsweredByUser
    BY DEF NothingUnasked, PromptsAreAnsweredByUser
<1> QED BY <1>1, <1>2, <1>3, Invariance, PTL DEF Spec
=============================================================================
