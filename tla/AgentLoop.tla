------------------------------ MODULE AgentLoop ------------------------------
(***************************************************************************)
(* The agent loop of deeptide-core/src/agent_loop.rs with the context      *)
(* window of context_window.rs: one thread that alternates model requests  *)
(* and batches of tool calls, compacts its transcript, asks the user for   *)
(* permission, and polls a cancellation flag that another thread raises.   *)
(***************************************************************************)
EXTENDS Integers, Sequences, Permissions

CONSTANTS
    Tools,               \* the kinds of tool the model calls
    Restricted,          \* kinds refused by the agent's tool restrictions
    DenyRules,           \* kinds with a persistent deny rule
    AllowRules,          \* kinds with a persistent allow rule
    MaxTurns,            \* requests per run before the loop gives up
    MaxBatch,            \* bound: tool calls in one response
    MaxRuns,             \* bound: prompts the user submits
    WindowSize,          \* messages a compaction keeps verbatim
    MaxMessages,         \* message count that forces a compaction
    MaxTokens,           \* token budget: hard limit, blocking threshold
    BlockTokens,
    SoftTokens,          \* ... and threshold of automatic compaction
    TextCosts,           \* token costs of a prompt or of a response's text
    SummaryCosts,        \* token costs of a summary
    MarkerCost,          \* token cost of the marker Snip leaves
    SnipKeeps,           \* values of Snip's keep_last argument
    UserModes            \* bound: the permission modes the user picks from

ASSUME AgentLoopAssumption ==
    /\ Tools \subseteq ToolKinds
    /\ MaxTurns \in Nat \ {0} /\ MaxBatch \in Nat /\ MaxRuns \in Nat
    /\ WindowSize \in Nat \ {0} /\ MaxMessages \in Nat
    /\ MaxTokens \in Nat /\ BlockTokens \in Nat /\ SoftTokens \in Nat
    /\ TextCosts \subseteq Nat /\ SummaryCosts \subseteq Nat
    /\ MarkerCost \in Nat /\ SnipKeeps \subseteq Nat \ {0}
    /\ UserModes \subseteq Modes

VARIABLES
    messages,            \* the transcript
    step,                \* current_run_step
    pc,                  \* where the agent thread is
    batch,               \* tool calls of the current response
    done,                \* results collected for a prefix of the batch
    outcome,             \* result of the call being executed
    interrupted,         \* the batch has observed the cancellation
    reported,            \* ToolResult events emitted for this batch
    flag,                \* the shared cancellation flag
    mode,                \* permission mode
    sessionAllow,        \* kinds allowed for the session
    events,              \* emitted since the user or the model last spoke
    snapshot,            \* latest /checkpoint: a transcript, or <<>>
    runs                 \* prompts submitted so far

\* What the properties need to remember of the past: the user's answers, and
\* what the agent did after the user cancelled.
VARIABLES
    approved,            \* calls of this run the user approved one by one
    userMode,            \* permission mode the user chose last
    planned,             \* in plan mode, and no user has approved leaving it
    late                 \* requests and tool bodies begun since the cancel

loopVars == <<step, batch, done, outcome, interrupted, reported>>
userVars == <<flag, mode, sessionAllow, snapshot, runs>>
histVars == <<approved, userMode, planned, late>>
vars == <<messages, pc, events, loopVars, userVars, histVars>>

CallId == Nat \X Nat \X Nat          \* run, step, position in the batch
-----------------------------------------------------------------------------
(***************************************************************************)
(* Messages.  Tool results travel in a user message without text, so they  *)
(* cost nothing in the estimate the context window works with.             *)
(***************************************************************************)
Message == [role: {"user", "assistant"}, uses: Seq(CallId),
            results: Seq(CallId), cost: Nat]

UserText(c) == [role |-> "user", uses |-> <<>>, results |-> <<>>, cost |-> c]

AssistantText(ids, c) ==
    [role |-> "assistant", uses |-> ids, results |-> <<>>, cost |-> c]

ToolResults(ids) ==
    [role |-> "user", uses |-> <<>>, results |-> ids, cost |-> 0]

Total(ms) ==
    LET sum[i \in 0..Len(ms)] == IF i = 0 THEN 0 ELSE sum[i - 1] + ms[i].cost
    IN  sum[Len(ms)]

(***************************************************************************)
(* ContextWindowManager::compress_at.  The messages before the boundary    *)
(* are folded into a summary; the boundary moves forward to an assistant   *)
(* message.  While the result is over the hard limit, the message after    *)
(* the summary is dropped.  Boundary and DropCount are relations with one  *)
(* solution each.                                                          *)
(***************************************************************************)
Boundary(ms, s) ==
    /\ s \in (Len(ms) - WindowSize)..Len(ms)
    /\ s < Len(ms) => ms[s + 1].role = "assistant"
    /\ \A i \in (Len(ms) - WindowSize)..(s - 1) : ms[i + 1].role # "assistant"

Fold(ms, s, c) == <<UserText(c)>> \o SubSeq(ms, s + 1, Len(ms))

DropAfterFirst(ms, d) == <<ms[1]>> \o SubSeq(ms, d + 2, Len(ms))

DropCount(ms, d) ==
    /\ d \in 0..(Len(ms) - 1)
    /\ \A e \in 0..(d - 1) : Total(DropAfterFirst(ms, e)) > MaxTokens
    /\ d < Len(ms) - 1 => Total(DropAfterFirst(ms, d)) <= MaxTokens

Compactions(ms) ==
    {DropAfterFirst(Fold(ms, x[1], x[2]), x[3]) :
        x \in {x \in (0..Len(ms)) \X SummaryCosts \X (0..Len(ms)) :
                 /\ Boundary(ms, x[1])
                 /\ DropCount(Fold(ms, x[1], x[2]), x[3])}}

CompactionDue(ms) ==
    /\ Len(ms) > WindowSize
    /\ Total(ms) > SoftTokens \/ Len(ms) > MaxMessages

\* trim_messages_for_snip: keep the last k messages behind a marker.
Snipped(ms, k) ==
    IF Len(ms) <= k THEN ms
    ELSE <<UserText(MarkerCost)>> \o SubSeq(ms, Len(ms) - k + 1, Len(ms))
-----------------------------------------------------------------------------
Ids(calls) == [i \in DOMAIN calls |-> calls[i].id]

Cur == batch[Len(done) + 1]          \* the call whose turn it is

NoBatch ==
    /\ batch' = <<>>
    /\ done' = <<>>
    /\ outcome' = "none"
    /\ interrupted' = FALSE
    /\ reported' = 0

(***************************************************************************)
(* AgentLoop::emit.  A listener needs the events from the last User or     *)
(* Assistant event on, so Open starts the sequence anew and Emit extends   *)
(* it.                                                                     *)
(***************************************************************************)
Event(type) == [type |-> type, calls |-> <<>>]

Open(first) == events' = first

Emit(new) == events' = events \o new

Finish ==                            \* run_inner returns
    /\ Emit(<<Event("Terminal")>>)
    /\ pc' = "idle"

Init ==
    /\ messages = <<>> /\ step = 0 /\ pc = "idle"
    /\ batch = <<>> /\ done = <<>> /\ outcome = "none"
    /\ interrupted = FALSE /\ reported = 0
    /\ flag = FALSE /\ sessionAllow = {}
    /\ mode \in UserModes
    /\ events = <<>> /\ snapshot = <<>> /\ runs = 0
    /\ approved = {} /\ late = 0
    /\ userMode = mode
    /\ planned = (mode = "Plan")
-----------------------------------------------------------------------------
(***************************************************************************)
(* The user.  A prompt is submitted after the driver has cleared the       *)
(* cancellation flag; everything but Cancel and the answers happens        *)
(* between runs.                                                           *)
(***************************************************************************)
Submit(c) ==
    /\ pc = "idle"
    /\ runs < MaxRuns
    /\ runs' = runs + 1
    /\ flag' = FALSE
    /\ step' = 0
    /\ messages' = Append(messages, UserText(c))
    /\ Open(<<Event("User")>>)
    /\ pc' = "compact"
    /\ approved' = {}
    /\ late' = 0
    /\ UNCHANGED <<batch, done, outcome, interrupted, reported, mode,
                   sessionAllow, snapshot, userMode, planned>>

Cancel ==                            \* Ctrl-C while the agent is at work
    /\ pc # "idle"
    /\ flag' = TRUE
    /\ UNCHANGED <<messages, pc, events, loopVars, mode, sessionAllow,
                   snapshot, runs, histVars>>

CompactCommand ==                    \* /compact
    /\ pc = "idle"
    /\ Len(messages) > WindowSize
    /\ messages' \in Compactions(messages)
    /\ UNCHANGED <<pc, events, loopVars, userVars, histVars>>

SaveCheckpoint ==                    \* /checkpoint
    /\ pc = "idle"
    /\ messages # <<>>
    /\ snapshot' = messages
    /\ UNCHANGED <<messages, pc, events, loopVars, flag, mode, sessionAllow,
                   runs, histVars>>

RestoreCheckpoint ==                 \* /rewind: replace_messages
    /\ pc = "idle"
    /\ snapshot # <<>>
    /\ messages' = snapshot
    /\ UNCHANGED <<pc, events, loopVars, userVars, histVars>>

Reset ==                             \* /clear
    /\ pc = "idle"
    /\ messages' = <<>>
    /\ step' = 0
    /\ UNCHANGED <<pc, events, batch, done, outcome, interrupted, reported,
                   userVars, histVars>>

SetMode(m) ==                        \* Shift+Tab at the prompt, /permission
    /\ pc = "idle"
    /\ m # mode
    /\ mode' = m
    /\ userMode' = m
    /\ planned' = (m = "Plan")
    /\ UNCHANGED <<messages, pc, events, loopVars, flag, sessionAllow,
                   snapshot, runs, approved, late>>
-----------------------------------------------------------------------------
(***************************************************************************)
(* The agent thread: the top of the turn loop.                             *)
(***************************************************************************)
AutoCompact ==
    /\ pc = "compact"
    /\ CompactionDue(messages)
    /\ messages' \in Compactions(messages)
    /\ Emit(<<Event("Compaction")>>)
    /\ pc' = "gate"
    /\ UNCHANGED <<loopVars, userVars, histVars>>

SkipCompact ==
    /\ pc = "compact"
    /\ ~CompactionDue(messages)
    /\ pc' = "gate"
    /\ UNCHANGED <<messages, events, loopVars, userVars, histVars>>

GiveUp ==                            \* blocked, at the cap, or cancelled
    /\ pc = "gate"
    /\ \/ Total(messages) > BlockTokens
       \/ step >= MaxTurns
       \/ flag
    /\ Finish
    /\ UNCHANGED <<messages, loopVars, userVars, histVars>>

Request ==                           \* backend.respond is called
    /\ pc = "gate"
    /\ Total(messages) <= BlockTokens
    /\ step < MaxTurns
    /\ ~flag
    /\ step' = step + 1
    /\ pc' = "respond"
    /\ late' = IF flag THEN late + 1 ELSE late
    /\ UNCHANGED <<messages, events, batch, done, outcome, interrupted,
                   reported, userVars, approved, userMode, planned>>

RespondText(c) ==                    \* an answer without tool calls
    /\ pc = "respond"
    /\ messages' = Append(messages, AssistantText(<<>>, c))
    /\ Open(<<Event("Assistant"), Event("Terminal")>>)
    /\ pc' = "idle"
    /\ UNCHANGED <<loopVars, userVars, histVars>>

NewCalls(kinds) ==                   \* kinds: the tools called, in order
    [i \in DOMAIN kinds |-> [id |-> <<runs, step, i>>, tool |-> kinds[i]]]

RespondCalls(kinds, c) ==
    /\ pc = "respond"
    /\ messages' = Append(messages, AssistantText(Ids(NewCalls(kinds)), c))
    /\ Open(<<[type |-> "Assistant", calls |-> Ids(NewCalls(kinds))]>>)
    /\ batch' = NewCalls(kinds)
    /\ pc' = "pick"
    /\ UNCHANGED <<step, done, outcome, interrupted, reported, userVars,
                   histVars>>

RespondError ==                      \* transport error or aborted stream
    /\ pc = "respond"
    /\ Finish
    /\ UNCHANGED <<messages, loopVars, userVars, histVars>>
-----------------------------------------------------------------------------
(***************************************************************************)
(* The agent thread: one tool call after the other.                        *)
(***************************************************************************)
Picking == pc = "pick" /\ Len(done) < Len(batch)

\* A cancelled batch cut short, without synthetic results.
SkipToolSilently ==
    /\ Picking
    /\ interrupted \/ flag
    /\ interrupted' = TRUE
    /\ batch' = SubSeq(batch, 1, Len(done))
    /\ UNCHANGED <<messages, pc, events, step, done, outcome, reported,
                   userVars, histVars>>

SkipTool ==                          \* synthetic result of a cancelled call
    /\ Picking
    /\ interrupted \/ flag
    /\ interrupted' = TRUE
    /\ done' = Append(done, [id |-> Cur.id, outcome |-> "cancelled"])
    /\ UNCHANGED <<messages, pc, events, step, batch, outcome, reported,
                   userVars, histVars>>

\* EnterPlanMode always, and ExitPlanMode in plan mode, bypass permissions.
PlanTransition ==
    \/ Cur.tool = "EnterPlanMode"
    \/ Cur.tool = "ExitPlanMode" /\ mode = "Plan"

\* Leaving plan mode taken for accepting the edits of the plan.
SwitchPlanModeToEdits ==
    /\ Picking
    /\ ~interrupted /\ ~flag
    /\ Cur.tool \notin Restricted
    /\ PlanTransition
    /\ mode' = IF Cur.tool = "EnterPlanMode" THEN "Plan" ELSE "AcceptEdits"
    /\ planned' = (planned \/ Cur.tool = "EnterPlanMode")
    /\ outcome' = "ok"
    /\ pc' = "settle"
    /\ UNCHANGED <<messages, events, step, batch, done, interrupted, reported,
                   flag, sessionAllow, snapshot, runs, approved, userMode,
                   late>>

SwitchPlanMode ==
    /\ Picking
    /\ ~interrupted /\ ~flag
    /\ Cur.tool \notin Restricted
    /\ PlanTransition
    /\ mode' = IF Cur.tool = "EnterPlanMode" THEN "Plan" ELSE "Default"
    /\ planned' = (planned \/ Cur.tool = "EnterPlanMode")
    /\ outcome' = "ok"
    /\ pc' = "settle"
    /\ UNCHANGED <<messages, events, step, batch, done, interrupted, reported,
                   flag, sessionAllow, snapshot, runs, approved, userMode,
                   late>>

\* Where execute_tool_call_inner sends a call that is no plan transition.
Route(tool) ==
    LET decision == Decision(mode, tool, DenyRules,
                             AllowRules \union sessionAllow)
    IN  IF tool \in Restricted \/ decision = "Deny" THEN "settle"
        ELSE IF decision = "Ask" THEN "ask" ELSE "body"

\* A flag polled before requests, and never inside a batch.
StartToolUnpolled ==
    /\ Picking
    /\ Cur.tool \in Restricted \/ ~PlanTransition
    /\ pc' = Route(Cur.tool)
    /\ outcome' = IF Route(Cur.tool) = "settle" THEN "error" ELSE "none"
    /\ UNCHANGED <<messages, events, step, batch, done, interrupted, reported,
                   userVars, histVars>>

StartTool ==
    /\ Picking
    /\ ~interrupted /\ ~flag
    /\ Cur.tool \in Restricted \/ ~PlanTransition
    /\ pc' = Route(Cur.tool)
    /\ outcome' = IF Route(Cur.tool) = "settle" THEN "error" ELSE "none"
    /\ UNCHANGED <<messages, events, step, batch, done, interrupted, reported,
                   userVars, histVars>>

(***************************************************************************)
(* The user's answer to a permission prompt.                               *)
(***************************************************************************)
Answer ==
    /\ pc = "ask"
    /\ UNCHANGED <<messages, events, step, batch, done, interrupted, reported,
                   flag, snapshot, runs, late>>

AnswerAllow ==
    /\ Answer
    /\ pc' = "body"
    /\ approved' = approved \union {Cur.id}
    /\ UNCHANGED <<outcome, mode, sessionAllow, userMode, planned>>

AnswerAllowAll ==                    \* AllowAllSession: a session rule
    /\ Answer
    /\ pc' = "body"
    /\ sessionAllow' = sessionAllow \union RuleScope(Cur.tool)
    /\ approved' = approved \union {Cur.id}
    /\ UNCHANGED <<outcome, mode, userMode, planned>>

AnswerBypass ==                      \* AllowAndSetMode(Bypass)
    /\ Answer
    /\ pc' = "body"
    /\ mode' = "Bypass"
    /\ userMode' = "Bypass"
    /\ planned' = FALSE
    /\ approved' = approved \union {Cur.id}
    /\ UNCHANGED <<outcome, sessionAllow>>

AnswerDeny ==                        \* or nobody to ask
    /\ Answer
    /\ pc' = "settle"
    /\ outcome' = "error"
    /\ UNCHANGED <<mode, sessionAllow, approved, userMode, planned>>

(***************************************************************************)
(* The tool itself: a PreToolUse hook may veto it; Snip and Brief rewrite  *)
(* the transcript the loop is in the middle of.                            *)
(***************************************************************************)
\* A veto that leaves the call without a result.
VetoToolSilently ==
    /\ pc = "body"
    /\ pc' = "settle"
    /\ UNCHANGED <<messages, events, step, batch, done, outcome, interrupted,
                   reported, userVars, histVars>>

VetoTool ==
    /\ pc = "body"
    /\ outcome' = "error"
    /\ pc' = "settle"
    /\ UNCHANGED <<messages, events, step, batch, done, interrupted, reported,
                   userVars, histVars>>

Rewritten(tool) ==
    CASE tool = "Snip"  -> {Snipped(messages, k) : k \in SnipKeeps}
      [] tool = "Brief" -> IF Len(messages) > WindowSize
                           THEN Compactions(messages) ELSE {messages}
      [] OTHER          -> {messages}

RunTool ==
    /\ pc = "body"
    /\ \/ /\ outcome' = "ok"
          /\ messages' \in Rewritten(Cur.tool)
       \/ /\ outcome' = "error"
          /\ UNCHANGED messages
    /\ pc' = "settle"
    /\ late' = IF flag THEN late + 1 ELSE late
    /\ UNCHANGED <<events, step, batch, done, interrupted, reported, userVars,
                   approved, userMode, planned>>

\* A tool that is called again until it succeeds.
SettleSuccessOnly ==
    /\ pc = "settle"
    /\ done' = IF outcome = "ok"
               THEN Append(done, [id |-> Cur.id, outcome |-> outcome])
               ELSE done
    /\ outcome' = "none"
    /\ interrupted' = flag
    /\ pc' = "pick"
    /\ UNCHANGED <<messages, events, step, batch, reported, userVars,
                   histVars>>

Settle ==                            \* record the result, poll the flag
    /\ pc = "settle"
    /\ done' = Append(done, [id |-> Cur.id, outcome |-> outcome])
    /\ outcome' = "none"
    /\ interrupted' = flag
    /\ pc' = "pick"
    /\ UNCHANGED <<messages, events, step, batch, reported, userVars,
                   histVars>>

(***************************************************************************)
(* The agent thread: the batch is over; its results are reported, then     *)
(* appended to the transcript.                                             *)
(***************************************************************************)
BatchOver == pc = "pick" /\ Len(done) = Len(batch)

ReportResult ==
    /\ BatchOver
    /\ reported < Len(done)
    /\ reported' = reported + 1
    /\ Emit(<<[type |-> "ToolResult", calls |-> <<done[reported + 1].id>>]>>)
    /\ UNCHANGED <<messages, pc, step, batch, done, outcome, interrupted,
                   userVars, histVars>>

\* A batch closed before its results are reported.
CloseBatchEarly ==
    /\ BatchOver
    /\ messages' = Append(messages, ToolResults(Ids(done)))
    /\ \/ /\ ~interrupted
          /\ Emit(<<Event("ToolBatchSummary")>>)
          /\ pc' = "compact"
       \/ /\ interrupted
          /\ Emit(<<Event("ToolBatchSummary"), Event("Terminal")>>)
          /\ pc' = "idle"
    /\ NoBatch
    /\ UNCHANGED <<step, userVars, histVars>>

CloseBatch ==
    /\ BatchOver
    /\ reported = Len(done)
    /\ messages' = Append(messages, ToolResults(Ids(done)))
    /\ \/ /\ ~interrupted
          /\ Emit(<<Event("ToolBatchSummary")>>)
          /\ pc' = "compact"
       \/ /\ interrupted
          /\ Emit(<<Event("ToolBatchSummary"), Event("Terminal")>>)
          /\ pc' = "idle"
    /\ NoBatch
    /\ UNCHANGED <<step, userVars, histVars>>
-----------------------------------------------------------------------------
Agent ==
    \/ AutoCompact \/ SkipCompact \/ GiveUp \/ Request
    \/ \E c \in TextCosts :
          \/ RespondText(c)
          \/ \E n \in 1..MaxBatch : \E kinds \in [1..n -> Tools] :
                RespondCalls(kinds, c)
    \/ RespondError
    \/ SkipTool \/ SwitchPlanMode \/ StartTool
    \/ VetoTool \/ RunTool \/ Settle
    \/ ReportResult \/ CloseBatch

User ==
    \/ \E c \in TextCosts : Submit(c)
    \/ Cancel \/ CompactCommand \/ SaveCheckpoint \/ RestoreCheckpoint
    \/ Reset
    \/ \E m \in UserModes : SetMode(m)
    \/ AnswerAllow \/ AnswerAllowAll \/ AnswerBypass \/ AnswerDeny

Next == Agent \/ User

Spec == Init /\ [][Next]_vars

\* The agent thread runs whenever it can; backends and tools return.
FairSpec == Spec /\ WF_vars(Agent)
-----------------------------------------------------------------------------
Outcomes == {"ok", "error", "cancelled"}

Call == [id: CallId, tool: ToolKinds]

Result == [id: CallId, outcome: Outcomes]

EventRecord ==
    [type: {"User", "Assistant", "ToolResult", "Compaction",
            "ToolBatchSummary", "Terminal"},
     calls: Seq(CallId)]

TypeOK ==
    /\ messages \in Seq(Message) /\ snapshot \in Seq(Message)
    /\ step \in Nat /\ runs \in Nat /\ reported \in Nat /\ late \in Nat
    /\ events \in Seq(EventRecord)
    /\ pc \in {"idle", "compact", "gate", "respond", "pick", "ask", "body",
               "settle"}
    /\ batch \in Seq(Call)
    /\ done \in Seq(Result)
    /\ outcome \in {"none", "ok", "error"}
    /\ interrupted \in BOOLEAN /\ flag \in BOOLEAN /\ planned \in BOOLEAN
    /\ mode \in Modes /\ userMode \in Modes
    /\ sessionAllow \subseteq ToolKinds
    /\ approved \subseteq CallId

(***************************************************************************)
(* Every tool_use of the transcript is followed at once by the results of  *)
(* exactly its calls, in order, whenever a request is sent and between     *)
(* runs: after a batch that was cancelled half way, a transcript that Snip *)
(* or Brief rewrote during the batch, a compaction, a rewind.  The API     *)
(* rejects any other transcript, which would end the session for good.     *)
(***************************************************************************)
Answered(ms, i) ==
    ms[i].uses # <<>> => i < Len(ms) /\ ms[i + 1].results = ms[i].uses

UsesAnswered ==
    pc \in {"idle", "compact", "gate", "respond"} =>
        \A i \in DOMAIN messages : Answered(messages, i)

(***************************************************************************)
(* The converse, which the tests ask of compaction ("tool_results must not *)
(* be orphaned after compaction"): no result without the call it answers.  *)
(***************************************************************************)
ResultsHaveUses ==
    pc = "respond" =>
        \A i \in DOMAIN messages :
            messages[i].results # <<>> =>
                i > 1 /\ messages[i - 1].uses = messages[i].results

(***************************************************************************)
(* A tool that changes something runs only with the user's consent: the    *)
(* call was approved, a rule the user made covers it, the mode the user    *)
(* chose last allows it, or plan mode lets it through as exploration.      *)
(* Whatever modes the model itself switched to on the way.                 *)
(***************************************************************************)
Consented(call) ==
    \/ call.tool \notin Destructive
    \/ call.id \in approved
    \/ call.tool \in AllowRules \union sessionAllow
    \/ userMode = "Bypass"
    \/ userMode = "AcceptEdits" /\ call.tool = "edit"
    \/ mode = "Plan" /\ call.tool \notin DeniedInPlan \union {"shell"}

ConsentRespected == pc = "body" => Consented(Cur)

(***************************************************************************)
(* "Design before you code, get approval before execution" (README.md:219): *)
(* once in plan mode, nothing is edited and no command with side effects   *)
(* runs until the user has approved that call or chosen another mode.      *)
(***************************************************************************)
PlanApproved ==
    pc = "body" /\ Cur.tool \in {"edit", "shell"} /\ planned =>
        Cur.id \in approved \/ Cur.tool \in sessionAllow

\* After the user cancels, no request is sent and at most the tool that was
\* already on its way runs, however many calls are left in the batch.
CancelBounded == late <= 1

(***************************************************************************)
(* The event stream keeps the protocol the user interfaces rely on.        *)
(***************************************************************************)
Last == events[Len(events)].type

InBatch == events # <<>> /\ Last \in {"Assistant", "ToolResult"}

\* What a listener still waits for: the calls the Assistant event announced,
\* less the results received, provided these came in the order announced.
Owed ==
    LET calls   == events[1].calls
        results == [i \in 1..(Len(events) - 1) |-> events[i + 1].calls[1]]
    IN  IF results = SubSeq(calls, 1, Len(results))
        THEN SubSeq(calls, Len(results) + 1, Len(calls)) ELSE calls

Stream == INSTANCE TurnProtocol WITH
    CallId <- CallId,
    phase <- IF events = <<>> \/ Last = "Terminal" THEN "closed"
             ELSE IF InBatch THEN "answering" ELSE "thinking",
    owed <- IF InBatch THEN Owed ELSE <<>>

KeepsTurnProtocol == Stream!Spec

(***************************************************************************)
(* What is left of a run: requests up to the cap, and in the batch at most *)
(* four steps for each call (chosen, asked about, run, recorded), one for  *)
(* its report, and the way back to the top of the loop.                    *)
(***************************************************************************)
TurnWork == 5 * MaxBatch + 4

Rest ==
    CASE pc = "gate"    -> 1
      [] pc = "compact" -> 2
      [] pc = "respond" -> TurnWork
      [] pc = "pick"    -> 3 + 4 * (Len(batch) - Len(done)) + Len(batch) - reported
      [] pc = "ask"     -> 2 + 4 * (Len(batch) - Len(done)) + Len(batch) - reported
      [] pc = "body"    -> 1 + 4 * (Len(batch) - Len(done)) + Len(batch) - reported
      [] pc = "settle"  -> 4 * (Len(batch) - Len(done)) + Len(batch) - reported

Work == IF pc = "idle" THEN 0 ELSE (MaxTurns - step) * TurnWork + Rest

(***************************************************************************)
(* No run goes on for ever: every step of the agent leaves less to do, no  *)
(* answer and no cancellation adds to it, and it starts at a bound the     *)
(* constants give.  What the tools did to the transcript, an error or a    *)
(* refusal never makes the loop repeat a call or a turn for free.          *)
(***************************************************************************)
RunsAreBounded ==
    [][/\ Work \in 0..(MaxTurns * TurnWork + 2)
       /\ Agent => Work' < Work
       /\ pc # "idle" => Work' <= Work]_vars

\* Every run ends, unless the user leaves a permission prompt unanswered.
RunEnds == pc # "idle" ~> pc \in {"idle", "ask"}
=============================================================================
