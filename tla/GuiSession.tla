----------------------------- MODULE GuiSession -----------------------------
(***************************************************************************)
(* The desktop client (deeptide-gui: app.rs, conversation.rs): the window, *)
(* and a worker thread per Conversation that runs the agent loop.  They    *)
(* share two unbounded channels, an interrupt flag and a map of pending    *)
(* approvals; a worker saves into the SessionStore after each turn.  New   *)
(* chat and a resumed session drop the Conversation, not its worker.  A    *)
(* turn of the agent is a step that may ask once and ends with Terminal or *)
(* with a caught panic; what it folds of the transcript, it folds then.    *)
(***************************************************************************)
EXTENDS SessionStore

CONSTANT ResumeBusy     \* may the user resume a session a worker is busy with?

\* Conversations and prompts are numbered in the order of their making.
ASSUME GuiSessionAssumption ==
    /\ ResumeBusy \in BOOLEAN
    /\ Writers \subseteq Nat \ {0} /\ 1 \in Writers
    /\ Prompts \subseteq Nat \ {0}

Workers == Writers
NoPrompt == 0
NoSession == 0

VARIABLES
    cur,            \* the worker of the window's Conversation
    running,        \* App::running
    cards,          \* App::pending: approvals on the screen
    listed,         \* App::sessions
    sent,           \* the last prompt the user has sent
    stage,          \* where each worker is
    boot,           \* how the backend of the window's worker was configured
    resume,         \* StartConfig::resume
    inbox, outbox,  \* the channels to and from a worker
    stop,           \* its interrupt flag
    reply,          \* its entry of the pending map and the channel behind it
    now, asked,     \* the prompt it runs, and whether that turn has asked
    talk,           \* the transcript of its agent
    unread          \* history: the sessions that could not be loaded when
                    \* they were resumed

uiVars == <<cur, running, cards, listed, sent>>
channelVars == <<inbox, outbox, stop, reply>>
agentVars == <<boot, resume, now, asked, talk, unread>>
vars == <<uiVars, stage, channelVars, agentVars, storeVars>>

InTurn == {"turn", "asking", "parked"}
Saving == {"save", "filling", "rename", "report"}
Stages == {"absent", "booting", "loading", "idle", "gone"} \cup InTurn \cup Saving
Alive(w) == stage[w] \notin {"absent", "gone"}

Session(w) == IF resume[w] = NoSession THEN w ELSE resume[w]

Event(ev, p) == [ev |-> ev, of |-> p]
Events == [ev: {"error", "terminal", "ask", "saved"},
           of: Prompts \cup {NoPrompt}]

\* A send to the window fails when it has dropped the Conversation.
Sends(w, ev, p) ==
    outbox' = IF w = cur THEN [outbox EXCEPT ![w] = Append(@, Event(ev, p))]
                         ELSE outbox

Moves(w, from, to) == stage[w] = from /\ stage' = [stage EXCEPT ![w] = to]
-----------------------------------------------------------------------------
\* App::new spawns the first Conversation.
Init ==
    /\ StoreInit
    /\ cur = 1
    /\ stage = [w \in Workers |-> IF w = cur THEN "booting" ELSE "absent"]
    /\ running = FALSE /\ cards = {} /\ listed = {} /\ sent = 0
    /\ boot = "none"
    /\ resume = [w \in Workers |-> NoSession]
    /\ inbox = [w \in Workers |-> <<>>] /\ outbox = [w \in Workers |-> <<>>]
    /\ stop = [w \in Workers |-> FALSE]
    /\ reply = [w \in Workers |-> "none"]
    /\ now = [w \in Workers |-> NoPrompt]
    /\ asked = [w \in Workers |-> FALSE]
    /\ talk = [w \in Workers |-> <<>>] /\ unread = {}
-----------------------------------------------------------------------------
(***************************************************************************)
(* The window.  submit is refused and Stop disabled by `running`.          *)
(***************************************************************************)
Submit(p) ==
    /\ ~running /\ p = sent + 1
    /\ running' = TRUE /\ sent' = p
    /\ inbox' = IF stage[cur] = "gone" THEN inbox
                ELSE [inbox EXCEPT ![cur] = Append(@, p)]
    /\ UNCHANGED <<cur, cards, listed, stage, outbox, stop, reply, agentVars,
                   storeVars>>

Stop ==
    /\ running
    /\ stop' = [stop EXCEPT ![cur] = TRUE]
    /\ UNCHANGED <<uiVars, stage, inbox, outbox, reply, agentVars, storeVars>>

\* respond_permission: a card whose request is over is only taken away.
Respond(p) ==
    /\ p \in cards
    /\ cards' = cards \ {p}
    /\ reply' = IF reply[cur] = "open" /\ now[cur] = p
                THEN [reply EXCEPT ![cur] = "answered"] ELSE reply
    /\ UNCHANGED <<cur, running, listed, sent, stage, inbox, outbox, stop,
                   agentVars, storeVars>>

\* new_chat and resume: the old Conversation is dropped with its channels.
Starts(w, s) ==
    /\ w = cur + 1 /\ cur' = w
    /\ Moves(w, "absent", "booting")
    /\ running' = FALSE /\ cards' = {}
    /\ resume' = [resume EXCEPT ![w] = s]
    /\ outbox' = [outbox EXCEPT ![cur] = <<>>] /\ boot' = "none"
    /\ UNCHANGED <<sent, inbox, stop, reply, now, asked, talk, unread>>

NewChat(w) == Starts(w, NoSession) /\ UNCHANGED <<listed, storeVars>>

Busy(w) == Alive(w) /\ (stage[w] # "idle" \/ inbox[w] # <<>>)

Resume(w, s) ==
    /\ s \in listed
    /\ ResumeBusy \/ \A v \in Workers : Busy(v) => Session(v) # s
    /\ Starts(w, s)
    /\ UNCHANGED <<listed, storeVars>>

(***************************************************************************)
(* drain_events.  Error leaves the cards, Terminal takes them away.        *)
(***************************************************************************)
\* A caught panic leaves the window waiting.
EndsOnTerminal(ev) == ev = "terminal"

\* The turn counts as over when its save is reported.
EndsOnSaved(ev) == ev \in {"error", "saved"}

EndsRunning(ev) == ev \in {"error", "terminal"}

Drain ==
    /\ outbox[cur] # <<>>
    /\ outbox' = [outbox EXCEPT ![cur] = Tail(@)]
    /\ LET e == Head(outbox[cur])
       IN  /\ running' = (running /\ ~EndsRunning(e.ev))
           /\ cards' = IF e.ev = "terminal" THEN {}
                       ELSE IF e.ev = "ask" THEN cards \cup {e.of} ELSE cards
           /\ listed' = IF e.ev = "saved" THEN List ELSE listed
    /\ UNCHANGED <<cur, sent, stage, inbox, stop, reply, agentVars, storeVars>>

\* The process ends with all its threads, and is started again.
Restart(w) ==
    /\ w = cur + 1 /\ cur' = w
    /\ stage' = [v \in Workers |-> IF v = w THEN "booting"
                                   ELSE IF Alive(v) THEN "gone" ELSE stage[v]]
    /\ running' = FALSE /\ cards' = {} /\ listed' = List
    /\ WritersDie({v \in Workers : Alive(v)})
    /\ inbox' = [v \in Workers |-> <<>>] /\ outbox' = [v \in Workers |-> <<>>]
    /\ stop' = [v \in Workers |-> FALSE] /\ reply' = [v \in Workers |-> "none"]
    /\ talk' = [v \in Workers |-> <<>>]
    /\ now' = [v \in Workers |-> NoPrompt] /\ asked' = [v \in Workers |-> FALSE]
    /\ boot' = "none"
    /\ UNCHANGED <<sent, resume, unread>>
-----------------------------------------------------------------------------
(***************************************************************************)
(* The worker.  A backend that cannot be configured ends it; one without   *)
(* a credential is reported and used all the same.                         *)
(***************************************************************************)
Boot(w, outcome) ==
    /\ Moves(w, "booting", IF outcome = "failed" THEN "gone" ELSE "loading")
    /\ boot' = IF w = cur THEN outcome ELSE boot
    /\ inbox' = IF outcome = "failed" THEN [inbox EXCEPT ![w] = <<>>] ELSE inbox
    /\ IF outcome = "ok" THEN UNCHANGED outbox ELSE Sends(w, "error", NoPrompt)
    /\ UNCHANGED <<uiVars, stop, reply, resume, now, asked, talk, unread,
                   storeVars>>

\* A resumed session that is not loaded into the agent.
LoadNothing(w) ==
    /\ Moves(w, "loading", "idle")
    /\ UNCHANGED <<uiVars, channelVars, agentVars, storeVars>>

\* A session that cannot be loaded is continued as an empty one.
Load(w) ==
    LET s == resume[w]
    IN  /\ Moves(w, "loading", "idle")
        /\ \/ /\ s = NoSession
              /\ talk' = [talk EXCEPT ![w] = <<>>] /\ UNCHANGED unread
           \/ /\ s # NoSession /\ Loads(s)
              /\ talk' = [talk EXCEPT ![w] = Loaded(s)] /\ UNCHANGED unread
           \/ /\ s # NoSession
              /\ talk' = [talk EXCEPT ![w] = <<>>] /\ unread' = unread \cup {s}
        /\ UNCHANGED <<uiVars, channelVars, boot, resume, now, asked, storeVars>>

TakePrompt(w) ==
    /\ Moves(w, "idle", "turn")
    /\ inbox[w] # <<>>
    /\ inbox' = [inbox EXCEPT ![w] = Tail(@)]
    /\ stop' = [stop EXCEPT ![w] = FALSE]
    /\ now' = [now EXCEPT ![w] = Head(inbox[w])]
    /\ talk' = [talk EXCEPT ![w] = Append(@, Head(inbox[w]))]
    /\ UNCHANGED <<uiVars, outbox, reply, boot, resume, asked, unread, storeVars>>

\* A worker that only leaves when it was told to stop.
LeaveStopped(w) ==
    /\ Moves(w, "idle", "gone")
    /\ w # cur /\ stop[w]
    /\ talk' = [talk EXCEPT ![w] = <<>>]
    /\ UNCHANGED <<uiVars, channelVars, boot, resume, now, asked, unread,
                   storeVars>>

\* recv fails when the channel is empty and the window has dropped it; the
\* agent and its flag go with the worker.
Leave(w) ==
    /\ Moves(w, "idle", "gone")
    /\ w # cur /\ inbox[w] = <<>>
    /\ talk' = [talk EXCEPT ![w] = <<>>] /\ stop' = [stop EXCEPT ![w] = FALSE]
    /\ UNCHANGED <<uiVars, inbox, outbox, reply, boot, resume, now, asked, unread,
                   storeVars>>

(***************************************************************************)
(* ask_cb: enter the request in the map, then show it, then wait for the   *)
(* answer and look at the interrupt flag every 150 ms.                     *)
(***************************************************************************)
\* A request that is entered in the map only after it was shown.
AskLate(w) ==
    /\ \/ /\ Moves(w, "turn", "parked") /\ ~asked[w]
          /\ asked' = [asked EXCEPT ![w] = TRUE]
          /\ Sends(w, "ask", now[w])
          /\ UNCHANGED reply
       \/ /\ stage[w] = "parked" /\ reply[w] = "none"
          /\ reply' = [reply EXCEPT ![w] = "open"]
          /\ UNCHANGED <<stage, asked, outbox>>
    /\ UNCHANGED <<uiVars, inbox, stop, boot, resume, now, talk, unread, storeVars>>

Ask(w) ==
    /\ Moves(w, "turn", "asking")
    /\ ~asked[w]
    /\ asked' = [asked EXCEPT ![w] = TRUE]
    /\ reply' = [reply EXCEPT ![w] = "open"]
    /\ UNCHANGED <<uiVars, inbox, outbox, stop, boot, resume, now, talk, unread,
                   storeVars>>

ShowRequest(w) ==
    /\ Moves(w, "asking", "parked")
    /\ Sends(w, "ask", now[w])
    /\ UNCHANGED <<uiVars, inbox, stop, reply, agentVars, storeVars>>

\* A request that stays in the map when the wait for it is over.
UnparksKeeping(w) ==
    /\ Moves(w, "parked", "turn")
    /\ UNCHANGED <<uiVars, channelVars, agentVars, storeVars>>

Unparks(w) ==
    /\ Moves(w, "parked", "turn")
    /\ reply' = [reply EXCEPT ![w] = "none"]
    /\ UNCHANGED <<uiVars, inbox, outbox, stop, agentVars, storeVars>>

Answered(w) == reply[w] = "answered" /\ Unparks(w)

\* The flag is only looked at once the answer is there.
CancelledLate(w) == reply[w] = "answered" /\ stop[w] /\ Unparks(w)

Cancelled(w) == reply[w] = "open" /\ stop[w] /\ Unparks(w)

\* The first n turns of a transcript are folded.
FoldFirst(n, t) == [i \in 1..Len(t) |-> IF i <= n THEN Folded ELSE t[i]]

\* The turn ends with Terminal, or a panic is caught and reported.  On its way
\* it may have compacted the transcript, of itself or by the Snip and Brief
\* tools: the older messages give way to a summary or a marker.
EndTurn(w, ev) ==
    /\ Moves(w, "turn", "save")
    /\ Sends(w, ev, NoPrompt)
    /\ \E n \in 0..Len(talk[w]) : talk' = [talk EXCEPT ![w] = FoldFirst(n, @)]
    /\ now' = [now EXCEPT ![w] = NoPrompt] /\ asked' = [asked EXCEPT ![w] = FALSE]
    /\ UNCHANGED <<uiVars, inbox, stop, reply, boot, resume, unread, storeVars>>

(***************************************************************************)
(* SessionStore::save, then Usage and SessionsChanged.  Without its        *)
(* directory, or when the sibling cannot be opened or written, the file is *)
(* left as it is.  The call of upsert_index that ends a save touches the   *)
(* index alone.                                                            *)
(***************************************************************************)
SaveStep(w) ==
    LET s == Session(w)
    IN  /\ \/ Moves(w, "save", "report") /\ UNCHANGED storeVars
           \/ Moves(w, "save", "filling") /\ OpenSibling(w, s)
           \/ Moves(w, "filling", "rename") /\ WriteSibling(w, s, talk[w])
           \/ Moves(w, "filling", "report") /\ BreakSibling(w, s)
           \/ Moves(w, "rename", "report") /\ RenameSibling(w, s)
        /\ UNCHANGED <<uiVars, channelVars, agentVars>>

Report(w) ==
    /\ Moves(w, "report", "idle")
    /\ Sends(w, "saved", NoPrompt)
    /\ UNCHANGED <<uiVars, inbox, stop, reply, agentVars, storeVars>>
-----------------------------------------------------------------------------
WorkerStep(w) ==
    \/ \E outcome \in {"ok", "unconfigured", "failed"} : Boot(w, outcome)
    \/ Load(w) \/ TakePrompt(w) \/ Leave(w)
    \/ Ask(w) \/ ShowRequest(w) \/ Answered(w) \/ Cancelled(w)
    \/ \E ev \in {"terminal", "error"} : EndTurn(w, ev)
    \/ SaveStep(w) \/ Report(w)

UserStep ==
    \/ \E p \in Prompts : Submit(p) \/ Respond(p)
    \/ Stop
    \/ \E w \in Workers : NewChat(w) \/ Restart(w)
    \/ \E w \in Workers, s \in Sessions : Resume(w, s)

Next == Drain \/ UserStep \/ \E w \in Workers : WorkerStep(w)

Spec == Init /\ [][Next]_vars

(***************************************************************************)
(* Threads are scheduled, frames are drawn (each event asks for one), and  *)
(* a turn that does not wait for the user comes to its end: rounds and     *)
(* tools are bounded.  Nothing makes the user do anything.                 *)
(***************************************************************************)
FairSpec == Spec /\ WF_vars(Drain) /\ \A w \in Workers : WF_vars(WorkerStep(w))
-----------------------------------------------------------------------------
\* The variables have their types; a request is in the map while it is asked.
TypeOK ==
    /\ StoreTypeOK
    /\ cur \in Workers /\ running \in BOOLEAN /\ cards \subseteq Prompts
    /\ listed \subseteq Sessions /\ sent \in Prompts \cup {NoPrompt}
    /\ stage \in [Workers -> Stages]
    /\ boot \in {"none", "ok", "unconfigured", "failed"}
    /\ resume \in [Workers -> Sessions \cup {NoSession}]
    /\ inbox \in [Workers -> Seq(Prompts)] /\ outbox \in [Workers -> Seq(Events)]
    /\ stop \in [Workers -> BOOLEAN]
    /\ reply \in [Workers -> {"none", "open", "answered"}]
    /\ \A w \in Workers : reply[w] # "none" => stage[w] \in {"asking", "parked"}
    /\ now \in [Workers -> Prompts \cup {NoPrompt}]
    /\ asked \in [Workers -> BOOLEAN]
    /\ talk \in [Workers -> Seq(Turns)] /\ unread \subseteq Sessions

(***************************************************************************)
(* A worker of the window's conversation that waits for an approval can be *)
(* given one: the card is on the screen or on its way, and the map still   *)
(* holds the request it stands for.                                        *)
(***************************************************************************)
Queued(w, ev, p) == \E i \in 1..Len(outbox[w]) : outbox[w][i] = Event(ev, p)

ParkedIsAnswerable ==
    stage[cur] = "parked" =>
        \/ reply[cur] = "answered"
        \/ reply[cur] = "open" /\ (now[cur] \in cards \/ Queued(cur, "ask", now[cur]))

(***************************************************************************)
(* "True while a turn is in flight" (app.rs:45): while the worker is in a  *)
(* turn the window shows it as running, so that Stop is enabled and a      *)
(* second prompt refused.  An unconfigured backend is excepted: its Error  *)
(* may be drained after the first prompt was sent.                         *)
(***************************************************************************)
TurnShownRunning ==
    boot = "ok" /\ (stage[cur] \in InTurn \/ inbox[cur] # <<>>) => running

(***************************************************************************)
(* A conversation that shows a running turn stops doing so, unless it      *)
(* waits for an approval.  A worker whose backend could not be configured  *)
(* is excepted: nobody reads the prompts that are sent to it.              *)
(***************************************************************************)
RunningEnds ==
    (running /\ boot # "failed")
        ~> (~running \/ stage[cur] = "parked" \/ boot = "failed")

(***************************************************************************)
(* Stop ends the turn it finds, also one that waits for an approval.  (One *)
(* that is pressed before the worker has taken the prompt is lost.)        *)
(***************************************************************************)
StopEndsTurn ==
    \A w \in Workers :
        (stage[w] \in InTurn /\ stop[w]) ~> (stage[w] \notin InTurn)

(***************************************************************************)
(* A worker whose Conversation was dropped saves the turn it is in and     *)
(* leaves, unless that turn waits for an approval nobody can give.         *)
(***************************************************************************)
DroppedWorkersLeave ==
    \A w \in Workers :
        (w # cur /\ Alive(w))
            ~> (stage[w] = "gone" \/ (stage[w] = "parked" /\ reply[w] = "open"))

(***************************************************************************)
(* A session on the window's list can be resumed with what was saved of it *)
(* (the list is "always consistent with what is on disk", session.rs:232): *)
(* its file is neither missing nor cut short, whatever saves have been cut *)
(* off by a restart, or have failed half-way, since the list was drawn.    *)
(***************************************************************************)
ListedSessionsLoad == \A s \in listed : Parses(transcript[s])

(***************************************************************************)
(* What was saved of a session stays saved: the worker continues the same  *)
(* file (conversation.rs:261-263), which is never replaced by half a file  *)
(* ("Writes atomically via a `.tmp` sibling then rename", session.rs:123)  *)
(* nor by a conversation that does not know the turns that were saved; a   *)
(* turn gives way at most to the summary or the marker of a compaction.    *)
(* Excepted is a session that could not be read when it was resumed: it is *)
(* continued as an empty one, and its turns are overwritten.               *)
(***************************************************************************)
SavedTurnsKept ==
    [][\A s \in Sessions :
         Parses(transcript[s]) =>
            /\ Parses(transcript[s])'
            /\ s \in unread \/ Extends(transcript'[s].path.of,
                                       transcript[s].path.of)]_storeVars
=============================================================================
