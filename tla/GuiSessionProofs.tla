-------------------------- MODULE GuiSessionProofs --------------------------
(***************************************************************************)
(* Proofs about GuiSession for any number of conversations and prompts:    *)
(* an approval that is waited for can be given, a window whose backend is  *)
(* configured shows a turn as running while it runs and not for nothing,   *)
(* a Stop is kept until the turn is over, and a worker that was dropped    *)
(* winds down.                                                             *)
(***************************************************************************)
EXTENDS GuiSession, SequenceTheorems, TLAPS

Turning(w) == stage[w] \in InTurn \/ inbox[w] # <<>>

\* No event in q ends the window's turn; at most one does.
NoEnd(q) == \A i \in 1..Len(q) : ~EndsRunning(q[i].ev)
OneEnd(q) ==
    \A i, j \in 1..Len(q) : EndsRunning(q[i].ev) /\ EndsRunning(q[j].ev) => i = j

\* The request of prompt p is on the screen, or will be when the queue q is
\* drained: no Terminal after it takes it away again.
NoTerminal(q) == \A i \in 1..Len(q) : q[i].ev # "terminal"
Shown(shown, q, p) ==
    \/ p \in shown /\ NoTerminal(q)
    \/ \E i \in 1..Len(q) :
         /\ q[i] = Event("ask", p)
         /\ \A j \in 1..Len(q) : j > i => q[j].ev # "terminal"

\* The variables the two properties are about.
Types ==
    /\ cur \in Workers /\ running \in BOOLEAN
    /\ stage \in [Workers -> Stages]
    /\ boot \in {"none", "ok", "unconfigured", "failed"}
    /\ inbox \in [Workers -> Seq(Prompts)] /\ outbox \in [Workers -> Seq(Events)]
    /\ reply \in [Workers -> {"none", "open", "answered"}]
    /\ now \in [Workers -> Prompts \cup {NoPrompt}]

\* Workers that have not begun, and what a worker has done by its place.
Begun ==
    /\ stage[cur] # "absent"
    /\ \A w \in Workers : w > cur => stage[w] = "absent"
    /\ \A w \in Workers :
         stage[w] = "absent" => inbox[w] = <<>> /\ outbox[w] = <<>>
    /\ stage[cur] = "booting" => boot = "none"

Requests == \A w \in Workers : stage[w] \in {"asking", "parked"} => reply[w] # "none"

Answerable ==
    stage[cur] = "parked" /\ reply[cur] = "open"
        => Shown(cards, outbox[cur], now[cur])

\* One prompt at a time, and one event that ends its turn.
OneTurn ==
    boot \in {"none", "ok"} =>
        /\ Turning(cur) => running /\ NoEnd(outbox[cur])
        /\ ~running => NoEnd(outbox[cur])
        /\ OneEnd(outbox[cur])
        /\ stage[cur] \in InTurn => inbox[cur] = <<>>
        /\ Len(inbox[cur]) <= 1

IInv == Types /\ Begun /\ Requests /\ Answerable /\ OneTurn
-----------------------------------------------------------------------------
LEMMA EmptyQueue == NoEnd(<<>>) /\ OneEnd(<<>>) /\ NoTerminal(<<>>)
BY DEF NoEnd, OneEnd, NoTerminal

LEMMA Sent ==
    ASSUME NEW q \in Seq(Events), NEW e \in Events
    PROVE  /\ Append(q, e) \in Seq(Events)
           /\ NoEnd(q) /\ ~EndsRunning(e.ev) => NoEnd(Append(q, e))
           /\ NoEnd(q) => OneEnd(Append(q, e))
           /\ OneEnd(q) /\ ~EndsRunning(e.ev) => OneEnd(Append(q, e))
<1> DEFINE r == Append(q, e)
<1>1. /\ r \in Seq(Events) /\ Len(r) = Len(q) + 1 /\ Len(q) \in Nat
      /\ \A i \in 1..Len(q) : r[i] = q[i]
      /\ r[Len(q) + 1] = e
    BY AppendProperties
<1> HIDE DEF r
<1>2. \A i \in 1..Len(r) : i \in 1..Len(q) \/ i = Len(q) + 1
    BY <1>1
<1> QED BY <1>1, <1>2 DEF NoEnd, OneEnd, r

LEMMA Drained ==
    ASSUME NEW q \in Seq(Events), q # <<>>
    PROVE  /\ Head(q) \in Events /\ Tail(q) \in Seq(Events)
           /\ NoEnd(q) => NoEnd(Tail(q)) /\ ~EndsRunning(Head(q).ev)
           /\ OneEnd(q) => OneEnd(Tail(q))
           /\ OneEnd(q) /\ EndsRunning(Head(q).ev) => NoEnd(Tail(q))
<1> DEFINE r == Tail(q)
<1>1. /\ Head(q) \in Events /\ Head(q) = q[1]
      /\ r \in Seq(Events) /\ Len(r) = Len(q) - 1 /\ Len(q) \in Nat \ {0}
      /\ \A i \in 1..Len(r) : r[i] = q[i + 1]
    BY HeadTailProperties
<1> HIDE DEF r
<1>2. 1 \in 1..Len(q) /\ \A i \in 1..Len(r) : i + 1 \in 1..Len(q) /\ i + 1 # 1
    BY <1>1
<1>3. NoEnd(q) => NoEnd(r) /\ ~EndsRunning(Head(q).ev)
    BY <1>1, <1>2 DEF NoEnd
<1>4. OneEnd(q) => OneEnd(r)
    <2> SUFFICES ASSUME OneEnd(q), NEW i \in 1..Len(r), NEW j \in 1..Len(r),
                        EndsRunning(r[i].ev), EndsRunning(r[j].ev)
                 PROVE  i = j
        BY DEF OneEnd
    <2>1. i + 1 \in 1..Len(q) /\ j + 1 \in 1..Len(q)
        BY <1>2
    <2>2. i + 1 = j + 1
        BY <1>1, <2>1 DEF OneEnd
    <2> QED BY <2>2
<1>5. OneEnd(q) /\ EndsRunning(Head(q).ev) => NoEnd(r)
    <2> SUFFICES ASSUME OneEnd(q), EndsRunning(Head(q).ev), NEW i \in 1..Len(r),
                        EndsRunning(r[i].ev)
                 PROVE  FALSE
        BY DEF NoEnd
    <2>1. i + 1 \in 1..Len(q) /\ i + 1 # 1 /\ r[i] = q[i + 1]
        BY <1>1, <1>2
    <2> QED BY <1>1, <1>2, <2>1 DEF OneEnd
<1> QED BY <1>1, <1>3, <1>4, <1>5 DEF r

LEMMA ShownWhenAsked ==
    ASSUME NEW q \in Seq(Events), NEW p \in Prompts \cup {NoPrompt}, NEW shown
    PROVE  Shown(shown, Append(q, Event("ask", p)), p)
<1> DEFINE r == Append(q, Event("ask", p))
<1>1. Event("ask", p) \in Events
    BY DEF Event, Events
<1>2. Len(r) = Len(q) + 1 /\ r[Len(q) + 1] = Event("ask", p) /\ Len(q) \in Nat
    BY <1>1, AppendProperties
<1> HIDE DEF r
<1>3. /\ Len(q) + 1 \in 1..Len(r)
      /\ \A j \in 1..Len(r) : ~(j > Len(q) + 1)
    BY <1>2
<1>4. Shown(shown, r, p)
    BY <1>2, <1>3 DEF Shown
<1> QED BY <1>4 DEF r

LEMMA ShownWhenDrained ==
    ASSUME NEW q \in Seq(Events), q # <<>>, NEW p, NEW shown,
           Shown(shown, q, p)
    PROVE  LET e == Head(q)
               rest == IF e.ev = "terminal" THEN {}
                       ELSE IF e.ev = "ask" THEN shown \cup {e.of} ELSE shown
           IN  Shown(rest, Tail(q), p)
<1> DEFINE e == Head(q)
           r == Tail(q)
           rest == IF e.ev = "terminal" THEN {}
                   ELSE IF e.ev = "ask" THEN shown \cup {e.of} ELSE shown
<1>1. /\ e = q[1] /\ r \in Seq(Events) /\ Len(r) = Len(q) - 1
      /\ Len(q) \in Nat \ {0} /\ \A i \in 1..Len(r) : r[i] = q[i + 1]
    BY HeadTailProperties
<1> HIDE DEF r, e
<1>2. \A i \in 1..Len(r) : i + 1 \in 1..Len(q) /\ i + 1 > 1
    BY <1>1
<1>3. 1 \in 1..Len(q)
    BY <1>1
<1>4. CASE p \in shown /\ NoTerminal(q)
    <2>1. NoTerminal(r) /\ e.ev # "terminal"
        BY <1>1, <1>2, <1>3, <1>4 DEF NoTerminal
    <2> QED BY <1>4, <2>1 DEF Shown, e, r
<1>5. ASSUME NEW i \in 1..Len(q), q[i] = Event("ask", p),
             \A j \in 1..Len(q) : j > i => q[j].ev # "terminal"
      PROVE  Shown(rest, r, p)
    <2>1. CASE i = 1
        <3>1. e.ev = "ask" /\ e.of = p
            BY <1>1, <1>5, <2>1 DEF Event
        <3>2. NoTerminal(r)
            BY <1>1, <1>2, <1>5, <2>1 DEF NoTerminal
        <3> QED BY <3>1, <3>2 DEF Shown
    <2>2. CASE i > 1
        <3>1. i - 1 \in 1..Len(r) /\ r[i - 1] = q[(i - 1) + 1] /\ (i - 1) + 1 = i
            BY <1>1, <2>2
        <3>2. \A j \in 1..Len(r) : j > i - 1 => r[j].ev # "terminal"
            BY <1>1, <1>2, <1>5
        <3> QED BY <1>5, <3>1, <3>2 DEF Shown
    <2> QED BY <2>1, <2>2
<1> QED BY <1>4, <1>5 DEF Shown, e, r
-----------------------------------------------------------------------------
\* Steps that only move a worker outside a turn, as far as IInv can see.
Quiet(w) == Load(w) \/ Leave(w) \/ SaveStep(w)
Restarts(w) == NewChat(w) \/ \E s \in Sessions : Resume(w, s)

LEMMA NextCases ==
    ASSUME Next
    PROVE  \/ Drain \/ Stop
           \/ \E p \in Prompts : Submit(p) \/ Respond(p)
           \/ \E w \in Workers : Restarts(w) \/ Restart(w)
           \/ \E w \in Workers : Quiet(w) \/ TakePrompt(w) \/ Ask(w)
           \/ \E w \in Workers : ShowRequest(w) \/ Unparks(w) \/ Report(w)
           \/ \E w \in Workers, o \in {"ok", "unconfigured", "failed"} : Boot(w, o)
           \/ \E w \in Workers, ev \in {"terminal", "error"} : EndTurn(w, ev)
BY DEF Next, UserStep, WorkerStep, Quiet, Restarts, Answered, Cancelled

Seen == <<cur, running, cards, boot, inbox, outbox, reply, now>>

LEMMA QuietMoves ==
    ASSUME NEW w \in Workers, Quiet(w)
    PROVE  /\ UNCHANGED Seen
           /\ \E from, to \in Stages \ (InTurn \cup {"absent", "booting"}) :
                Moves(w, from, to)
<1>1. UNCHANGED Seen
    BY DEF Quiet, Load, Leave, SaveStep, Seen, uiVars, channelVars, agentVars
<1>2. CASE Load(w) \/ Leave(w)
    BY <1>1, <1>2 DEF Load, Leave, Stages, InTurn, Saving
<1>3. CASE SaveStep(w)
    BY <1>1, <1>3 DEF SaveStep, Stages, InTurn, Saving
<1> QED BY <1>1, <1>2, <1>3 DEF Quiet

LEMMA EventType ==
    ASSUME NEW ev \in {"error", "terminal", "ask", "saved"},
           NEW p \in Prompts \cup {NoPrompt}
    PROVE  /\ Event(ev, p) \in Events /\ Event(ev, p).ev = ev
           /\ EndsRunning(ev) <=> ev \in {"error", "terminal"}
BY DEF Event, Events, EndsRunning

LEMMA SendsType ==
    ASSUME Types, NEW w \in Workers,
           NEW ev \in {"error", "terminal", "ask", "saved"},
           NEW p \in Prompts \cup {NoPrompt}, Sends(w, ev, p)
    PROVE  /\ outbox' \in [Workers -> Seq(Events)]
           /\ w # cur => outbox' = outbox
           /\ w = cur => outbox' = [outbox EXCEPT ![cur] =
                                       Append(outbox[cur], Event(ev, p))]
<1>1. Append(outbox[w], Event(ev, p)) \in Seq(Events)
    BY EventType, AppendProperties DEF Types
<1> QED BY <1>1 DEF Sends, Types

LEMMA TypesStep == ASSUME Types, Begun, Next PROVE Types'
<1> USE DEF Types, uiVars, channelVars, agentVars
<1>1. CASE Drain
    <2>1. Head(outbox[cur]) \in Events /\ Tail(outbox[cur]) \in Seq(Events)
        BY <1>1, Drained DEF Drain
    <2> QED BY <1>1, <2>1 DEF Drain
<1>2. CASE \E p \in Prompts : Submit(p)
    <2> PICK p \in Prompts : Submit(p)
        BY <1>2
    <2>1. inbox' \in [Workers -> Seq(Prompts)]
        BY AppendProperties DEF Submit
    <2> QED BY <2>1 DEF Submit
<1>3. CASE Stop \/ \E p \in Prompts : Respond(p)
    BY <1>3 DEF Stop, Respond
<1>4. CASE \E w \in Workers : Restarts(w) \/ Restart(w)
    <2> PICK w \in Workers : Restarts(w) \/ Restart(w)
        BY <1>4
    <2>1. <<>> \in Seq(Events) /\ <<>> \in Seq(Prompts)
        OBVIOUS
    <2>2. stage' \in [Workers -> Stages]
        BY DEF Restarts, Restart, NewChat, Resume, Starts, Moves, Stages
    <2>3. /\ outbox' \in [Workers -> Seq(Events)]
          /\ inbox' \in [Workers -> Seq(Prompts)]
        <3>1. CASE Restarts(w)
            BY <2>1, <3>1 DEF Restarts, NewChat, Resume, Starts
        <3>2. CASE Restart(w)
            BY <2>1, <3>2 DEF Restart
        <3> QED BY <3>1, <3>2
    <2>4. /\ cur' \in Workers /\ running' = FALSE
          /\ boot' \in {"none", "ok", "unconfigured", "failed"}
          /\ reply' \in [Workers -> {"none", "open", "answered"}]
          /\ now' \in [Workers -> Prompts \cup {NoPrompt}]
        BY DEF Restarts, Restart, NewChat, Resume, Starts
    <2> QED BY <2>2, <2>3, <2>4
<1>5. CASE \E w \in Workers : Quiet(w)
    <2> PICK w \in Workers : Quiet(w)
        BY <1>5
    <2>1. UNCHANGED Seen /\ \E to \in Stages : stage' = [stage EXCEPT ![w] = to]
        BY QuietMoves DEF Moves
    <2>2. stage' \in [Workers -> Stages]
        BY <2>1
    <2> QED BY <2>1, <2>2 DEF Seen
<1>6. CASE \E w \in Workers : TakePrompt(w)
    <2> PICK w \in Workers : TakePrompt(w)
        BY <1>6
    <2>1. Head(inbox[w]) \in Prompts /\ Tail(inbox[w]) \in Seq(Prompts)
        BY HeadTailProperties DEF TakePrompt
    <2> QED BY <2>1 DEF TakePrompt, Moves, Stages, InTurn
<1>7. CASE \E w \in Workers : Ask(w) \/ Unparks(w)
    BY <1>7 DEF Ask, Unparks, Moves, Stages, InTurn
<1>8. CASE \E w \in Workers : ShowRequest(w) \/ Report(w)
    <2> PICK w \in Workers : ShowRequest(w) \/ Report(w)
        BY <1>8
    <2>1. outbox' \in [Workers -> Seq(Events)]
        BY SendsType DEF ShowRequest, Report
    <2> QED BY <2>1 DEF ShowRequest, Report, Moves, Stages, InTurn
<1>9. CASE \E w \in Workers, o \in {"ok", "unconfigured", "failed"} : Boot(w, o)
    <2> PICK w \in Workers, o \in {"ok", "unconfigured", "failed"} : Boot(w, o)
        BY <1>9
    <2>1. outbox' \in [Workers -> Seq(Events)]
        BY SendsType DEF Boot
    <2>2. inbox' \in [Workers -> Seq(Prompts)]
        BY DEF Boot
    <2> QED BY <2>1, <2>2 DEF Boot, Moves, Stages
<1>10. CASE \E w \in Workers, ev \in {"terminal", "error"} : EndTurn(w, ev)
    <2> PICK w \in Workers, ev \in {"terminal", "error"} : EndTurn(w, ev)
        BY <1>10
    <2>1. outbox' \in [Workers -> Seq(Events)]
        BY SendsType DEF EndTurn
    <2> QED BY <2>1 DEF EndTurn, Moves, Stages, Saving
<1> QED BY <1>1, <1>2, <1>3, <1>4, <1>5, <1>6, <1>7, <1>8, <1>9, <1>10, NextCases

LEMMA BegunStep ==
    ASSUME Types, Begun, Requests, Next PROVE Begun' /\ Requests'
<1> USE DEF Types, Begun, Requests, uiVars, channelVars, agentVars
<1>1. CASE Drain
    <2>1. \A w \in Workers : outbox[w] = <<>> => outbox'[w] = <<>>
        BY <1>1 DEF Drain
    <2> QED BY <1>1, <2>1 DEF Drain
<1>2. CASE \E p \in Prompts : Submit(p)
    BY <1>2 DEF Submit
<1>3. CASE Stop \/ \E p \in Prompts : Respond(p)
    BY <1>3 DEF Stop, Respond
<1>4. CASE \E w \in Workers : Restarts(w)
    <2> PICK w \in Workers : Restarts(w)
        BY <1>4
    <2>1. /\ cur' = cur + 1 /\ w = cur + 1 /\ cur \in Nat
          /\ \A v \in Workers : v \in Nat
        BY GuiSessionAssumption DEF Restarts, NewChat, Resume, Starts, Workers
    <2>2. \A v \in Workers : v > cur' => v > cur /\ v # w
        BY <2>1
    <2> QED BY <2>1, <2>2 DEF Restarts, NewChat, Resume, Starts, Moves
<1>5. CASE \E w \in Workers : Restart(w)
    <2> PICK w \in Workers : Restart(w)
        BY <1>5
    <2>1. /\ cur' = cur + 1 /\ w = cur + 1 /\ cur \in Nat
          /\ \A v \in Workers : v \in Nat
        BY GuiSessionAssumption DEF Restart, Workers
    <2>2. \A v \in Workers : v > cur' => v > cur /\ v # w
        BY <2>1
    <2>3. w > cur /\ stage[w] = "absent"
        BY <2>1
    <2> QED BY <2>1, <2>2, <2>3 DEF Restart, Alive
<1>6. CASE \E w \in Workers : Quiet(w)
    BY <1>6, QuietMoves DEF Seen, Moves, InTurn
<1>7. CASE \E w \in Workers : TakePrompt(w)
    <2> PICK w \in Workers : TakePrompt(w)
        BY <1>7
    <2>1. /\ stage[w] = "idle" /\ UNCHANGED <<cur, boot, outbox, reply>>
          /\ stage' = [stage EXCEPT ![w] = "turn"]
          /\ inbox' = [inbox EXCEPT ![w] = Tail(inbox[w])]
        BY DEF TakePrompt, Moves
    <2>2. \A v \in Workers : v # w => stage'[v] = stage[v] /\ inbox'[v] = inbox[v]
        BY <2>1
    <2>3. stage'[w] = "turn" /\ ~(w > cur)
        BY <2>1
    <2> QED BY <2>1, <2>2, <2>3
<1>8. CASE \E w \in Workers : Ask(w) \/ Unparks(w)
    <2> PICK w \in Workers : Ask(w) \/ Unparks(w)
        BY <1>8
    <2>1. /\ stage[w] \in {"turn", "parked"} /\ UNCHANGED <<cur, boot, inbox, outbox>>
          /\ \A v \in Workers : v # w => stage'[v] = stage[v] /\ reply'[v] = reply[v]
        BY DEF Ask, Unparks, Moves
    <2>2. \/ stage'[w] = "asking" /\ reply'[w] = "open"
          \/ stage'[w] = "turn"
        BY DEF Ask, Unparks, Moves
    <2> QED BY <2>1, <2>2
<1>9. CASE \E w \in Workers : ShowRequest(w) \/ Report(w)
    BY <1>9 DEF ShowRequest, Report, Sends, Moves
<1>10. CASE \E w \in Workers, o \in {"ok", "unconfigured", "failed"} : Boot(w, o)
    BY <1>10 DEF Boot, Sends, Moves
<1>11. CASE \E w \in Workers, ev \in {"terminal", "error"} : EndTurn(w, ev)
    BY <1>11 DEF EndTurn, Sends, Moves
<1> QED BY <1>1, <1>2, <1>3, <1>4, <1>5, <1>6, <1>7, <1>8, <1>9, <1>10, <1>11,
           NextCases

LEMMA AnswerableStep ==
    ASSUME IInv, Next PROVE Answerable'
<1> USE DEF IInv, Types, Answerable, uiVars, channelVars, agentVars
<1>1. CASE Drain
    <2>1. outbox[cur] # <<>> /\ outbox[cur] \in Seq(Events)
        BY <1>1 DEF Drain
    <2>2. outbox'[cur] = Tail(outbox[cur])
        BY <1>1 DEF Drain
    <2> QED BY <1>1, <2>1, <2>2, ShownWhenDrained DEF Drain
<1>2. CASE Stop \/ \E p \in Prompts : Submit(p)
    BY <1>2 DEF Stop, Submit
<1>3. CASE \E p \in Prompts : Respond(p)
    <2> PICK p \in Prompts : Respond(p)
        BY <1>3
    <2>1. CASE reply[cur] = "open" /\ now[cur] = p
        BY <2>1 DEF Respond
    <2>2. CASE reply[cur] # "open"
        BY <2>2 DEF Respond
    <2>3. CASE reply[cur] = "open" /\ now[cur] # p
        BY <2>3 DEF Respond, Shown
    <2> QED BY <2>1, <2>2, <2>3
<1>4. CASE \E w \in Workers : Restarts(w) \/ Restart(w)
    <2>1. stage'[cur'] = "booting"
        BY <1>4 DEF Restarts, Restart, NewChat, Resume, Starts, Moves
    <2> QED BY <2>1
<1>5. CASE \E w \in Workers : Quiet(w)
    BY <1>5, QuietMoves DEF Seen, Moves, InTurn
<1>6. CASE \E w \in Workers : TakePrompt(w)
    BY <1>6 DEF TakePrompt, Moves
<1>7. CASE \E w \in Workers : Ask(w) \/ Unparks(w)
    BY <1>7 DEF Ask, Unparks, Moves
<1>8. CASE \E w \in Workers : ShowRequest(w)
    <2> PICK w \in Workers : ShowRequest(w)
        BY <1>8
    <2>1. CASE w = cur
        <3>1. outbox'[cur] = Append(outbox[cur], Event("ask", now[cur]))
            BY <2>1 DEF ShowRequest, Sends
        <3>2. Shown(cards, outbox'[cur], now[cur])
            BY <3>1, ShownWhenAsked
        <3> QED BY <3>2 DEF ShowRequest
    <2>2. CASE w # cur
        BY <2>2 DEF ShowRequest, Sends, Moves
    <2> QED BY <2>1, <2>2
<1>9. CASE \E w \in Workers : Report(w)
    BY <1>9 DEF Report, Sends, Moves
<1>10. CASE \E w \in Workers, o \in {"ok", "unconfigured", "failed"} : Boot(w, o)
    BY <1>10 DEF Boot, Sends, Moves
<1>11. CASE \E w \in Workers, ev \in {"terminal", "error"} : EndTurn(w, ev)
    BY <1>11 DEF EndTurn, Sends, Moves
<1> QED BY <1>1, <1>2, <1>3, <1>4, <1>5, <1>6, <1>7, <1>8, <1>9, <1>10, <1>11,
           NextCases

LEMMA OneTurnStep ==
    ASSUME IInv, Next PROVE OneTurn'
<1> USE DEF IInv, Types, Turning
<1>q. outbox[cur] \in Seq(Events) /\ inbox[cur] \in Seq(Prompts)
    OBVIOUS
<1>1. CASE Drain
    <2> DEFINE q == outbox[cur]
    <2>1. q # <<>> /\ q \in Seq(Events) /\ outbox'[cur] = Tail(q)
        BY <1>1 DEF Drain
    <2>2. /\ running' = (running /\ ~EndsRunning(Head(q).ev))
          /\ UNCHANGED <<cur, boot, stage, inbox>>
        BY <1>1 DEF Drain, agentVars
    <2>3. /\ NoEnd(q) => NoEnd(Tail(q)) /\ ~EndsRunning(Head(q).ev)
          /\ OneEnd(q) => OneEnd(Tail(q))
          /\ OneEnd(q) /\ EndsRunning(Head(q).ev) => NoEnd(Tail(q))
        BY <2>1, Drained
    <2> HIDE DEF q
    <2> QED BY <2>1, <2>2, <2>3 DEF OneTurn, q
<1>2. CASE \E p \in Prompts : Submit(p)
    <2> PICK p \in Prompts : Submit(p)
        BY <1>2
    <2>1. /\ ~running /\ running' /\ UNCHANGED <<cur, boot, stage, outbox>>
          /\ \/ inbox'[cur] = inbox[cur]
             \/ inbox'[cur] = Append(inbox[cur], p)
        BY DEF Submit, agentVars
    <2>2. Len(Append(inbox[cur], p)) = Len(inbox[cur]) + 1
        BY <1>q, AppendProperties
    <2>3. inbox[cur] = <<>> => Len(inbox[cur]) = 0
        OBVIOUS
    <2> QED BY <2>1, <2>2, <2>3 DEF OneTurn
<1>3. CASE Stop \/ \E p \in Prompts : Respond(p)
    BY <1>3 DEF Stop, Respond, OneTurn, uiVars, agentVars
<1>4. CASE \E w \in Workers : Restarts(w)
    <2> PICK w \in Workers : Restarts(w)
        BY <1>4
    <2>1. /\ cur' = w /\ w # cur /\ stage'[w] = "booting" /\ stage[w] = "absent"
          /\ ~running' /\ outbox'[w] = outbox[w] /\ inbox' = inbox
        BY GuiSessionAssumption
        DEF Restarts, NewChat, Resume, Starts, Moves, Workers
    <2>2. outbox'[w] = <<>> /\ inbox'[w] = <<>>
        BY <2>1 DEF Begun
    <2> QED BY <2>1, <2>2, EmptyQueue DEF OneTurn, InTurn
<1>5. CASE \E w \in Workers : Restart(w)
    BY <1>5, EmptyQueue DEF Restart, OneTurn, InTurn
<1>6. CASE \E w \in Workers : Quiet(w)
    BY <1>6, QuietMoves DEF Seen, Moves, InTurn, OneTurn
<1>7. CASE \E w \in Workers : TakePrompt(w)
    <2> PICK w \in Workers : TakePrompt(w)
        BY <1>7
    <2>1. CASE w = cur
        <3>1. /\ inbox[cur] # <<>> /\ inbox'[cur] = Tail(inbox[cur])
              /\ UNCHANGED <<cur, boot, running, outbox>>
            BY <2>1 DEF TakePrompt, uiVars
        <3>2. Len(inbox[cur]) <= 1 => Tail(inbox[cur]) = <<>>
            BY <1>q, <3>1, HeadTailProperties, EmptySeq
        <3> QED BY <3>1, <3>2 DEF OneTurn
    <2>2. CASE w # cur
        BY <2>2 DEF TakePrompt, Moves, OneTurn, uiVars
    <2> QED BY <2>1, <2>2
<1>8. CASE \E w \in Workers : Ask(w) \/ Unparks(w)
    BY <1>8 DEF Ask, Unparks, Moves, InTurn, OneTurn, uiVars, agentVars
<1>9. CASE \E w \in Workers : ShowRequest(w) \/ Report(w)
    <2> PICK w \in Workers, ev \in {"ask", "saved"},
             p \in Prompts \cup {NoPrompt} :
            /\ Sends(w, ev, p) /\ UNCHANGED <<cur, boot, running, inbox>>
            /\ \/ Moves(w, "asking", "parked") \/ Moves(w, "report", "idle")
        BY <1>9 DEF ShowRequest, Report, uiVars, agentVars
    <2>1. CASE w = cur
        <3>1. outbox'[cur] = Append(outbox[cur], Event(ev, p))
            BY <2>1, SendsType
        <3>2. Event(ev, p) \in Events /\ ~EndsRunning(Event(ev, p).ev)
            BY EventType
        <3>3. /\ NoEnd(outbox[cur]) => NoEnd(outbox'[cur])
              /\ OneEnd(outbox[cur]) => OneEnd(outbox'[cur])
            BY <1>q, <3>1, <3>2, Sent
        <3> QED BY <2>1, <3>3 DEF OneTurn, Moves, InTurn
    <2>2. CASE w # cur
        BY <2>2, SendsType DEF Moves, OneTurn
    <2> QED BY <2>1, <2>2
<1>10. CASE \E w \in Workers, o \in {"ok", "unconfigured", "failed"} : Boot(w, o)
    <2> PICK w \in Workers, o \in {"ok", "unconfigured", "failed"} : Boot(w, o)
        BY <1>10
    <2>1. CASE w # cur
        BY <2>1, SendsType DEF Boot, Moves, OneTurn, uiVars
    <2>2. CASE w = cur /\ o # "ok"
        BY <2>2 DEF Boot, OneTurn, uiVars
    <2>3. CASE w = cur /\ o = "ok"
        <3>1. /\ UNCHANGED <<cur, running, inbox, outbox>>
              /\ stage[cur] = "booting" /\ stage'[cur] = "loading"
            BY <2>3 DEF Boot, Moves, uiVars
        <3>2. boot = "none"
            BY <3>1 DEF Begun
        <3> QED BY <3>1, <3>2 DEF OneTurn, InTurn
    <2> QED BY <2>1, <2>2, <2>3
<1>11. CASE \E w \in Workers, ev \in {"terminal", "error"} : EndTurn(w, ev)
    <2> PICK w \in Workers, ev \in {"terminal", "error"} : EndTurn(w, ev)
        BY <1>11
    <2>0. /\ Sends(w, ev, NoPrompt) /\ UNCHANGED <<cur, boot, running, inbox>>
          /\ Moves(w, "turn", "save")
        BY DEF EndTurn, uiVars
    <2>1. CASE w = cur
        <3>1. outbox'[cur] = Append(outbox[cur], Event(ev, NoPrompt))
            BY <2>0, <2>1, SendsType
        <3>2. NoEnd(outbox[cur]) => OneEnd(outbox'[cur])
            BY <1>q, <3>1, Sent, EventType
        <3> QED BY <2>0, <2>1, <3>2 DEF OneTurn, Moves, InTurn
    <2>2. CASE w # cur
        BY <2>0, <2>2, SendsType DEF Moves, OneTurn
    <2> QED BY <2>1, <2>2
<1> QED BY <1>1, <1>2, <1>3, <1>4, <1>5, <1>6, <1>7, <1>8, <1>9, <1>10, <1>11,
           NextCases
-----------------------------------------------------------------------------
LEMMA InitInvariant == Init => IInv
<1> SUFFICES ASSUME Init PROVE IInv
    OBVIOUS
<1>1. Types
    <2>1. /\ 1 \in Workers /\ <<>> \in Seq(Prompts) /\ <<>> \in Seq(Events)
          /\ "booting" \in Stages /\ "absent" \in Stages
        BY GuiSessionAssumption DEF Workers, Stages
    <2>2. stage \in [Workers -> Stages]
        BY <2>1 DEF Init
    <2>3. inbox \in [Workers -> Seq(Prompts)] /\ outbox \in [Workers -> Seq(Events)]
        BY <2>1 DEF Init
    <2> QED BY <2>1, <2>2, <2>3 DEF Init, Types
<1>2. Begun
    BY GuiSessionAssumption DEF Init, Begun, Workers
<1>3. Requests /\ Answerable
    BY <1>1 DEF Init, Requests, Answerable, Types
<1>4. OneTurn
    BY <1>1, EmptyQueue DEF Init, OneTurn, Turning, InTurn, Types
<1> QED BY <1>1, <1>2, <1>3, <1>4 DEF IInv

LEMMA NextInvariant == IInv /\ [Next]_vars => IInv'
<1> SUFFICES ASSUME IInv, [Next]_vars PROVE IInv'
    OBVIOUS
<1>1. CASE Next
    <2>1. Types' /\ Begun' /\ Requests'
        BY <1>1, TypesStep, BegunStep DEF IInv
    <2> QED BY <1>1, <2>1, AnswerableStep, OneTurnStep DEF IInv
<1>2. CASE UNCHANGED vars
    BY <1>2 DEF IInv, Types, Begun, Requests, Answerable, OneTurn, Turning, vars,
        uiVars, channelVars, agentVars
<1> QED BY <1>1, <1>2

LEMMA Invariance == Spec => []IInv
BY InitInvariant, NextInvariant, PTL DEF Spec

\* A worker of the window's conversation never waits for an approval the user
\* cannot give, however its requests, answers and the ends of turns interleave.
THEOREM AlwaysAnswerable == Spec => []ParkedIsAnswerable
<1>1. IInv => ParkedIsAnswerable
    <2> SUFFICES ASSUME IInv, stage[cur] = "parked", reply[cur] # "answered"
                 PROVE  /\ reply[cur] = "open"
                        /\ \/ now[cur] \in cards
                           \/ Queued(cur, "ask", now[cur])
        BY DEF ParkedIsAnswerable
    <2>1. reply[cur] = "open"
        BY DEF IInv, Types, Requests
    <2>2. Shown(cards, outbox[cur], now[cur])
        BY <2>1 DEF IInv, Answerable
    <2> QED BY <2>1, <2>2 DEF Shown, Queued
<1> QED BY <1>1, Invariance, PTL

\* The window of a configured backend shows a turn as running from the sending
\* of its prompt to the draining of the event that ends it.
THEOREM TurnAlwaysShown == Spec => []TurnShownRunning
<1>1. IInv => TurnShownRunning
    BY DEF IInv, OneTurn, Turning, TurnShownRunning
<1> QED BY <1>1, Invariance, PTL
-----------------------------------------------------------------------------
(***************************************************************************)
(* What a window that shows a running turn waits for: its worker has the   *)
(* prompt or is in the turn, or the event that ends it is in the channel.  *)
(***************************************************************************)
WaitsForTurn ==
    /\ stage[cur] = "gone" => boot = "failed"
    /\ running /\ boot # "failed" => Turning(cur) \/ ~NoEnd(outbox[cur])

\* The events in a queue that another one is appended to.
LEMMA StillEnds ==
    ASSUME NEW q \in Seq(Events), NEW e \in Events
    PROVE  /\ ~NoEnd(q) => ~NoEnd(Append(q, e))
           /\ EndsRunning(e.ev) => ~NoEnd(Append(q, e))
<1> DEFINE r == Append(q, e)
<1>1. /\ Len(r) = Len(q) + 1 /\ Len(q) \in Nat
      /\ \A i \in 1..Len(q) : r[i] = q[i]
      /\ r[Len(q) + 1] = e
    BY AppendProperties
<1> HIDE DEF r
<1>2. Len(q) + 1 \in 1..Len(r) /\ \A i \in 1..Len(q) : i \in 1..Len(r)
    BY <1>1
<1> QED BY <1>1, <1>2 DEF NoEnd, r

\* The only event that may leave the channel without ending the turn is one
\* that does not end turns.
LEMMA EndStays ==
    ASSUME NEW q \in Seq(Events), q # <<>>, ~NoEnd(q), ~EndsRunning(Head(q).ev)
    PROVE  ~NoEnd(Tail(q))
<1>1. /\ Head(q) = q[1] /\ Len(Tail(q)) = Len(q) - 1 /\ Len(q) \in Nat \ {0}
      /\ \A i \in 1..Len(Tail(q)) : Tail(q)[i] = q[i + 1]
    BY HeadTailProperties
<1>2. PICK i \in 1..Len(q) : EndsRunning(q[i].ev)
    BY DEF NoEnd
<1>3. i - 1 \in 1..Len(Tail(q)) /\ (i - 1) + 1 = i
    BY <1>1, <1>2
<1>4. EndsRunning(Tail(q)[i - 1].ev)
    BY <1>1, <1>2, <1>3
<1> QED BY <1>3, <1>4 DEF NoEnd

LEMMA SendsKeepEnd ==
    ASSUME Types, NEW w \in Workers,
           NEW ev \in {"error", "terminal", "ask", "saved"},
           NEW p \in Prompts \cup {NoPrompt}, Sends(w, ev, p),
           ~NoEnd(outbox[cur])
    PROVE  ~NoEnd(outbox'[cur])
<1>1. outbox \in [Workers -> Seq(Events)] /\ cur \in Workers
    BY DEF Types
<1>2. CASE w = cur
    <2>1. outbox'[cur] = Append(outbox[cur], Event(ev, p))
        BY <1>1, <1>2, SendsType
    <2>2. outbox[cur] \in Seq(Events) /\ Event(ev, p) \in Events
        BY <1>1, EventType
    <2> QED BY <2>1, <2>2, StillEnds
<1>3. CASE w # cur
    <2>1. outbox' = outbox
        BY <1>3, SendsType
    <2> QED BY <2>1
<1> QED BY <1>2, <1>3

LEMMA WaitStep == ASSUME IInv, WaitsForTurn, Next PROVE WaitsForTurn'
<1> USE DEF IInv, Types, Turning
<1>q. outbox[cur] \in Seq(Events) /\ inbox[cur] \in Seq(Prompts)
    OBVIOUS
<1>1. CASE Drain
    <2>1. /\ outbox[cur] # <<>> /\ outbox'[cur] = Tail(outbox[cur])
          /\ running' = (running /\ ~EndsRunning(Head(outbox[cur]).ev))
          /\ UNCHANGED <<cur, boot, stage, inbox>>
        BY <1>1 DEF Drain, agentVars
    <2>2. running' /\ ~NoEnd(outbox[cur]) => ~NoEnd(outbox'[cur])
        BY <1>q, <2>1, EndStays
    <2> QED BY <2>1, <2>2 DEF WaitsForTurn
<1>2. CASE \E p \in Prompts : Submit(p)
    <2> PICK p \in Prompts : Submit(p)
        BY <1>2
    <2>1. /\ UNCHANGED <<cur, boot, stage, outbox>>
          /\ stage[cur] # "gone" => inbox'[cur] = Append(inbox[cur], p)
        BY DEF Submit, agentVars
    <2>2. Append(inbox[cur], p) # <<>>
        <3>1. Len(Append(inbox[cur], p)) = Len(inbox[cur]) + 1 /\ Len(inbox[cur]) \in Nat
            BY <1>q, AppendProperties
        <3>2. Len(Append(inbox[cur], p)) # 0 /\ Len(<<>>) = 0
            BY <3>1
        <3> QED BY <3>2
    <2> QED BY <2>1, <2>2 DEF WaitsForTurn
<1>3. CASE Stop \/ \E p \in Prompts : Respond(p)
    BY <1>3 DEF Stop, Respond, WaitsForTurn, uiVars, agentVars
<1>4. CASE \E w \in Workers : Restarts(w) \/ Restart(w)
    <2>1. stage'[cur'] = "booting" /\ ~running'
        BY <1>4 DEF Restarts, Restart, NewChat, Resume, Starts, Moves
    <2> QED BY <2>1 DEF WaitsForTurn
<1>5. CASE \E w \in Workers : Quiet(w)
    <2> PICK w \in Workers : Quiet(w)
        BY <1>5
    <2>1. UNCHANGED <<cur, running, boot, inbox, outbox>>
        BY QuietMoves DEF Seen
    <2>2. stage[cur] \in InTurn <=> stage'[cur] \in InTurn
        BY <2>1, QuietMoves DEF Moves
    <2>3. stage'[cur] = "gone" => stage[cur] = "gone"
        BY DEF Quiet, Load, Leave, SaveStep, Moves
    <2> QED BY <2>1, <2>2, <2>3 DEF WaitsForTurn
<1>6. CASE \E w \in Workers : TakePrompt(w)
    <2> PICK w \in Workers : TakePrompt(w)
        BY <1>6
    <2>1. CASE w = cur
        BY <2>1 DEF TakePrompt, Moves, WaitsForTurn, InTurn, uiVars
    <2>2. CASE w # cur
        BY <2>2 DEF TakePrompt, Moves, WaitsForTurn, uiVars
    <2> QED BY <2>1, <2>2
<1>7. CASE \E w \in Workers : Ask(w) \/ Unparks(w)
    BY <1>7 DEF Ask, Unparks, Moves, InTurn, WaitsForTurn, uiVars, agentVars
<1>8. CASE \E w \in Workers : ShowRequest(w) \/ Report(w)
    <2> PICK w \in Workers, ev \in {"ask", "saved"},
             p \in Prompts \cup {NoPrompt} :
            /\ Sends(w, ev, p) /\ UNCHANGED <<cur, boot, running, inbox>>
            /\ \/ Moves(w, "asking", "parked") \/ Moves(w, "report", "idle")
        BY <1>8 DEF ShowRequest, Report, uiVars, agentVars
    <2>1. ~NoEnd(outbox[cur]) => ~NoEnd(outbox'[cur])
        BY SendsKeepEnd
    <2>2. /\ stage[cur] \in InTurn => stage'[cur] \in InTurn
          /\ stage'[cur] = "gone" => stage[cur] = "gone"
        BY DEF Moves, InTurn
    <2> QED BY <2>1, <2>2 DEF WaitsForTurn
<1>9. CASE \E w \in Workers, o \in {"ok", "unconfigured", "failed"} : Boot(w, o)
    <2> PICK w \in Workers, o \in {"ok", "unconfigured", "failed"} : Boot(w, o)
        BY <1>9
    <2>1. /\ UNCHANGED <<cur, running>> /\ boot' = IF w = cur THEN o ELSE boot
          /\ Moves(w, "booting", IF o = "failed" THEN "gone" ELSE "loading")
          /\ o # "failed" => inbox' = inbox
          /\ w # cur => inbox'[cur] = inbox[cur]
        BY DEF Boot, uiVars
    <2>2. ~NoEnd(outbox[cur]) => ~NoEnd(outbox'[cur])
        <3>1. CASE outbox' = outbox
            BY <2>1, <3>1
        <3>2. CASE Sends(w, "error", NoPrompt)
            BY <3>2, SendsKeepEnd
        <3> QED BY <3>1, <3>2 DEF Boot
    <2>3. CASE w = cur /\ o = "failed"
        <3>1. boot' = "failed"
            BY <2>1, <2>3
        <3> QED BY <3>1 DEF WaitsForTurn
    <2>4. CASE w = cur /\ o # "failed"
        <3>1. /\ stage[cur] = "booting" /\ stage'[cur'] = "loading"
              /\ inbox'[cur'] = inbox[cur] /\ cur' = cur
            BY <2>1, <2>4 DEF Moves
        <3>2. boot = "none"
            BY <3>1 DEF Begun
        <3> QED BY <2>1, <2>2, <3>1, <3>2 DEF WaitsForTurn, InTurn
    <2>5. CASE w # cur
        <3>1. stage'[cur] = stage[cur] /\ inbox'[cur] = inbox[cur] /\ boot' = boot
            BY <2>1, <2>5 DEF Moves
        <3> QED BY <2>1, <2>2, <3>1 DEF WaitsForTurn
    <2> QED BY <2>3, <2>4, <2>5
<1>10. CASE \E w \in Workers, ev \in {"terminal", "error"} : EndTurn(w, ev)
    <2> PICK w \in Workers, ev \in {"terminal", "error"} : EndTurn(w, ev)
        BY <1>10
    <2>1. /\ Sends(w, ev, NoPrompt) /\ UNCHANGED <<cur, boot, running, inbox>>
          /\ Moves(w, "turn", "save")
        BY DEF EndTurn, uiVars
    <2>2. Event(ev, NoPrompt) \in Events /\ EndsRunning(Event(ev, NoPrompt).ev)
        BY EventType
    <2>3. CASE w = cur
        <3>1. outbox'[cur] = Append(outbox[cur], Event(ev, NoPrompt))
            BY <2>1, <2>3, SendsType
        <3>2. ~NoEnd(outbox'[cur])
            BY <1>q, <2>2, <3>1, StillEnds
        <3> QED BY <2>1, <2>3, <3>2 DEF WaitsForTurn, Moves
    <2>4. CASE w # cur
        <3>1. UNCHANGED outbox /\ stage'[cur] = stage[cur]
            BY <2>1, <2>4, SendsType DEF Moves
        <3> QED BY <2>1, <3>1 DEF WaitsForTurn
    <2> QED BY <2>3, <2>4
<1> QED BY <1>1, <1>2, <1>3, <1>4, <1>5, <1>6, <1>7, <1>8, <1>9, <1>10, NextCases

\* A window never shows a running turn for nothing: until it is taken back,
\* its worker lives and has the prompt or is in the turn, or the event that
\* ends the turn is on its way.  (A backend that could not be configured is
\* the exception: its worker has left and the prompt was sent to nobody.)
THEOREM NeverRunsForNothing ==
    Spec => [](running /\ boot # "failed" =>
                /\ stage[cur] # "gone"
                /\ \/ stage[cur] \in InTurn \/ inbox[cur] # <<>>
                   \/ \E i \in 1..Len(outbox[cur]) :
                        EndsRunning(outbox[cur][i].ev))
<1>1. Init => WaitsForTurn
    BY GuiSessionAssumption DEF Init, WaitsForTurn, Workers
<1>2. IInv /\ WaitsForTurn /\ [Next]_vars => WaitsForTurn'
    <2>1. CASE UNCHANGED vars
        BY <2>1 DEF WaitsForTurn, Turning, vars, uiVars, channelVars, agentVars
    <2> QED BY <2>1, WaitStep
<1>3. WaitsForTurn =>
        (running /\ boot # "failed" =>
            /\ stage[cur] # "gone"
            /\ \/ stage[cur] \in InTurn \/ inbox[cur] # <<>>
               \/ \E i \in 1..Len(outbox[cur]) :
                    EndsRunning(outbox[cur][i].ev))
    BY DEF WaitsForTurn, Turning, NoEnd
<1> QED BY <1>1, <1>2, <1>3, Invariance, PTL DEF Spec

\* Stop is not lost: a flag that is up in a turn stays up until that turn is
\* over, whatever the window and the worker do meanwhile.
THEOREM StopIsKept ==
    Spec => [][\A w \in Workers :
                 stage[w] \in InTurn /\ stop[w] /\ stage'[w] \in InTurn
                     => stop'[w]]_vars
<1> DEFINE Kept == \A w \in Workers :
                      stage[w] \in InTurn /\ stop[w] /\ stage'[w] \in InTurn
                          => stop'[w]
<1>1. IInv /\ [Next]_vars => [Kept]_vars
    <2> SUFFICES ASSUME IInv, Next, NEW v \in Workers, stage[v] \in InTurn,
                        stop[v], stage'[v] \in InTurn
                 PROVE  stop'[v]
        OBVIOUS
    <2>1. CASE UNCHANGED stop
        BY <2>1
    <2>2. CASE \E w \in Workers : TakePrompt(w)
        BY <2>2 DEF TakePrompt, Moves, InTurn
    <2>3. CASE \E w \in Workers : Restart(w)
        BY <2>3 DEF Restart, Alive, InTurn, IInv, Types
    <2>4. CASE Stop
        BY <2>4 DEF Stop
    <2>5. \/ UNCHANGED stop \/ Stop
          \/ \E w \in Workers : TakePrompt(w) \/ Restart(w) \/ Leave(w)
        BY NextCases DEF Drain, Submit, Respond, Restarts, NewChat, Resume,
            Starts, Quiet, Load, SaveStep, Ask, ShowRequest, Unparks,
            Report, Boot, EndTurn, channelVars, uiVars
    <2>6. CASE \E w \in Workers : Leave(w)
        BY <2>6 DEF Leave, Moves, InTurn, IInv, Types
    <2> QED BY <2>1, <2>2, <2>3, <2>4, <2>5, <2>6
<1> QED BY <1>1, Invariance, PTL DEF Spec
-----------------------------------------------------------------------------
(***************************************************************************)
(* The part of DroppedWorkersLeave that no schedule can change.  A turn    *)
(* asks once, so each stage is followed by a lower one until the worker    *)
(* takes its next prompt.                                                  *)
(***************************************************************************)
StageRank(at, hasAsked) ==
    CASE at = "booting" -> 3       [] at = "loading" -> 2
      [] at = "idle" -> 1          [] at = "turn" -> IF hasAsked THEN 9 ELSE 12
      [] at = "asking" -> 11       [] at = "parked" -> 10
      [] at = "save" -> 8          [] at = "filling" -> 7
      [] at = "rename" -> 6        [] at = "report" -> 5
      [] OTHER -> 0
ToGo(w) == 12 * Len(inbox[w]) + StageRank(stage[w], asked[w])

AskedOnce ==
    /\ asked \in [Workers -> BOOLEAN]
    /\ \A w \in Workers : stage[w] \in {"asking", "parked"} => asked[w]

LEMMA RankType == ASSUME NEW at, NEW hasAsked PROVE StageRank(at, hasAsked) \in 0..12
BY DEF StageRank

LEMMA ToGoType ==
    ASSUME Types, NEW w \in Workers
    PROVE  Len(inbox[w]) \in Nat /\ ToGo(w) \in Nat
<1>1. inbox[w] \in Seq(Prompts)
    BY DEF Types
<1>2. Len(inbox[w]) \in Nat
    BY <1>1, LenProperties
<1>3. StageRank(stage[w], asked[w]) \in 0..12
    BY RankType
<1> QED BY <1>2, <1>3 DEF ToGo

\* A step of a worker changes the stage, the prompts and the turn of no other.
LEMMA OwnStep ==
    ASSUME Types, AskedOnce, NEW w \in Workers, WorkerStep(w)
    PROVE  /\ cur' = cur
           /\ \A v \in Workers \ {w} : /\ stage'[v] = stage[v]
                                       /\ inbox'[v] = inbox[v]
                                       /\ asked'[v] = asked[v]
<1> USE DEF Types, AskedOnce, Moves, uiVars, channelVars, agentVars
<1>1. CASE \E o \in {"ok", "unconfigured", "failed"} : Boot(w, o)
    BY <1>1 DEF Boot
<1>2. CASE Load(w) \/ TakePrompt(w) \/ Leave(w)
    BY <1>2 DEF Load, TakePrompt, Leave
<1>3. CASE Ask(w) \/ ShowRequest(w) \/ Answered(w) \/ Cancelled(w)
    BY <1>3 DEF Ask, ShowRequest, Answered, Cancelled, Unparks
<1>4. CASE \E ev \in {"terminal", "error"} : EndTurn(w, ev)
    BY <1>4 DEF EndTurn
<1>5. CASE SaveStep(w) \/ Report(w)
    BY <1>5 DEF SaveStep, Report
<1> QED BY <1>1, <1>2, <1>3, <1>4, <1>5 DEF WorkerStep

LEMMA AskedStep == ASSUME Types, AskedOnce, Next PROVE AskedOnce'
<1> USE DEF AskedOnce, Types, Moves, uiVars, channelVars, agentVars
<1>1. CASE Drain \/ Stop \/ \E p \in Prompts : Submit(p) \/ Respond(p)
    BY <1>1 DEF Drain, Stop, Submit, Respond
<1>2. CASE \E w \in Workers : Restarts(w) \/ Restart(w)
    <2>1. CASE \E w \in Workers : Restarts(w)
        BY <2>1 DEF Restarts, NewChat, Resume, Starts
    <2>2. CASE \E w \in Workers : Restart(w)
        <3> PICK w \in Workers : Restart(w)
            BY <2>2
        <3>1. /\ asked' = [v \in Workers |-> FALSE]
              /\ \A v \in Workers : stage'[v] \notin {"asking", "parked"}
            BY DEF Restart, Alive
        <3> QED BY <3>1
    <2> QED BY <1>2, <2>1, <2>2
<1>3. CASE \E w \in Workers : Quiet(w) \/ TakePrompt(w) \/ Unparks(w)
    BY <1>3, QuietMoves DEF Quiet, Load, Leave, SaveStep, TakePrompt, Unparks, InTurn
<1>4. CASE \E w \in Workers : Ask(w) \/ ShowRequest(w) \/ Report(w)
    BY <1>4 DEF Ask, ShowRequest, Report
<1>5. CASE \E w \in Workers, o \in {"ok", "unconfigured", "failed"} : Boot(w, o)
    BY <1>5 DEF Boot
<1>6. CASE \E w \in Workers, ev \in {"terminal", "error"} : EndTurn(w, ev)
    BY <1>6 DEF EndTurn
<1> QED BY <1>1, <1>2, <1>3, <1>4, <1>5, <1>6, NextCases

LEMMA OwnStepShortens ==
    ASSUME Types, AskedOnce, NEW w \in Workers, WorkerStep(w)
    PROVE  ToGo(w)' < ToGo(w)
<1> USE DEF Types, Moves, uiVars, channelVars, agentVars
<1>0. Len(inbox[w]) \in Nat
    BY ToGoType
<1>1. CASE inbox' = inbox
    <2>1. StageRank(stage'[w], asked'[w]) < StageRank(stage[w], asked[w])
        <3>1. CASE \E o \in {"ok", "unconfigured", "failed"} : Boot(w, o)
            BY <3>1 DEF Boot, StageRank
        <3>2. CASE Load(w) \/ Leave(w)
            BY <3>2 DEF Load, Leave, StageRank
        <3>3. CASE Ask(w) \/ ShowRequest(w) \/ Answered(w) \/ Cancelled(w)
            BY <3>3 DEF Ask, ShowRequest, Answered, Cancelled, Unparks, StageRank,
                        AskedOnce
        <3>4. CASE \E ev \in {"terminal", "error"} : EndTurn(w, ev)
            BY <3>4 DEF EndTurn, StageRank
        <3>5. CASE SaveStep(w) \/ Report(w)
            BY <3>5 DEF SaveStep, Report, StageRank
        <3>6. CASE TakePrompt(w)
            <4>1. inbox[w] # <<>> /\ inbox'[w] = Tail(inbox[w])
                BY <3>6 DEF TakePrompt
            <4>2. Len(inbox'[w]) = Len(inbox[w]) - 1
                BY <4>1, HeadTailProperties
            <4> QED BY <1>0, <1>1, <4>2
        <3> QED BY <3>1, <3>2, <3>3, <3>4, <3>5, <3>6 DEF WorkerStep
    <2>2. /\ StageRank(stage'[w], asked'[w]) \in 0..12
          /\ StageRank(stage[w], asked[w]) \in 0..12
        BY RankType
    <2>3. Len(inbox'[w]) = Len(inbox[w])
        BY <1>1
    <2>4. ASSUME NEW n \in Nat, NEW a \in 0..12, NEW b \in 0..12, a < b
          PROVE  12 * n + a < 12 * n + b
        BY <2>4
    <2> QED BY <1>0, <2>1, <2>2, <2>3, <2>4 DEF ToGo
<1>2. CASE TakePrompt(w)
    <2>1. /\ inbox[w] # <<>> /\ inbox'[w] = Tail(inbox[w])
          /\ stage[w] = "idle" /\ stage'[w] = "turn"
        BY <1>2 DEF TakePrompt
    <2>2. Len(inbox'[w]) = Len(inbox[w]) - 1
        BY <2>1, HeadTailProperties
    <2>3. StageRank(stage[w], asked[w]) = 1 /\ StageRank(stage'[w], asked'[w]) \in 0..12
        BY <2>1, RankType DEF StageRank
    <2> QED BY <1>0, <2>2, <2>3 DEF ToGo
<1>3. CASE Boot(w, "failed")
    <2>1. inbox'[w] = <<>> /\ stage[w] = "booting" /\ stage'[w] = "gone"
        BY <1>3 DEF Boot
    <2>2. Len(inbox'[w]) = 0
        BY <2>1
    <2>3. StageRank(stage[w], asked[w]) = 3 /\ StageRank(stage'[w], asked'[w]) = 0
        BY <2>1 DEF StageRank
    <2> QED BY <1>0, <2>2, <2>3 DEF ToGo
<1>4. inbox' = inbox \/ TakePrompt(w) \/ Boot(w, "failed")
    BY DEF WorkerStep, Boot, Load, Leave, Ask, ShowRequest, Answered, Cancelled,
           Unparks, EndTurn, SaveStep, Report
<1> QED BY <1>1, <1>2, <1>3, <1>4

\* Nothing but its own steps gives a worker that was dropped more to do.
LEMMA DroppedGetsNothing ==
    ASSUME Types, AskedOnce, NEW w \in Workers, w < cur, Next
    PROVE  w < cur' /\ (ToGo(w)' <= ToGo(w) \/ WorkerStep(w))
<1> USE DEF Types, Moves, uiVars, channelVars, agentVars
<1>0. /\ w \in Nat /\ cur \in Nat /\ Len(inbox[w]) \in Nat
      /\ StageRank(stage[w], asked[w]) \in 0..12
    BY ToGoType, RankType, GuiSessionAssumption DEF Workers
<1>1. CASE /\ cur' \in {cur, cur + 1} /\ stage'[w] = stage[w]
           /\ inbox'[w] = inbox[w] /\ asked'[w] = asked[w]
    BY <1>0, <1>1 DEF ToGo
<1>2. CASE Drain \/ Stop \/ \E p \in Prompts : Respond(p)
    BY <1>1, <1>2 DEF Drain, Stop, Respond
<1>3. CASE \E p \in Prompts : Submit(p)
    BY <1>0, <1>1, <1>3 DEF Submit
<1>4. CASE \E v \in Workers : Restarts(v)
    <2> PICK v \in Workers : Restarts(v)
        BY <1>4
    <2>1. /\ cur' = cur + 1 /\ v = cur + 1
          /\ UNCHANGED <<inbox, asked>>
          /\ stage' = [stage EXCEPT ![v] = "booting"]
        BY DEF Restarts, NewChat, Resume, Starts
    <2>2. stage'[w] = stage[w]
        BY <1>0, <2>1
    <2> QED BY <1>1, <2>1, <2>2
<1>5. CASE \E v \in Workers : Restart(v)
    <2> PICK v \in Workers : Restart(v)
        BY <1>5
    <2>1. /\ cur' = cur + 1 /\ v = cur + 1 /\ inbox'[w] = <<>>
          /\ stage'[w] = IF Alive(w) THEN "gone" ELSE stage[w]
        BY <1>0 DEF Restart
    <2>2. Len(inbox'[w]) = 0
        BY <2>1
    <2>3. StageRank(stage'[w], asked'[w]) = 0
        BY <2>1 DEF StageRank, Alive
    <2>4. ToGo(w)' = 0 /\ ToGo(w) \in Nat
        BY <2>2, <2>3, ToGoType DEF ToGo
    <2> QED BY <1>0, <2>1, <2>4
<1>6. CASE \E v \in Workers : WorkerStep(v)
    BY <1>0, <1>1, <1>6, OwnStep
<1> QED BY <1>2, <1>3, <1>4, <1>5, <1>6 DEF Next, UserStep, Restarts

\* A worker whose Conversation was dropped winds down: it is dropped for good,
\* nobody hands it another prompt or turn, and each of its steps brings it nearer
\* to its end.  Only a worker that is not scheduled, or is parked, stays.
DroppedWindDown ==
    [][\A w \in Workers : w < cur =>
          /\ w < cur'
          /\ ToGo(w) \in Nat /\ ToGo(w)' <= ToGo(w)
          /\ WorkerStep(w) => ToGo(w)' < ToGo(w)]_vars
THEOREM DroppedAlwaysWindDown == Spec => DroppedWindDown
<1> DEFINE WindsDown == \A w \in Workers : w < cur =>
          /\ w < cur'
          /\ ToGo(w) \in Nat /\ ToGo(w)' <= ToGo(w)
          /\ WorkerStep(w) => ToGo(w)' < ToGo(w)
<1>1. Init => AskedOnce
    BY DEF Init, AskedOnce
<1>2. IInv /\ AskedOnce /\ [Next]_vars => AskedOnce'
    <2>1. CASE Next
        BY <2>1, AskedStep DEF IInv
    <2>2. CASE UNCHANGED vars
        BY <2>2 DEF vars, agentVars, AskedOnce
    <2> QED BY <2>1, <2>2
<1>3. IInv /\ AskedOnce /\ [Next]_vars => [WindsDown]_vars
    <2> SUFFICES ASSUME IInv, AskedOnce, Next, NEW w \in Workers, w < cur
                 PROVE  /\ w < cur'
                        /\ ToGo(w) \in Nat /\ ToGo(w)' <= ToGo(w)
                        /\ WorkerStep(w) => ToGo(w)' < ToGo(w)
        OBVIOUS
    <2>1. Types /\ Begun /\ Types'
        BY NextInvariant DEF IInv
    <2>2. ToGo(w) \in Nat /\ ToGo(w)' \in Nat
        <3>1. Len(inbox'[w]) \in Nat
            BY <2>1, LenProperties DEF Types
        <3>2. StageRank(stage'[w], asked'[w]) \in 0..12
            BY RankType
        <3> QED BY <2>1, <3>1, <3>2, ToGoType DEF ToGo
    <2> QED BY <2>1, <2>2, DroppedGetsNothing, OwnStepShortens
<1> QED BY <1>1, <1>2, <1>3, Invariance, PTL DEF Spec, DroppedWindDown
=============================================================================
