---------------------------- MODULE GuiStoreProofs ----------------------------
(***************************************************************************)
(* Proofs about what the workers of GuiSession save, for any number of     *)
(* conversations and prompts: a session that has one busy worker at a time *)
(* keeps its turns, whatever writes and renames fail, so that a session on *)
(* the window's list can be loaded.                                        *)
(***************************************************************************)
EXTENDS GuiSessionProofs, ReplaceFileProofs

\* The stages in which a worker has a file of the store in its hands.
Storing == {"filling", "rename"}

Transcripts == Seq(Turns)

StoreTypes ==
    /\ transcript \in [Sessions -> Files(Transcripts, Writers)]
    /\ resume \in [Workers -> Sessions \cup {NoSession}]
    /\ talk \in [Workers -> Transcripts]
    /\ unread \subseteq Sessions

\* A file is only open while its writer is filling it.
OpenFiles ==
    \A w \in Workers, s \in Sessions : transcript[s].on[w] # "none" =>
        stage[w] = "filling" /\ s = Session(w)
-----------------------------------------------------------------------------
LEMMA SessionType ==
    ASSUME StoreTypes, NEW w \in Workers PROVE Session(w) \in Sessions
BY DEF StoreTypes, Session, Sessions, Workers

LEMMA LoadedType ==
    ASSUME StoreTypes, NEW s \in Sessions PROVE Loaded(s) \in Transcripts
<1>1. CASE Parses(transcript[s])
    <2>1. transcript[s].path \in [is : {"whole"}, of : Transcripts]
        BY <1>1 DEF StoreTypes, Files, Contents, Parses
    <2> QED BY <1>1, <2>1 DEF Loaded
<1>2. CASE ~Parses(transcript[s])
    BY <1>2 DEF Loaded, Transcripts
<1> QED BY <1>1, <1>2

LEMMA StoreCases ==
    ASSUME Types, StoreTypes, Next
    PROVE  \/ \E w \in Workers : SaveStep(w) \/ Restart(w)
           \/ /\ UNCHANGED storeVars
              /\ \A v \in Workers :
                   /\ stage[v] # "absent" => stage'[v] # "absent" /\ resume'[v] = resume[v]
                   /\ \/ stage'[v] = stage[v]
                      \/ stage[v] \notin Storing /\ stage'[v] \notin Storing
<1> DEFINE Frame ==
        /\ UNCHANGED storeVars
        /\ \A v \in Workers :
             /\ stage[v] # "absent" => stage'[v] # "absent" /\ resume'[v] = resume[v]
             /\ \/ stage'[v] = stage[v]
                \/ stage[v] \notin Storing /\ stage'[v] \notin Storing
<1> USE DEF Types, Moves, Storing, InTurn, agentVars
<1>1. CASE Drain \/ Stop \/ \E p \in Prompts : Submit(p) \/ Respond(p)
    BY <1>1 DEF Drain, Stop, Submit, Respond
<1>2. CASE \E w \in Workers : Restarts(w)
    <2> PICK w \in Workers : Restarts(w)
        BY <1>2
    <2>1. /\ stage[w] = "absent" /\ stage' = [stage EXCEPT ![w] = "booting"]
          /\ \A v \in Workers : v # w => resume'[v] = resume[v]
          /\ UNCHANGED storeVars
        BY DEF Restarts, NewChat, Resume, Starts, StoreTypes
    <2> QED BY <2>1
<1>3. CASE \E w \in Workers : Load(w) \/ Leave(w) \/ TakePrompt(w)
    BY <1>3 DEF Load, Leave, TakePrompt
<1>4. CASE \E w \in Workers : Ask(w) \/ ShowRequest(w) \/ Unparks(w)
    BY <1>4 DEF Ask, ShowRequest, Unparks
<1>5. CASE \E w \in Workers : Report(w)
    BY <1>5 DEF Report
<1>6. CASE \E w \in Workers, o \in {"ok", "unconfigured", "failed"} : Boot(w, o)
    BY <1>6 DEF Boot
<1>7. CASE \E w \in Workers, ev \in {"terminal", "error"} : EndTurn(w, ev)
    BY <1>7 DEF EndTurn
<1> QED BY <1>1, <1>2, <1>3, <1>4, <1>5, <1>6, <1>7, NextCases DEF Quiet

\* Who moved, and what was done to the store, in each step of a save.
LEMMA SaveCases ==
    ASSUME Types, NEW w \in Workers, SaveStep(w)
    PROVE  /\ UNCHANGED <<uiVars, channelVars, agentVars>>
           /\ \A v \in Workers \ {w} : stage'[v] = stage[v]
           /\ \A v \in Workers : Session(v)' = Session(v)
           /\ \/ stage[w] = "save" /\ stage'[w] = "report" /\ UNCHANGED storeVars
              \/ stage[w] = "save" /\ stage'[w] = "filling" /\ OpenSibling(w, Session(w))
              \/ /\ stage[w] = "filling" /\ stage'[w] = "rename"
                 /\ WriteSibling(w, Session(w), talk[w])
              \/ /\ stage[w] = "filling" /\ stage'[w] = "report"
                 /\ BreakSibling(w, Session(w))
              \/ /\ stage[w] = "rename" /\ stage'[w] = "report"
                 /\ RenameSibling(w, Session(w))
<1>1. UNCHANGED <<uiVars, channelVars, agentVars>>
    BY DEF SaveStep
<1>2. \A v \in Workers : Session(v)' = Session(v)
    BY <1>1 DEF Session, agentVars
<1>3. \A from, to : Moves(w, from, to) =>
          stage[w] = from /\ stage'[w] = to /\ \A v \in Workers \ {w} : stage'[v] = stage[v]
    BY DEF Moves, Types
<1> QED BY <1>1, <1>2, <1>3 DEF SaveStep

\* What a step of a save makes of the one file it may touch.
SavedFile(w, f, g) ==
    \/ stage'[w] = "report" /\ g = f
    \/ stage'[w] = "filling" /\ g.path = f.path /\ g.tmp = Empty /\ g.on[w] = "tmp"
    \/ /\ stage[w] = "filling" /\ stage'[w] = "rename"
       /\ f.on[w] = "tmp" => g.path = f.path
       /\ f.on[w] = "tmp" /\ f.tmp = Empty => g.tmp = Whole(talk[w])
    \/ /\ stage[w] = "filling" /\ stage'[w] = "report"
       /\ f.on[w] = "tmp" => g.path = f.path
    \/ stage[w] = "rename" /\ stage'[w] = "report" /\ g.path = f.tmp

LEMMA SaveFile ==
    ASSUME Types, StoreTypes, OpenFiles, NEW w \in Workers, SaveStep(w),
           NEW s \in Sessions, s = Session(w)
    PROVE  /\ transcript' \in [Sessions -> Files(Transcripts, Writers)]
           /\ \A t \in Sessions \ {s} : transcript'[t] = transcript[t]
           /\ \A v \in Writers : transcript'[s].on[v] # "none" =>
                \/ v = w /\ stage'[w] = "filling"
                \/ v # w /\ transcript[s].on[v] # "none"
           /\ SavedFile(w, transcript[s], transcript'[s])
<1> DEFINE f == transcript[s]
<1>1. /\ w \in Writers /\ f \in Files(Transcripts, Writers)
      /\ talk[w] \in Transcripts
      /\ stage[w] # "filling" => f.on[w] = "none"
    BY DEF StoreTypes, OpenFiles, Workers
<1> HIDE DEF f
<1>2. ASSUME NEW g \in Files(Transcripts, Writers),
             transcript' = [transcript EXCEPT ![s] = g]
      PROVE  /\ transcript' \in [Sessions -> Files(Transcripts, Writers)]
             /\ \A t \in Sessions \ {s} : transcript'[t] = transcript[t]
             /\ transcript'[s] = g
    BY <1>2 DEF StoreTypes
<1>3. CASE stage[w] = "save" /\ stage'[w] = "report" /\ UNCHANGED storeVars
    BY <1>1, <1>3 DEF storeVars, StoreTypes, SavedFile, f
<1>4. CASE stage[w] = "save" /\ stage'[w] = "filling" /\ OpenSibling(w, s)
    <2> PICK g : g = Opened(f, "tmp", w)
        OBVIOUS
    <2>1. /\ g \in Files(Transcripts, Writers) /\ g.path = f.path /\ g.tmp = Empty
          /\ g.on[w] = "tmp" /\ \A v \in Writers \ {w} : g.on[v] = f.on[v]
        BY <1>1, OpenedTmp
    <2>2. transcript' = [transcript EXCEPT ![s] = g]
        BY <1>4 DEF OpenSibling, f
    <2> QED BY <1>2, <1>4, <2>1, <2>2 DEF SavedFile, f
<1>5. CASE /\ stage[w] = "filling" /\ stage'[w] = "rename"
           /\ WriteSibling(w, s, talk[w])
    <2>1. PICK g \in Filled(f, w, talk[w]) : transcript' = [transcript EXCEPT ![s] = g]
        BY <1>5 DEF WriteSibling, f
    <2>2. /\ g \in Files(Transcripts, Writers)
          /\ g.on[w] = "none" /\ \A v \in Writers \ {w} : g.on[v] = f.on[v]
          /\ f.on[w] = "tmp" => g.path = f.path
          /\ f.on[w] = "tmp" /\ f.tmp = Empty => g.tmp = Whole(talk[w])
        BY <1>1, <2>1, FilledFile
    <2> QED BY <1>2, <1>5, <2>1, <2>2 DEF SavedFile, f
<1>6. CASE /\ stage[w] = "filling" /\ stage'[w] = "report" /\ BreakSibling(w, s)
    <2> PICK g : g = Broken(f, w)
        OBVIOUS
    <2>1. /\ g \in Files(Transcripts, Writers)
          /\ g.on[w] = "none" /\ \A v \in Writers \ {w} : g.on[v] = f.on[v]
          /\ f.on[w] = "tmp" => g.path = f.path
        BY <1>1, BrokenFile
    <2>2. transcript' = [transcript EXCEPT ![s] = g]
        BY <1>6 DEF BreakSibling, f
    <2> QED BY <1>2, <1>6, <2>1, <2>2 DEF SavedFile, f
<1>7. CASE stage[w] = "rename" /\ stage'[w] = "report" /\ RenameSibling(w, s)
    <2>1. CASE UNCHANGED transcript
        BY <1>1, <1>7, <2>1 DEF StoreTypes, SavedFile, f
    <2>2. CASE transcript' = [transcript EXCEPT ![s] = Renamed(f)]
        <3> PICK g : g = Renamed(f)
            OBVIOUS
        <3>1. /\ g \in Files(Transcripts, Writers) /\ g.path = f.tmp
              /\ \A v \in Writers : g.on[v] # "none" => f.on[v] # "none"
            BY <1>1, RenamedFile
        <3> QED BY <1>1, <1>2, <1>7, <2>2, <3>1 DEF SavedFile, f
    <2> QED BY <1>7, <2>1, <2>2 DEF RenameSibling, f
<1> QED BY <1>3, <1>4, <1>5, <1>6, <1>7, SaveCases

LEMMA FoldedType ==
    ASSUME NEW q \in Transcripts, NEW n
    PROVE  /\ FoldFirst(n, q) \in Transcripts /\ Len(FoldFirst(n, q)) = Len(q)
           /\ \A i \in 1..Len(q) : FoldFirst(n, q)[i] \in {q[i], Folded}
<1>1. Len(q) \in Nat /\ q \in [1..Len(q) -> Turns] /\ Folded \in Turns
    BY DEF Transcripts, Turns
<1>2. FoldFirst(n, q) \in [1..Len(q) -> Turns]
    BY <1>1 DEF FoldFirst
<1>3. FoldFirst(n, q) \in Seq(Turns)
    BY <1>1, <1>2, SeqDef
<1>4. DOMAIN FoldFirst(n, q) = 1..Len(q)
    BY DEF FoldFirst
<1>5. Len(FoldFirst(n, q)) = Len(q)
    BY <1>1, <1>3, <1>4, LenProperties
<1> QED BY <1>3, <1>5 DEF FoldFirst, Transcripts
-----------------------------------------------------------------------------
LEMMA StoreTypesStep ==
    ASSUME Types, StoreTypes, OpenFiles, Next PROVE StoreTypes'
<1> USE DEF StoreTypes
<1>1. CASE \E w \in Workers : SaveStep(w)
    <2> PICK w \in Workers : SaveStep(w)
        BY <1>1
    <2> PICK s \in Sessions : s = Session(w)
        BY SessionType
    <2>1. transcript' \in [Sessions -> Files(Transcripts, Writers)]
        BY SaveFile
    <2> QED BY <2>1 DEF SaveStep, agentVars
<1>2. CASE \E w \in Workers : Restart(w)
    <2>1. transcript' \in [Sessions -> Files(Transcripts, Writers)]
        BY <1>2, ClosedFile DEF Restart, WritersDie
    <2>2. <<>> \in Transcripts
        BY DEF Transcripts
    <2> QED BY <1>2, <2>1, <2>2 DEF Restart
<1>4. UNCHANGED storeVars \/ \E w \in Workers : SaveStep(w) \/ Restart(w)
    BY StoreCases
<1>5. resume' \in [Workers -> Sessions \cup {NoSession}]
    <2>1. CASE \E w \in Workers : Restarts(w)
        BY <2>1 DEF Restarts, NewChat, Resume, Starts
    <2>2. CASE ~\E w \in Workers : Restarts(w)
        BY <2>2, NextCases DEF Drain, Stop, Submit, Respond, Restart, Quiet, Load,
           Leave, SaveStep, TakePrompt, Ask, ShowRequest, Unparks, Report, Boot,
           EndTurn, agentVars
    <2> QED BY <2>1, <2>2
<1>6. CASE /\ UNCHANGED storeVars
           /\ talk' \in [Workers -> Transcripts] /\ unread' \subseteq Sessions
    BY <1>5, <1>6 DEF storeVars
<1>7. CASE UNCHANGED storeVars
    <2>1. CASE \E w \in Workers : Load(w)
        <3> PICK w \in Workers : Load(w)
            BY <2>1
        <3>1. resume[w] # NoSession => /\ resume[w] \in Sessions
                                       /\ Loaded(resume[w]) \in Transcripts
            BY LoadedType
        <3>2. <<>> \in Transcripts
            BY DEF Transcripts
        <3> QED BY <1>6, <1>7, <3>1, <3>2 DEF Load
    <2>2. CASE \E w \in Workers : TakePrompt(w)
        <3> PICK w \in Workers : TakePrompt(w)
            BY <2>2
        <3>1. Head(inbox[w]) \in Turns
            BY HeadTailProperties DEF TakePrompt, Types, Turns
        <3>2. Append(talk[w], Head(inbox[w])) \in Transcripts
            BY <3>1, AppendProperties DEF Transcripts
        <3> QED BY <1>6, <1>7, <3>2 DEF TakePrompt
    <2>3. CASE \E w \in Workers : Leave(w)
        <3>1. <<>> \in Transcripts
            BY DEF Transcripts
        <3> QED BY <1>6, <1>7, <2>3, <3>1 DEF Leave
    <2>4. CASE \E w \in Workers, ev \in {"terminal", "error"} : EndTurn(w, ev)
        <3>1. \A w \in Workers : \A n : FoldFirst(n, talk[w]) \in Transcripts
            BY FoldedType
        <3> QED BY <1>6, <1>7, <2>4, <3>1 DEF EndTurn
    <2>5. CASE UNCHANGED <<talk, unread>>
        BY <1>6, <1>7, <2>5
    <2> QED BY <1>2, <2>1, <2>2, <2>3, <2>4, <2>5, NextCases DEF Drain, Stop, Submit,
           Respond, Restarts, NewChat, Resume, Starts, Quiet, SaveStep, Ask,
           ShowRequest, Unparks, Report, Boot, agentVars
<1> QED BY <1>1, <1>2, <1>4, <1>7

LEMMA RestartClosed ==
    ASSUME Types, StoreTypes, OpenFiles, NEW w \in Workers, Restart(w)
    PROVE  /\ \A s \in Sessions : transcript'[s].path = transcript[s].path
           /\ \A s \in Sessions, v \in Workers : transcript'[s].on[v] = "none"
<1> DEFINE D == {v \in Workers : Alive(v)}
<1>1. \A v \in Workers : v \notin D => stage[v] # "filling"
    BY DEF Alive
<1> SUFFICES ASSUME NEW s \in Sessions
             PROVE  /\ transcript'[s].path = transcript[s].path
                    /\ \A v \in Workers : transcript'[s].on[v] = "none"
    OBVIOUS
<1>2. /\ transcript'[s] = Closed(transcript[s], D)
      /\ transcript[s] \in Files(Transcripts, Writers)
    BY DEF Restart, WritersDie, StoreTypes
<1> HIDE DEF D
<1>3. /\ transcript'[s].path = transcript[s].path
      /\ \A v \in Writers : transcript'[s].on[v] =
            IF v \in D THEN "none" ELSE transcript[s].on[v]
    BY <1>2, ClosedFile
<1>4. \A v \in Workers : v \notin D => transcript[s].on[v] = "none"
    BY <1>1 DEF OpenFiles
<1> QED BY <1>3, <1>4 DEF Workers

LEMMA OpenFilesStep ==
    ASSUME Types, StoreTypes, OpenFiles, Next PROVE OpenFiles'
<1>1. CASE \E w \in Workers : SaveStep(w)
    <2> PICK w \in Workers : SaveStep(w)
        BY <1>1
    <2> PICK s \in Sessions : s = Session(w)
        BY SessionType
    <2>1. /\ \A v \in Workers \ {w} : stage'[v] = stage[v]
          /\ \A v \in Workers : v \in Writers /\ Session(v)' = Session(v)
        BY SaveCases DEF Workers
    <2>2. /\ \A t \in Sessions \ {s} : transcript'[t] = transcript[t]
          /\ \A v \in Writers : transcript'[s].on[v] # "none" =>
               \/ v = w /\ stage'[w] = "filling"
               \/ v # w /\ transcript[s].on[v] # "none"
        BY SaveFile
    <2> QED BY <2>1, <2>2 DEF OpenFiles
<1>2. CASE \E w \in Workers : Restart(w)
    BY <1>2, RestartClosed DEF OpenFiles
<1>3. CASE /\ UNCHANGED storeVars
           /\ \A v \in Workers :
                /\ stage[v] # "absent" => stage'[v] # "absent" /\ resume'[v] = resume[v]
                /\ \/ stage'[v] = stage[v]
                   \/ stage[v] \notin Storing /\ stage'[v] \notin Storing
    BY <1>3 DEF OpenFiles, Storing, storeVars, Session
<1> QED BY <1>1, <1>2, <1>3, StoreCases
-----------------------------------------------------------------------------
(***************************************************************************)
(* The rest of TypeOK: a request is only asked for a prompt.               *)
(***************************************************************************)
AsksReal(q) == \A i \in 1..Len(q) : q[i].ev = "ask" => q[i].of \in Prompts

WindowTypes ==
    /\ cards \subseteq Prompts /\ listed \subseteq Sessions
    /\ sent \in Prompts \cup {NoPrompt}
    /\ \A w \in Workers : AsksReal(outbox[w])
WorkerTypes ==
    /\ stop \in [Workers -> BOOLEAN] /\ asked \in [Workers -> BOOLEAN]
    /\ \A w \in Workers : reply[w] # "none" => stage[w] \in {"asking", "parked"}
    /\ \A w \in Workers : stage[w] \in InTurn => now[w] \in Prompts

LEMMA AsksSent ==
    ASSUME NEW q \in Seq(Events), NEW e \in Events, AsksReal(q),
           e.ev = "ask" => e.of \in Prompts
    PROVE  AsksReal(Append(q, e))
<1> DEFINE r == Append(q, e)
<1>1. /\ Len(r) = Len(q) + 1 /\ Len(q) \in Nat
      /\ \A i \in 1..Len(q) : r[i] = q[i]
      /\ r[Len(q) + 1] = e
    BY AppendProperties
<1> HIDE DEF r
<1>2. \A i \in 1..Len(r) : i \in 1..Len(q) \/ i = Len(q) + 1
    BY <1>1
<1> QED BY <1>1, <1>2 DEF AsksReal, r

LEMMA AsksDrained ==
    ASSUME NEW q \in Seq(Events), q # <<>>, AsksReal(q)
    PROVE  AsksReal(Tail(q)) /\ (Head(q).ev = "ask" => Head(q).of \in Prompts)
<1> DEFINE r == Tail(q)
<1>1. /\ Head(q) = q[1] /\ Len(r) = Len(q) - 1 /\ Len(q) \in Nat \ {0}
      /\ \A i \in 1..Len(r) : r[i] = q[i + 1]
    BY HeadTailProperties
<1> HIDE DEF r
<1>2. 1 \in 1..Len(q) /\ \A i \in 1..Len(r) : i + 1 \in 1..Len(q)
    BY <1>1
<1> QED BY <1>1, <1>2 DEF AsksReal, r

LEMMA AsksNothing == AsksReal(<<>>)
BY DEF AsksReal

LEMMA SendsAsks ==
    ASSUME Types, WindowTypes, NEW w \in Workers,
           NEW ev \in {"error", "terminal", "ask", "saved"},
           NEW p \in Prompts \cup {NoPrompt}, ev = "ask" => p \in Prompts,
           Sends(w, ev, p)
    PROVE  \A v \in Workers : AsksReal(outbox'[v])
<1>1. /\ Event(ev, p) \in Events
      /\ Event(ev, p).ev = "ask" => Event(ev, p).of \in Prompts
    BY DEF Event, Events
<1>2. outbox[w] \in Seq(Events) /\ AsksReal(outbox[w])
    BY DEF Types, WindowTypes
<1>3. AsksReal(Append(outbox[w], Event(ev, p)))
    BY <1>1, <1>2, AsksSent
<1> QED BY <1>3 DEF Sends, Types, WindowTypes

LEMMA WindowTypesStep ==
    ASSUME Types, WindowTypes, WorkerTypes, Next PROVE WindowTypes'
<1> USE DEF WindowTypes, uiVars, channelVars
<1>1. CASE Drain
    <2>1. /\ outbox[cur] # <<>> /\ outbox[cur] \in Seq(Events) /\ cur \in Workers
          /\ AsksReal(outbox[cur])
        BY <1>1 DEF Drain, Types
    <2>2. /\ AsksReal(Tail(outbox[cur]))
          /\ Head(outbox[cur]).ev = "ask" => Head(outbox[cur]).of \in Prompts
        BY <2>1, AsksDrained
    <2>3. \A v \in Workers : AsksReal(outbox'[v])
        BY <1>1, <2>2 DEF Drain, Types
    <2> QED BY <1>1, <2>2, <2>3 DEF Drain, List
<1>2. CASE Stop \/ \E p \in Prompts : Submit(p) \/ Respond(p)
    BY <1>2 DEF Stop, Submit, Respond
<1>3. CASE \E w \in Workers : Restarts(w) \/ Restart(w)
    <2>1. \A v \in Workers : outbox'[v] = outbox[v] \/ outbox'[v] = <<>>
        BY <1>3 DEF Restarts, NewChat, Resume, Starts, Restart, Types
    <2>2. \A v \in Workers : AsksReal(outbox'[v])
        BY <2>1, AsksNothing
    <2> QED BY <1>3, <2>2 DEF Restarts, NewChat, Resume, Starts, Restart, List
<1>4. CASE \E w \in Workers : Quiet(w)
    BY <1>4 DEF Quiet, Load, Leave, SaveStep
<1>5. CASE \E w \in Workers : TakePrompt(w) \/ Ask(w) \/ Unparks(w)
    BY <1>5 DEF TakePrompt, Ask, Unparks
<1>6. CASE \E w \in Workers : ShowRequest(w)
    <2> PICK w \in Workers : ShowRequest(w)
        BY <1>6
    <2>1. now[w] \in Prompts
        BY DEF ShowRequest, Moves, InTurn, WorkerTypes
    <2> QED BY <2>1, SendsAsks DEF ShowRequest
<1>7. CASE \E w \in Workers : Report(w)
    BY <1>7, SendsAsks DEF Report
<1>8. CASE \E w \in Workers, o \in {"ok", "unconfigured", "failed"} : Boot(w, o)
    BY <1>8, SendsAsks DEF Boot
<1>9. CASE \E w \in Workers, ev \in {"terminal", "error"} : EndTurn(w, ev)
    BY <1>9, SendsAsks DEF EndTurn
<1> QED BY <1>1, <1>2, <1>3, <1>4, <1>5, <1>6, <1>7, <1>8, <1>9, NextCases

LEMMA WorkerTypesStep ==
    ASSUME Types, WorkerTypes, Next PROVE WorkerTypes'
<1> USE DEF WorkerTypes, Types, Moves, InTurn, channelVars, agentVars
<1>1. CASE Drain \/ Stop
    BY <1>1 DEF Drain, Stop
<1>2. CASE \E p \in Prompts : Submit(p)
    BY <1>2 DEF Submit
<1>3. CASE \E p \in Prompts : Respond(p)
    BY <1>3 DEF Respond
<1>4. CASE \E w \in Workers : Restarts(w)
    BY <1>4 DEF Restarts, NewChat, Resume, Starts
<1>5. CASE \E w \in Workers : Restart(w)
    BY <1>5 DEF Restart, Alive
<1>6. CASE \E w \in Workers : Load(w) \/ Leave(w)
    BY <1>6 DEF Load, Leave
<1>7. CASE \E w \in Workers : SaveStep(w)
    <2> PICK w \in Workers : SaveStep(w)
        BY <1>7
    <2>1. /\ UNCHANGED <<stop, asked, reply, now>>
          /\ \A v \in Workers \ {w} : stage'[v] = stage[v]
          /\ stage[w] \notin InTurn /\ stage'[w] \notin InTurn
        BY SaveCases
    <2> QED BY <2>1
<1>8. CASE \E w \in Workers : TakePrompt(w)
    <2> PICK w \in Workers : TakePrompt(w)
        BY <1>8
    <2>1. Head(inbox[w]) \in Prompts
        BY HeadTailProperties DEF TakePrompt
    <2>2. /\ stage[w] = "idle" /\ stage' = [stage EXCEPT ![w] = "turn"]
          /\ now' = [now EXCEPT ![w] = Head(inbox[w])]
          /\ stop' = [stop EXCEPT ![w] = FALSE] /\ UNCHANGED <<asked, reply>>
        BY DEF TakePrompt
    <2> QED BY <2>1, <2>2
<1>9. CASE \E w \in Workers : Ask(w)
    BY <1>9 DEF Ask
<1>10. CASE \E w \in Workers : Unparks(w)
    BY <1>10 DEF Unparks
<1>11. CASE \E w \in Workers : ShowRequest(w) \/ Report(w)
    BY <1>11 DEF ShowRequest, Report
<1>12. CASE \E w \in Workers, o \in {"ok", "unconfigured", "failed"} : Boot(w, o)
    BY <1>12 DEF Boot
<1>13. CASE \E w \in Workers, ev \in {"terminal", "error"} : EndTurn(w, ev)
    BY <1>13 DEF EndTurn
<1> QED BY <1>1, <1>2, <1>3, <1>4, <1>5, <1>6, <1>7, <1>8, <1>9, <1>10, <1>11,
           <1>12, <1>13, NextCases DEF Quiet
-----------------------------------------------------------------------------
(***************************************************************************)
(* Saved turns, when a session a worker is busy with is not resumed.  A    *)
(* worker is live while it may still save; a session has one at most, what *)
(* it has in its agent continues the file, and only it writes the file.    *)
(***************************************************************************)
Live(w) == Alive(w) /\ (w = cur \/ Busy(w))
Starting == {"absent", "booting", "loading"}

Owned ==
    /\ \A w \in Workers : stage[w] = "absent" => resume[w] = NoSession
    /\ \A w \in Workers : stage[w] # "absent" => stage[Session(w)] # "absent"
    /\ \A s \in Sessions :
         transcript[s].path # Absent \/ s \in listed => stage[s] # "absent"
    /\ \A v, w \in Workers : Live(v) /\ Live(w) /\ Session(v) = Session(w) => v = w

Fresh ==
    \A w \in Workers : stage[w] \in Starting /\ resume[w] = NoSession =>
                         transcript[w].path = Absent

Continues(q, s) ==
    Parses(transcript[s]) => s \in unread \/ Extends(q, transcript[s].path.of)
Kept ==
    \A w \in Workers : Live(w) /\ stage[w] \notin Starting =>
        LET f == transcript[Session(w)]
        IN  /\ Continues(talk[w], Session(w))
            /\ stage[w] = "filling" => f.on[w] = "tmp" /\ f.tmp = Empty
            /\ stage[w] = "rename" => f.tmp = Whole(talk[w])

LEMMA ExtendsItself == ASSUME NEW q \in Transcripts PROVE Extends(q, q)
BY DEF Extends, Transcripts

LEMMA ExtendsMore ==
    ASSUME NEW q \in Transcripts, NEW old \in Transcripts, NEW p \in Prompts,
           Extends(q, old)
    PROVE  Extends(Append(q, p), old)
<1> DEFINE r == Append(q, p)
<1>1. p \in Turns
    BY DEF Turns
<1>2. /\ Len(r) = Len(q) + 1 /\ Len(q) \in Nat /\ Len(old) \in Nat
      /\ \A i \in 1..Len(q) : r[i] = q[i]
    BY <1>1, AppendProperties DEF Transcripts
<1> HIDE DEF r
<1>3. Len(old) <= Len(r) /\ \A i \in 1..Len(old) : i \in 1..Len(q)
    BY <1>2 DEF Extends
<1> QED BY <1>2, <1>3 DEF Extends, r

LEMMA ExtendsFolded ==
    ASSUME NEW q \in Transcripts, NEW old \in Transcripts, NEW n, Extends(q, old)
    PROVE  Extends(FoldFirst(n, q), old)
<1>1. /\ Len(FoldFirst(n, q)) = Len(q) /\ Len(q) \in Nat /\ Len(old) \in Nat
      /\ \A i \in 1..Len(q) : FoldFirst(n, q)[i] \in {q[i], Folded}
    BY FoldedType DEF Transcripts
<1>2. \A i \in 1..Len(old) : i \in 1..Len(q)
    BY <1>1 DEF Extends
<1> QED BY <1>1, <1>2 DEF Extends

\* A transcript that goes on from the saved one still does with one more prompt,
\* and when its older turns are folded.
LEMMA ContinuesMore ==
    ASSUME StoreTypes, NEW q \in Transcripts, NEW s \in Sessions, Continues(q, s)
    PROVE  /\ \A p \in Prompts : Continues(Append(q, p), s)
           /\ \A n : Continues(FoldFirst(n, q), s)
<1> SUFFICES ASSUME Parses(transcript[s]), s \notin unread
             PROVE  /\ \A p \in Prompts : Extends(Append(q, p), transcript[s].path.of)
                    /\ \A n : Extends(FoldFirst(n, q), transcript[s].path.of)
    BY DEF Continues
<1>1. transcript[s].path \in [is : {"whole"}, of : Transcripts]
    BY DEF StoreTypes, Files, Contents, Parses
<1>2. transcript[s].path.of \in Transcripts /\ Extends(q, transcript[s].path.of)
    BY <1>1 DEF Continues
<1> QED BY <1>2, ExtendsMore, ExtendsFolded

\* All steps but a save, a new conversation and a restart.
Elsewhere == ~\E w \in Workers : SaveStep(w) \/ Restarts(w) \/ Restart(w)

LEMMA ElsewhereFrame ==
    ASSUME Types, StoreTypes, Next, Elsewhere
    PROVE  /\ UNCHANGED <<storeVars, resume, cur>> /\ unread \subseteq unread'
           /\ listed' \subseteq listed \cup List
           /\ \A v \in Workers : stage'[v] = "absent" <=> stage[v] = "absent"
           /\ \A v \in Workers : stage'[v] \in Starting => stage[v] \in Starting
           /\ \A v \in Workers : Live(v)' => Live(v)
           /\ \A v \in Workers : stage'[v] \in {"filling", "rename"} =>
                                   stage'[v] = stage[v]
           /\ \A v \in Workers :
                \/ talk'[v] = talk[v] /\ (stage[v] \in Starting =>
                                            stage'[v] \in Starting \cup {"gone"})
                \/ stage'[v] = "gone"
                \/ \E p \in Prompts : /\ stage[v] = "idle" /\ stage'[v] = "turn"
                                      /\ talk'[v] = Append(talk[v], p)
                \/ \E n : /\ stage[v] = "turn" /\ stage'[v] = "save"
                          /\ talk'[v] = FoldFirst(n, talk[v])
                \/ Load(v)
<1> USE DEF Types, Moves, Starting, Live, Alive, Busy, InTurn
<1>1. CASE Drain \/ Stop
    BY <1>1 DEF Drain, Stop, uiVars, agentVars
<1>2. CASE \E p \in Prompts : Submit(p)
    BY <1>2 DEF Submit, uiVars, agentVars
<1>3. CASE \E p \in Prompts : Respond(p)
    BY <1>3 DEF Respond, uiVars, agentVars
<1>4. CASE \E w \in Workers : Load(w)
    <2> PICK w \in Workers : Load(w)
        BY <1>4
    <2>1. /\ stage[w] = "loading" /\ stage' = [stage EXCEPT ![w] = "idle"]
          /\ UNCHANGED <<storeVars, resume, cur, listed, inbox>>
          /\ \A v \in Workers \ {w} : talk'[v] = talk[v]
          /\ unread \subseteq unread'
        BY DEF Load, uiVars, channelVars, StoreTypes
    <2> QED BY <2>1
<1>5. CASE \E w \in Workers : Leave(w)
    <2> PICK w \in Workers : Leave(w)
        BY <1>5
    <2>1. /\ stage[w] = "idle" /\ stage' = [stage EXCEPT ![w] = "gone"]
          /\ UNCHANGED <<storeVars, resume, cur, listed, inbox, unread>>
          /\ \A v \in Workers \ {w} : talk'[v] = talk[v]
        BY DEF Leave, uiVars, channelVars, StoreTypes
    <2> QED BY <2>1
<1>6. CASE \E w \in Workers : TakePrompt(w)
    <2> PICK w \in Workers : TakePrompt(w)
        BY <1>6
    <2>1. Head(inbox[w]) \in Prompts
        BY HeadTailProperties DEF TakePrompt
    <2>2. /\ stage[w] = "idle" /\ stage' = [stage EXCEPT ![w] = "turn"]
          /\ UNCHANGED <<storeVars, resume, cur, listed, unread>> /\ inbox[w] # <<>>
          /\ \A v \in Workers \ {w} : talk'[v] = talk[v] /\ inbox'[v] = inbox[v]
          /\ talk'[w] = Append(talk[w], Head(inbox[w]))
        BY DEF TakePrompt, uiVars, StoreTypes
    <2> QED BY <2>1, <2>2
<1>7. CASE \E w \in Workers : Ask(w) \/ ShowRequest(w) \/ Unparks(w) \/ Report(w)
    <2> PICK w \in Workers : Ask(w) \/ ShowRequest(w) \/ Unparks(w) \/ Report(w)
        BY <1>7
    <2>1. /\ stage[w] \in {"turn", "asking", "parked", "report"}
          /\ \A v \in Workers \ {w} : stage'[v] = stage[v]
          /\ stage'[w] \in {"turn", "asking", "parked", "idle"}
          /\ UNCHANGED <<storeVars, resume, cur, listed, inbox, talk, unread>>
        BY DEF Ask, ShowRequest, Unparks, Report, uiVars, agentVars
    <2> QED BY <2>1
<1>8. CASE \E w \in Workers, o \in {"ok", "unconfigured", "failed"} : Boot(w, o)
    <2> PICK w \in Workers, o \in {"ok", "unconfigured", "failed"} : Boot(w, o)
        BY <1>8
    <2>1. /\ stage[w] = "booting" /\ stage'[w] \in {"gone", "loading"}
          /\ \A v \in Workers \ {w} : stage'[v] = stage[v] /\ inbox'[v] = inbox[v]
          /\ UNCHANGED <<storeVars, resume, cur, listed, talk, unread>>
        BY DEF Boot, uiVars
    <2> QED BY <2>1
<1>9. CASE \E w \in Workers, ev \in {"terminal", "error"} : EndTurn(w, ev)
    <2> PICK w \in Workers, ev \in {"terminal", "error"} : EndTurn(w, ev)
        BY <1>9
    <2>1. /\ stage[w] = "turn" /\ stage'[w] = "save"
          /\ \A v \in Workers \ {w} : stage'[v] = stage[v] /\ talk'[v] = talk[v]
          /\ UNCHANGED <<storeVars, resume, cur, listed, inbox, unread>>
          /\ \E n : talk'[w] = FoldFirst(n, talk[w])
        BY DEF EndTurn, uiVars, StoreTypes
    <2> QED BY <2>1
<1> QED BY <1>1, <1>2, <1>3, <1>4, <1>5, <1>6, <1>7, <1>8, <1>9, NextCases
        DEF Elsewhere, Quiet

LEMMA StartFrame ==
    ASSUME Types, StoreTypes, Begun, NEW w \in Workers, Restarts(w) \/ Restart(w)
    PROVE  /\ stage[w] = "absent" /\ stage'[w] = "booting" /\ cur' = w
           /\ \A v \in Workers \ {w} : /\ resume'[v] = resume[v]
                                       /\ stage[v] = "absent" <=> stage'[v] = "absent"
                                       /\ stage'[v] \in {stage[v], "gone"}
           /\ \A v \in Workers \ {w} : Live(v)' => Busy(v) /\ stage'[v] = stage[v]
           /\ listed' \in {listed, List}
<1>1. w = cur + 1 /\ w # cur /\ w > cur
    BY GuiSessionAssumption DEF Restarts, NewChat, Resume, Starts, Restart, Types, Workers
<1>2. CASE Restarts(w)
    <2>1. /\ stage[w] = "absent" /\ stage' = [stage EXCEPT ![w] = "booting"]
          /\ cur' = w /\ UNCHANGED <<inbox, listed>>
          /\ \A v \in Workers \ {w} : resume'[v] = resume[v]
        BY <1>2 DEF Restarts, NewChat, Resume, Starts, Moves, StoreTypes
    <2> QED BY <2>1 DEF Types, Live, Alive, Busy
<1>3. CASE Restart(w)
    <2>1. stage[w] = "absent"
        BY <1>1 DEF Begun
    <2>2. /\ cur' = w /\ UNCHANGED resume /\ listed' = List /\ stage'[w] = "booting"
          /\ \A v \in Workers \ {w} :
               stage'[v] = IF Alive(v) THEN "gone" ELSE stage[v]
        BY <1>3 DEF Restart
    <2> QED BY <2>1, <2>2 DEF Live, Alive, Busy
<1> QED BY <1>2, <1>3
LEMMA ListIsThere == ASSUME NEW s \in List PROVE s \in Sessions /\ transcript[s].path # Absent
BY DEF List, Parses

\* Where a transcript changes: in the save of the one worker that is live on it.
LEMMA TranscriptSteps ==
    ASSUME Types, StoreTypes, OpenFiles, NEW w \in Workers, SaveStep(w)
    PROVE  \A s \in Sessions \ {Session(w)} : transcript'[s] = transcript[s]
BY SessionType, SaveFile

LEMMA LiveSaver ==
    ASSUME NEW w \in Workers, SaveStep(w), Types
    PROVE  /\ Live(w) /\ Live(w)' /\ stage[w] \notin Starting /\ stage'[w] \notin Starting
           /\ stage'[w] # "absent"
           /\ \A v \in Workers : Live(v)' = Live(v)
           /\ UNCHANGED <<resume, cur, listed, talk, unread>>
<1>1. /\ stage[w] \in Saving /\ stage'[w] \in Saving
      /\ UNCHANGED <<cur, inbox, resume, listed, talk, unread>>
      /\ \A v \in Workers \ {w} : stage'[v] = stage[v]
    BY SaveCases DEF Saving, uiVars, channelVars, agentVars
<1>2. \A x \in Saving : x \notin Starting \cup {"idle", "absent", "gone"}
    BY DEF Saving, Starting
<1> QED BY <1>1, <1>2 DEF Live, Alive, Busy

LEMMA OwnedStep ==
    ASSUME ResumeBusy = FALSE, Types, Begun, StoreTypes, OpenFiles, Owned, Next
    PROVE  Owned'
<1>0. /\ \A w \in Workers : w # 0 /\ w \in Sessions
      /\ \A s \in Sessions : s \in Workers
    BY GuiSessionAssumption DEF Workers, Sessions
<1>1. CASE \E w \in Workers : SaveStep(w)
    <2> PICK w \in Workers : SaveStep(w)
        BY <1>1
    <2>1. /\ stage[w] # "absent" /\ stage'[w] # "absent"
          /\ \A v \in Workers \ {w} : stage'[v] = stage[v]
          /\ \A v \in Workers : Live(v)' = Live(v) /\ Session(v)' = Session(v)
          /\ UNCHANGED <<resume, listed>>
        BY LiveSaver, SaveCases DEF Starting
    <2>2. \A s \in Sessions \ {Session(w)} : transcript'[s] = transcript[s]
        BY TranscriptSteps
    <2>3. stage[Session(w)] # "absent"
        BY <2>1 DEF Owned
    <2>4. \A v \in Workers : stage'[v] = "absent" <=> stage[v] = "absent"
        BY <2>1
    <2> QED BY <1>0, <2>1, <2>2, <2>3, <2>4, SessionType DEF Owned
<1>2. CASE Elsewhere
    <2>1. /\ \A v \in Workers : Session(v)' = Session(v)
          /\ UNCHANGED <<transcript, resume>>
          /\ listed' \subseteq listed \cup List
          /\ \A v \in Workers : stage'[v] = "absent" <=> stage[v] = "absent"
          /\ \A v \in Workers : Live(v)' => Live(v)
        BY <1>2, ElsewhereFrame DEF Session, storeVars
    <2>2. \A s \in listed' : s \in Sessions => stage[s] # "absent"
        BY <2>1, ListIsThere DEF Owned
    <2> QED BY <1>0, <2>1, <2>2, SessionType DEF Owned
<1>3. CASE \E w \in Workers : Restarts(w) \/ Restart(w)
    <2> PICK w \in Workers : Restarts(w) \/ Restart(w)
        BY <1>3
    <2>1. /\ stage[w] = "absent" /\ stage'[w] = "booting" /\ cur' = w
          /\ \A v \in Workers \ {w} : /\ resume'[v] = resume[v]
                                      /\ stage[v] = "absent" <=> stage'[v] = "absent"
          /\ \A v \in Workers \ {w} : Live(v)' => Busy(v)
          /\ listed' \in {listed, List} /\ resume[w] = NoSession
        BY StartFrame DEF Owned
    <2>2. \A s \in Sessions : transcript'[s].path = transcript[s].path
        BY RestartClosed DEF Restarts, NewChat, Resume, storeVars
    <2>3. \A s \in Sessions : s \in listed' => stage[s] # "absent"
        BY <2>1, ListIsThere DEF Owned
    <2>4. \A v \in Workers \ {w} : Session(v)' = Session(v)
        BY <2>1 DEF Session
    <2>5. \/ resume'[w] = NoSession
          \/ /\ resume'[w] \in listed /\ resume'[w] \in Sessions
             /\ \A v \in Workers : Busy(v) => Session(v) # resume'[w]
        <3>1. CASE Restart(w) \/ NewChat(w)
            BY <2>1, <3>1 DEF Restart, NewChat, Starts, StoreTypes
        <3>2. CASE \E s \in Sessions : Resume(w, s)
            BY <3>2 DEF Resume, Starts, StoreTypes
        <3> QED BY <3>1, <3>2 DEF Restarts
    <2>6. /\ Session(w)' \in Sessions /\ stage'[Session(w)'] # "absent"
          /\ \A v \in Workers \ {w} : Busy(v) => Session(v) # Session(w)'
        <3>1. CASE resume'[w] = NoSession
            <4>1. Session(w)' = w
                BY <3>1 DEF Session
            <4>2. \A v \in Workers \ {w} : Busy(v) => stage[Session(v)] # "absent"
                BY DEF Owned, Busy, Alive
            <4> QED BY <1>0, <2>1, <4>1, <4>2
        <3>2. CASE /\ resume'[w] \in listed /\ resume'[w] \in Sessions
                   /\ \A v \in Workers : Busy(v) => Session(v) # resume'[w]
            <4>1. resume'[w] # NoSession /\ Session(w)' = resume'[w]
                BY <1>0, <3>2 DEF Session, NoSession
            <4>2. stage[resume'[w]] # "absent"
                BY <3>2 DEF Owned
            <4> QED BY <1>0, <2>1, <3>2, <4>1, <4>2
        <3> QED BY <2>5, <3>1, <3>2
    <2>7. \A v \in Workers : stage'[v] = "absent" => resume'[v] = NoSession
        BY <2>1 DEF Owned
    <2>8. \A v \in Workers : stage'[v] # "absent" => stage'[Session(v)'] # "absent"
        BY <1>0, <2>1, <2>4, <2>6, SessionType DEF Owned
    <2>9. \A s \in Sessions : transcript'[s].path # Absent \/ s \in listed' =>
                                stage'[s] # "absent"
        BY <1>0, <2>1, <2>2, <2>3 DEF Owned
    <2>10. ASSUME NEW u \in Workers, NEW v \in Workers, Live(u)', Live(v)',
                  Session(u)' = Session(v)'
           PROVE  u = v
        <3>1. CASE u # w /\ v # w
            <4>1. Live(u) /\ Live(v) /\ Session(u) = Session(v)
                BY <2>1, <2>4, <2>10, <3>1 DEF Live, Busy
            <4> QED BY <4>1 DEF Owned
        <3>2. CASE u = w \/ v = w
            BY <2>1, <2>4, <2>6, <2>10, <3>2
        <3> QED BY <3>1, <3>2
    <2> QED BY <2>7, <2>8, <2>9, <2>10 DEF Owned
<1> QED BY <1>1, <1>2, <1>3 DEF Elsewhere
\* A worker that starts is live, and one that is absent has no session in use:
\* nobody else saves the session it would begin.
LEMMA NobodyElse ==
    ASSUME Owned, Types, NEW v \in Workers, NEW w \in Workers, SaveStep(w),
           stage[v] \in Starting, resume[v] = NoSession
    PROVE  Session(w) # v
<1>1. Live(w) /\ stage[w] \notin Starting
    BY LiveSaver
<1>2. stage[Session(w)] # "absent"
    BY <1>1 DEF Owned, Live, Alive
<1>3. CASE stage[v] = "absent"
    BY <1>2, <1>3
<1>4. CASE stage[v] # "absent"
    <2>1. Live(v) /\ Session(v) = v
        BY <1>4 DEF Starting, Live, Alive, Busy, Session
    <2> QED BY <1>1, <2>1 DEF Owned
<1> QED BY <1>3, <1>4

LEMMA FreshStep ==
    ASSUME Types, Begun, StoreTypes, OpenFiles, Owned, Fresh, Next PROVE Fresh'
<1>0. \A w \in Workers : w \in Sessions
    BY DEF Workers, Sessions
<1>1. CASE \E w \in Workers : SaveStep(w)
    <2> PICK w \in Workers : SaveStep(w)
        BY <1>1
    <2>1. ASSUME NEW v \in Workers, stage'[v] \in Starting, resume'[v] = NoSession
          PROVE  transcript'[v].path = Absent
        <3>1. stage[v] \in Starting /\ resume[v] = NoSession
            BY <2>1, LiveSaver, SaveCases
        <3>2. transcript'[v] = transcript[v]
            BY <1>0, <3>1, NobodyElse, TranscriptSteps
        <3> QED BY <3>1, <3>2 DEF Fresh
    <2> QED BY <2>1 DEF Fresh
<1>2. CASE Elsewhere
    BY <1>2, ElsewhereFrame DEF Fresh, storeVars
<1>3. CASE \E w \in Workers : Restarts(w) \/ Restart(w)
    <2> PICK w \in Workers : Restarts(w) \/ Restart(w)
        BY <1>3
    <2>1. \A s \in Sessions : transcript'[s].path = transcript[s].path
        BY RestartClosed DEF Restarts, NewChat, Resume, storeVars
    <2>2. /\ stage[w] = "absent"
          /\ \A v \in Workers \ {w} : /\ resume'[v] = resume[v]
                                      /\ stage'[v] \in {stage[v], "gone"}
        BY StartFrame
    <2>3. resume[w] = NoSession /\ transcript[w].path = Absent
        BY <2>2 DEF Owned, Fresh, Starting
    <2> QED BY <1>0, <2>1, <2>2, <2>3 DEF Fresh, Starting
<1> QED BY <1>1, <1>2, <1>3 DEF Elsewhere

LEMMA KeptStep ==
    ASSUME ResumeBusy = FALSE, Types, Begun, StoreTypes, OpenFiles, Owned, Fresh, Kept,
           Next
    PROVE  Kept'
<1>1. CASE \E w \in Workers : SaveStep(w)
    <2> PICK w \in Workers : SaveStep(w)
        BY <1>1
    <2> PICK s \in Sessions : s = Session(w)
        BY SessionType
    <2>1. /\ Live(w) /\ stage[w] \notin Starting /\ UNCHANGED <<talk, unread>>
          /\ \A v \in Workers : Live(v)' = Live(v) /\ Session(v)' = Session(v)
          /\ \A v \in Workers \ {w} : stage'[v] = stage[v]
          /\ talk[w] \in Transcripts
        BY LiveSaver, SaveCases DEF StoreTypes
    <2>2. \A v \in Workers \ {w} : Live(v) => transcript'[Session(v)] = transcript[Session(v)]
        BY <2>1, TranscriptSteps, SessionType DEF Owned
    <2>3. /\ Continues(talk[w], s)
          /\ stage[w] = "filling" => transcript[s].on[w] = "tmp" /\ transcript[s].tmp = Empty
          /\ stage[w] = "rename" => transcript[s].tmp = Whole(talk[w])
        BY <2>1 DEF Kept
    <2>4. SavedFile(w, transcript[s], transcript'[s])
        BY SaveFile
    <2>5. Continues(talk[w], s)'
        <3>1. CASE transcript'[s].path = transcript[s].path
            BY <2>1, <2>3, <3>1 DEF Continues, Parses
        <3>2. CASE transcript'[s].path = Whole(talk[w])
            BY <2>1, <3>2, WholeIsReadable, ExtendsItself DEF Continues
        <3> QED BY <2>3, <2>4, <3>1, <3>2 DEF SavedFile
    <2>6. /\ stage'[w] = "filling" => transcript'[s].on[w] = "tmp" /\ transcript'[s].tmp = Empty
          /\ stage'[w] = "rename" => transcript'[s].tmp = Whole(talk[w])
        BY <2>3, <2>4 DEF SavedFile
    <2>7. ASSUME NEW v \in Workers, Live(v)', stage'[v] \notin Starting, v # w
          PROVE  LET f == transcript'[Session(v)']
                 IN  /\ Continues(talk[v], Session(v))'
                     /\ stage'[v] = "filling" => f.on[v] = "tmp" /\ f.tmp = Empty
                     /\ stage'[v] = "rename" => f.tmp = Whole(talk'[v])
        BY <2>1, <2>2, <2>7 DEF Kept, Continues, Parses
    <2> QED BY <2>1, <2>5, <2>6, <2>7 DEF Kept
<1>2. CASE Elsewhere
    <2>0. /\ UNCHANGED transcript /\ unread \subseteq unread'
          /\ \A v \in Workers : Session(v)' = Session(v)
        BY <1>2, ElsewhereFrame DEF Session, storeVars
    <2> SUFFICES ASSUME NEW v \in Workers, Live(v)', stage'[v] \notin Starting
                 PROVE  LET f == transcript[Session(v)]
                        IN  /\ Continues(talk'[v], Session(v)) \/ Session(v) \in unread'
                            /\ stage'[v] = "filling" => f.on[v] = "tmp" /\ f.tmp = Empty
                            /\ stage'[v] = "rename" => f.tmp = Whole(talk'[v])
        BY <2>0 DEF Kept, Continues, Parses
    <2>1. /\ Live(v) /\ stage'[v] # "gone" /\ Session(v) \in Sessions
          /\ stage'[v] \in {"filling", "rename"} => stage'[v] = stage[v]
        BY <1>2, ElsewhereFrame, SessionType DEF Live, Alive
    <2>2. CASE talk'[v] = talk[v] /\ stage[v] \notin Starting
        BY <2>1, <2>2 DEF Kept
    <2>3. CASE \/ \E p \in Prompts : /\ stage[v] = "idle" /\ stage'[v] = "turn"
                                     /\ talk'[v] = Append(talk[v], p)
               \/ \E n : /\ stage[v] = "turn" /\ stage'[v] = "save"
                         /\ talk'[v] = FoldFirst(n, talk[v])
        <3>1. Continues(talk[v], Session(v)) /\ talk[v] \in Transcripts
            BY <2>1, <2>3 DEF Kept, Starting, StoreTypes
        <3> QED BY <2>1, <2>3, <3>1, ContinuesMore
    <2>4. CASE Load(v)
        <3>1. stage[v] = "loading" /\ stage'[v] = "idle"
            BY <2>4 DEF Load, Moves, Types
        <3>2. CASE resume[v] = NoSession
            <4>1. Session(v) = v /\ transcript[v].path = Absent
                BY <3>1, <3>2 DEF Fresh, Starting, Session
            <4> QED BY <3>1, <4>1 DEF Continues, Parses
        <3>3. CASE resume[v] # NoSession
            <4>1. Session(v) = resume[v]
                BY <3>3 DEF Session
            <4>2. \/ Session(v) \in unread'
                  \/ Parses(transcript[Session(v)]) =>
                       talk'[v] = transcript[Session(v)].path.of
                BY <2>4, <3>3, <4>1 DEF Load, Loaded, StoreTypes
            <4>3. Parses(transcript[Session(v)]) =>
                    transcript[Session(v)].path.of \in Transcripts
                BY <2>1, LoadedType DEF Loaded
            <4> QED BY <3>1, <4>2, <4>3, ExtendsItself DEF Continues
        <3> QED BY <3>2, <3>3
    <2> QED BY <1>2, <2>1, <2>2, <2>3, <2>4, ElsewhereFrame
<1>3. CASE \E w \in Workers : Restart(w)
    <2>1. \A v \in Workers : Live(v)' => stage'[v] \in Starting
        BY <1>3, StartFrame DEF Restart, Live, Alive, Starting
    <2> QED BY <2>1 DEF Kept
<1>4. CASE \E w \in Workers : Restarts(w)
    <2> PICK w \in Workers : Restarts(w)
        BY <1>4
    <2>1. /\ stage'[w] = "booting" /\ UNCHANGED <<transcript, talk, unread>>
          /\ \A v \in Workers \ {w} : Live(v)' => Live(v) /\ stage'[v] = stage[v]
          /\ \A v \in Workers \ {w} : Session(v)' = Session(v)
        BY StartFrame DEF Restarts, NewChat, Resume, Starts, storeVars, Live, Busy,
                          Session
    <2> QED BY <2>1 DEF Kept, Starting, Continues, Parses
<1> QED BY <1>1, <1>2, <1>3, <1>4 DEF Elsewhere
-----------------------------------------------------------------------------
StoreInv == IInv /\ StoreTypes /\ OpenFiles /\ WindowTypes /\ WorkerTypes
SavedInv == Owned /\ Fresh /\ Kept

LEMMA StoreInitial == Init => StoreInv /\ SavedInv /\ ListedSessionsLoad
<1> SUFFICES ASSUME Init PROVE StoreInv /\ SavedInv /\ ListedSessionsLoad
    OBVIOUS
<1>0. IInv
    BY InitInvariant
<1>1. <<>> \in Transcripts /\ NewFile(Absent, Writers) \in Files(Transcripts, Writers)
    <2>1. \A C : Absent \in Contents(C)
        BY DEF Contents
    <2> QED BY <2>1 DEF NewFile, Files, Transcripts
<1>2. /\ \A w \in Writers : NewFile(Absent, Writers).on[w] = "none"
      /\ NewFile(Absent, Writers).path = Absent
    BY DEF NewFile
<1>3. \A s \in Sessions : transcript[s].path = Absent
    BY <1>2 DEF Init, StoreInit
<1>4. StoreTypes
    BY <1>1 DEF Init, StoreInit, StoreTypes
<1>5. OpenFiles
    BY <1>2 DEF Init, StoreInit, OpenFiles, Workers
<1>6. \A w \in Workers : stage[w] \in {"booting", "absent"} /\ stage[cur] # "absent"
    BY GuiSessionAssumption DEF Init, Workers
<1>7. WindowTypes /\ WorkerTypes
    BY <1>6, AsksNothing DEF Init, WindowTypes, WorkerTypes, InTurn, NoPrompt
<1>8. \A w \in Workers : resume[w] = NoSession /\ Session(w) = w
    BY DEF Init, Session
<1>9. Owned
    BY <1>3, <1>8 DEF Init, Owned
<1>10. Fresh /\ Kept
    BY <1>3, <1>6 DEF Fresh, Kept, Sessions, Workers, Starting
<1>11. ListedSessionsLoad
    BY DEF Init, ListedSessionsLoad
<1> QED BY <1>0, <1>4, <1>5, <1>7, <1>9, <1>10, <1>11 DEF StoreInv, SavedInv

LEMMA StoreNext == StoreInv /\ [Next]_vars => StoreInv'
<1> SUFFICES ASSUME StoreInv, [Next]_vars PROVE StoreInv'
    OBVIOUS
<1>0. IInv'
    BY NextInvariant DEF StoreInv
<1>1. CASE Next
    <2>1. Types
        BY DEF StoreInv, IInv
    <2>2. StoreTypes' /\ OpenFiles'
        BY <1>1, <2>1, StoreTypesStep, OpenFilesStep DEF StoreInv
    <2>3. WindowTypes' /\ WorkerTypes'
        BY <1>1, <2>1, WindowTypesStep, WorkerTypesStep DEF StoreInv
    <2> QED BY <1>0, <2>2, <2>3 DEF StoreInv
<1>2. CASE UNCHANGED vars
    <2> USE <1>2 DEF vars, uiVars, channelVars, agentVars, storeVars
    <2>1. StoreTypes' /\ OpenFiles'
        BY DEF StoreInv, StoreTypes, OpenFiles, Session
    <2>2. WindowTypes' /\ WorkerTypes'
        BY DEF StoreInv, WindowTypes, WorkerTypes
    <2> QED BY <1>0, <2>1, <2>2 DEF StoreInv
<1> QED BY <1>1, <1>2

LEMMA StoreInvariance == Spec => []StoreInv
<1>1. Init => StoreInv
    BY StoreInitial
<1> QED BY <1>1, StoreNext, PTL DEF Spec

LEMMA SavedNext ==
    ASSUME ResumeBusy = FALSE
    PROVE  StoreInv /\ SavedInv /\ [Next]_vars => SavedInv'
<1> SUFFICES ASSUME StoreInv, SavedInv, [Next]_vars PROVE SavedInv'
    OBVIOUS
<1>1. CASE Next
    BY <1>1, OwnedStep, FreshStep, KeptStep DEF StoreInv, SavedInv, IInv
<1>2. CASE UNCHANGED vars
    BY <1>2 DEF vars, uiVars, channelVars, agentVars, storeVars, SavedInv, Owned, Fresh,
                Kept, Continues, Parses, Live, Alive, Busy, Session
<1> QED BY <1>1, <1>2

\* The one step that puts another file in the place of a saved one is the rename
\* of a save, and what it puts there is the saver's own transcript.
LEMMA PathSteps ==
    ASSUME StoreInv, SavedInv, Next, NEW t \in Sessions
    PROVE  \/ transcript'[t].path = transcript[t].path
           \/ \E w \in Workers : /\ transcript'[t].path = Whole(talk[w])
                                 /\ Continues(talk[w], t)
<1>0. Types /\ StoreTypes /\ OpenFiles
    BY DEF StoreInv, IInv
<1>1. CASE \E w \in Workers : SaveStep(w)
    <2> PICK w \in Workers : SaveStep(w)
        BY <1>1
    <2>1. CASE t # Session(w)
        BY <1>0, <2>1, TranscriptSteps
    <2>2. CASE t = Session(w)
        <3>1. Live(w) /\ stage[w] \notin Starting
            BY <1>0, LiveSaver
        <3>2. /\ Continues(talk[w], t)
              /\ stage[w] = "filling" =>
                   transcript[t].on[w] = "tmp" /\ transcript[t].tmp = Empty
              /\ stage[w] = "rename" => transcript[t].tmp = Whole(talk[w])
            BY <2>2, <3>1 DEF SavedInv, Kept
        <3>3. SavedFile(w, transcript[t], transcript'[t])
            BY <1>0, <2>2, SaveFile
        <3> QED BY <3>2, <3>3 DEF SavedFile
    <2> QED BY <2>1, <2>2
<1>2. CASE \E w \in Workers : Restart(w)
    BY <1>0, <1>2, RestartClosed
<1>3. CASE UNCHANGED storeVars
    BY <1>3 DEF storeVars
<1> QED BY <1>0, <1>1, <1>2, <1>3, StoreCases

LEMMA StillParses ==
    ASSUME StoreInv, SavedInv, Next, NEW t \in Sessions, Parses(transcript[t])
    PROVE  Parses(transcript[t])'
<1>1. CASE transcript'[t].path = transcript[t].path
    BY <1>1 DEF Parses
<1>2. CASE \E w \in Workers : transcript'[t].path = Whole(talk[w])
    BY <1>2, WholeIsReadable DEF Parses
<1> QED BY <1>1, <1>2, PathSteps

\* Every reachable state is type-correct, the files of the store included.
THEOREM TypeCorrect == Spec => []TypeOK
<1>1. StoreInv => TypeOK
    BY DEF StoreInv, IInv, Types, StoreTypes, WindowTypes, WorkerTypes, TypeOK,
           StoreTypeOK, Transcripts
<1> QED BY <1>1, StoreInvariance, PTL

\* When no session is resumed while a worker is busy with it, the sessions on
\* the window's list can be loaded, whatever saves failed or were cut off since
\* the list was drawn.
THEOREM ListedAlwaysLoad ==
    ASSUME ResumeBusy = FALSE
    PROVE  Spec => []ListedSessionsLoad
<1>1. ASSUME StoreInv, SavedInv, ListedSessionsLoad, [Next]_vars
      PROVE  ListedSessionsLoad'
    <2>1. CASE UNCHANGED vars
        BY <1>1, <2>1 DEF ListedSessionsLoad, Parses, vars, uiVars, storeVars
    <2>2. CASE Next
        <3>0. Types /\ StoreTypes /\ Begun /\ listed \subseteq Sessions
            BY <1>1 DEF StoreInv, IInv, WindowTypes
        <3>1. listed' \subseteq listed \cup List
            <4>1. CASE \E w \in Workers : SaveStep(w)
                BY <4>1 DEF SaveStep, uiVars
            <4>2. CASE \E w \in Workers : Restarts(w) \/ Restart(w)
                BY <3>0, <4>2, StartFrame
            <4> QED BY <2>2, <3>0, <4>1, <4>2, ElsewhereFrame DEF Elsewhere
        <3>2. \A s \in listed' : s \in Sessions /\ Parses(transcript[s])
            BY <1>1, <3>0, <3>1 DEF ListedSessionsLoad, List
        <3> QED BY <1>1, <2>2, <3>2, StillParses DEF ListedSessionsLoad
    <2> QED BY <1>1, <2>1, <2>2
<1>2. Init => SavedInv /\ ListedSessionsLoad
    BY StoreInitial
<1> QED BY <1>1, <1>2, StoreInvariance, SavedNext, PTL DEF Spec

\* When no session is resumed while a worker is busy with it, no later save,
\* failed save or restart loses a turn that was saved: it stays as it was or gives
\* way to a summary or marker, save in a session that could not be read when it
\* was resumed.
THEOREM SavedTurnsStay ==
    ASSUME ResumeBusy = FALSE
    PROVE  Spec => SavedTurnsKept
<1> DEFINE KeepsTurns ==
        \A s \in Sessions :
            Parses(transcript[s]) =>
                /\ Parses(transcript[s])'
                /\ s \in unread \/ Extends(transcript'[s].path.of,
                                           transcript[s].path.of)
<1>1. ASSUME StoreInv, SavedInv, Next PROVE KeepsTurns
    <2> SUFFICES ASSUME NEW t \in Sessions, Parses(transcript[t]), t \notin unread
                 PROVE  Extends(transcript'[t].path.of, transcript[t].path.of)
        BY <1>1, StillParses
    <2>1. CASE transcript'[t].path = transcript[t].path
        <3>1. transcript[t].path.of \in Transcripts
            BY <1>1, LoadedType DEF StoreInv, Loaded
        <3> QED BY <2>1, <3>1, ExtendsItself
    <2>2. ASSUME NEW w \in Workers, transcript'[t].path = Whole(talk[w]),
                 Continues(talk[w], t)
          PROVE  Extends(transcript'[t].path.of, transcript[t].path.of)
        BY <2>2, WholeIsReadable DEF Continues
    <2> QED BY <1>1, <2>1, <2>2, PathSteps
<1>2. ASSUME StoreInv, SavedInv, [Next]_vars
      PROVE  [KeepsTurns]_storeVars
    BY <1>1, <1>2 DEF vars
<1>3. Init => SavedInv
    BY StoreInitial
<1> QED BY <1>2, <1>3, StoreInvariance, SavedNext, PTL DEF Spec, SavedTurnsKept
=============================================================================
