-------------------------- MODULE AgentLoopProofs --------------------------
(***************************************************************************)
(* What AgentLoop guarantees for every value of its constants: types, the  *)
(* well-formedness of the transcript, consent, prompt cancellation, the    *)
(* protocol its listeners rely on, and a bound on the length of a run.     *)
(***************************************************************************)
EXTENDS AgentLoop, SequenceTheorems, WellFoundedInduction, TLAPS

Quiet == {"idle", "compact", "gate", "respond"}
Busy == {"pick", "ask", "body", "settle"}

(***************************************************************************)
(* The transcript.  Every rewriting the code does (compaction, the drop to *)
(* the hard limit, Snip) leaves the transcript alone or puts one message   *)
(* in front of a suffix of it.                                             *)
(***************************************************************************)
Behind(c, ms, j) == <<UserText(c)>> \o SubSeq(ms, j + 1, Len(ms))

Rewrites(ms, new) ==
    new = ms \/ \E c \in Nat, j \in 0..Len(ms) : new = Behind(c, ms, j)

\* A message in front of a suffix: its length and its elements.
LEMMA BehindElements ==
    ASSUME NEW ms \in Seq(Message), NEW c \in Nat, NEW j \in 0..Len(ms)
    PROVE  /\ Behind(c, ms, j) \in Seq(Message)
           /\ Len(Behind(c, ms, j)) = Len(ms) - j + 1
           /\ Behind(c, ms, j)[1] = UserText(c)
           /\ \A i \in 2..(Len(ms) - j + 1) :
                 Behind(c, ms, j)[i] = ms[i + j - 1]
<1>1. UserText(c) \in Message
  BY DEF UserText, Message
<1> DEFINE rest == SubSeq(ms, j + 1, Len(ms))
<1>2. /\ rest \in Seq(Message)
      /\ Len(rest) = Len(ms) - j
      /\ \A i \in 1..(Len(ms) - j) : rest[i] = ms[j + i]
  OBVIOUS
<1>3. <<UserText(c)>> \in Seq(Message) /\ Len(<<UserText(c)>>) = 1
  BY <1>1
<1> HIDE DEF rest
<1>4. /\ <<UserText(c)>> \o rest \in Seq(Message)
      /\ Len(<<UserText(c)>> \o rest) = 1 + Len(rest)
      /\ (<<UserText(c)>> \o rest)[1] = UserText(c)
      /\ \A i \in 2..(1 + Len(rest)) : (<<UserText(c)>> \o rest)[i] = rest[i - 1]
  BY <1>2, <1>3
<1> QED
  BY <1>2, <1>4 DEF Behind, rest

\* Dropping d messages after the first of such a transcript drops them from
\* the suffix.
LEMMA DropBehind ==
    ASSUME NEW ms \in Seq(Message), NEW c \in Nat, NEW j \in 0..Len(ms),
           NEW d \in 0..(Len(ms) - j)
    PROVE  DropAfterFirst(Behind(c, ms, j), d) = Behind(c, ms, j + d)
<1> DEFINE b == Behind(c, ms, j)
           r == DropAfterFirst(b, d)
           t == SubSeq(b, d + 2, Len(b))
<1>1. /\ b \in Seq(Message)
      /\ Len(b) = Len(ms) - j + 1
      /\ b[1] = UserText(c)
      /\ \A i \in 2..(Len(ms) - j + 1) : b[i] = ms[i + j - 1]
  BY BehindElements
<1> HIDE DEF b
<1>2. /\ t \in Seq(Message)
      /\ Len(t) = Len(ms) - j - d
      /\ \A i \in 1..(Len(ms) - j - d) : t[i] = b[i + d + 1]
  BY <1>1
<1>3. b[1] \in Message
  BY <1>1 DEF UserText, Message
<1>4. /\ r = <<b[1]>> \o t
      /\ <<b[1]>> \in Seq(Message)
  BY <1>3 DEF DropAfterFirst
<1> HIDE DEF t
<1>5. /\ r \in Seq(Message)
      /\ Len(r) = Len(ms) - j - d + 1
      /\ r[1] = b[1]
      /\ \A i \in 2..(Len(ms) - j - d + 1) : r[i] = t[i - 1]
  BY <1>2, <1>3, <1>4
<1>6. j + d \in 0..Len(ms)
  OBVIOUS
<1> DEFINE e == Behind(c, ms, j + d)
<1>7. /\ e \in Seq(Message)
      /\ Len(e) = Len(ms) - (j + d) + 1
      /\ e[1] = UserText(c)
      /\ \A i \in 2..(Len(ms) - (j + d) + 1) : e[i] = ms[i + (j + d) - 1]
  BY <1>6, BehindElements
<1> HIDE DEF e, r
<1>8. ASSUME NEW i \in 1..Len(r)
      PROVE  r[i] = e[i]
  <2>1. CASE i = 1
    BY <2>1, <1>1, <1>5, <1>7
  <2>2. CASE i # 1
    <3>1. i \in 2..(Len(ms) - j - d + 1) /\ i - 1 \in 1..(Len(ms) - j - d)
      BY <2>2, <1>5
    <3>2. r[i] = t[i - 1] /\ t[i - 1] = b[(i - 1) + d + 1]
      BY <3>1, <1>5, <1>2
    <3>3. (i - 1) + d + 1 \in 2..(Len(ms) - j + 1)
      BY <3>1
    <3>4. b[(i - 1) + d + 1] = ms[((i - 1) + d + 1) + j - 1]
      BY <3>3, <1>1
    <3>5. i \in 2..(Len(ms) - (j + d) + 1)
      BY <3>1
    <3>6. e[i] = ms[i + (j + d) - 1]
      BY <3>5, <1>7
    <3>7. ((i - 1) + d + 1) + j - 1 = i + (j + d) - 1
      BY <3>1
    <3> QED
      BY <3>2, <3>4, <3>6, <3>7
  <2> QED
    BY <2>1, <2>2
<1>9. r = e
  BY <1>5, <1>7, <1>8
<1> QED
  BY <1>9 DEF r, e, b

\* Compaction, the drop to the hard limit included, rewrites the transcript.
LEMMA CompactionRewrites ==
    ASSUME NEW ms \in Seq(Message), NEW new \in Compactions(ms)
    PROVE  Rewrites(ms, new)
<1>1. PICK s \in 0..Len(ms), c \in SummaryCosts, d \in 0..Len(ms) :
         /\ DropCount(Fold(ms, s, c), d)
         /\ new = DropAfterFirst(Fold(ms, s, c), d)
  BY DEF Compactions
<1>2. c \in Nat
  BY AgentLoopAssumption DEF AgentLoopAssumption
<1>3. Fold(ms, s, c) = Behind(c, ms, s)
  BY DEF Fold, Behind
<1>4. Len(Fold(ms, s, c)) = Len(ms) - s + 1
  BY <1>2, <1>3, BehindElements
<1>5. d \in 0..(Len(ms) - s)
  BY <1>1, <1>4 DEF DropCount
<1>6. new = Behind(c, ms, s + d)
  BY <1>1, <1>2, <1>3, <1>5, DropBehind
<1>7. s + d \in 0..Len(ms)
  BY <1>5
<1> QED
  BY <1>2, <1>6, <1>7 DEF Rewrites

\* So does Snip.
LEMMA SnipRewrites ==
    ASSUME NEW ms \in Seq(Message), NEW k \in SnipKeeps
    PROVE  Rewrites(ms, Snipped(ms, k))
<1>1. k \in Nat /\ MarkerCost \in Nat
  BY AgentLoopAssumption DEF AgentLoopAssumption
<1>2. CASE Len(ms) <= k
  BY <1>2 DEF Snipped, Rewrites
<1>3. CASE ~(Len(ms) <= k)
  <2>1. Snipped(ms, k) = Behind(MarkerCost, ms, Len(ms) - k)
    BY <1>3 DEF Snipped, Behind
  <2>2. Len(ms) - k \in 0..Len(ms)
    BY <1>1, <1>3
  <2> QED
    BY <1>1, <2>1, <2>2 DEF Rewrites
<1> QED
  BY <1>2, <1>3

\* And so does every tool.
LEMMA ToolRewrites ==
    ASSUME NEW tool, messages \in Seq(Message), NEW new \in Rewritten(tool)
    PROVE  Rewrites(messages, new)
<1>1. CASE tool = "Snip"
  BY <1>1, SnipRewrites DEF Rewritten
<1>2. CASE tool = "Brief"
  BY <1>2, CompactionRewrites DEF Rewritten, Rewrites
<1>3. CASE tool \notin {"Snip", "Brief"}
  BY <1>3 DEF Rewritten, Rewrites
<1> QED
  BY <1>1, <1>2, <1>3

(***************************************************************************)
(* A transcript is complete when every tool use is answered, and open with *)
(* the calls ids when only its last message may wait for the results of    *)
(* exactly these calls.                                                    *)
(***************************************************************************)
Complete(ms) == \A i \in DOMAIN ms : Answered(ms, i)

OpenWith(ms, ids) ==
    \A i \in DOMAIN ms :
        IF i < Len(ms) THEN Answered(ms, i) ELSE ms[i].uses \in {<<>>, ids}

\* A message in front of a suffix answers what the suffix answered.
LEMMA BehindAnswers ==
    ASSUME NEW ms \in Seq(Message), NEW c \in Nat, NEW j \in 0..Len(ms),
           NEW i \in DOMAIN Behind(c, ms, j)
    PROVE  \/ Behind(c, ms, j)[i].uses = <<>>
           \/ /\ i + j - 1 \in DOMAIN ms
              /\ Behind(c, ms, j)[i] = ms[i + j - 1]
              /\ i < Len(Behind(c, ms, j)) <=> i + j - 1 < Len(ms)
              /\ Answered(ms, i + j - 1) => Answered(Behind(c, ms, j), i)
<1> DEFINE b == Behind(c, ms, j)
<1>1. /\ b \in Seq(Message)
      /\ Len(b) = Len(ms) - j + 1
      /\ b[1] = UserText(c)
      /\ \A x \in 2..(Len(ms) - j + 1) : b[x] = ms[x + j - 1]
  BY BehindElements
<1>2. i \in DOMAIN b
  OBVIOUS
<1> HIDE DEF b
<1>3. i \in 1..(Len(ms) - j + 1)
  BY <1>1, <1>2
<1>4. CASE i = 1
  BY <1>4, <1>1 DEF UserText, b
<1>5. CASE i # 1
  <2>1. i \in 2..(Len(ms) - j + 1) /\ i + j - 1 \in 1..Len(ms)
    BY <1>3, <1>5
  <2>2. b[i] = ms[i + j - 1]
    BY <2>1, <1>1
  <2>3. i < Len(b) <=> i + j - 1 < Len(ms)
    BY <1>1, <1>3
  <2>4. ASSUME i < Len(b)
        PROVE  b[i + 1] = ms[(i + j - 1) + 1]
    <3>1. i + 1 \in 2..(Len(ms) - j + 1)
      BY <2>4, <1>1, <1>3
    <3>2. b[i + 1] = ms[(i + 1) + j - 1]
      BY <3>1, <1>1
    <3>3. (i + 1) + j - 1 = (i + j - 1) + 1
      BY <1>3
    <3> QED
      BY <3>2, <3>3
  <2>5. Answered(ms, i + j - 1) => Answered(b, i)
    BY <2>2, <2>3, <2>4 DEF Answered
  <2> QED
    BY <2>1, <2>2, <2>3, <2>5 DEF b
<1> QED
  BY <1>4, <1>5

\* Rewriting a transcript keeps it typed, complete, and open as it was.
LEMMA RewritesKeep ==
    ASSUME NEW ms \in Seq(Message), NEW new, Rewrites(ms, new), NEW ids
    PROVE  /\ new \in Seq(Message)
           /\ Complete(ms) => Complete(new)
           /\ OpenWith(ms, ids) => OpenWith(new, ids)
<1>1. CASE new = ms
  BY <1>1
<1>2. CASE new # ms
  <2>1. PICK c \in Nat, j \in 0..Len(ms) : new = Behind(c, ms, j)
    BY <1>2 DEF Rewrites
  <2>2. new \in Seq(Message)
    BY <2>1, BehindElements
  <2>3. ASSUME NEW i \in DOMAIN new
        PROVE  \/ new[i].uses = <<>>
               \/ /\ i + j - 1 \in DOMAIN ms
                  /\ new[i] = ms[i + j - 1]
                  /\ i < Len(new) <=> i + j - 1 < Len(ms)
                  /\ Answered(ms, i + j - 1) => Answered(new, i)
    BY <2>1, BehindAnswers
  <2>4. ASSUME Complete(ms)
        PROVE  Complete(new)
    BY <2>3, <2>4 DEF Complete, Answered
  <2>5. ASSUME OpenWith(ms, ids)
        PROVE  OpenWith(new, ids)
    BY <2>3, <2>5 DEF OpenWith, Answered
  <2> QED
    BY <2>2, <2>4, <2>5
<1> QED
  BY <1>1, <1>2

\* Appending a message: to a complete transcript one that calls no tool, or
\* one that opens it; to an open one the results it waits for.
LEMMA AppendAnswers ==
    ASSUME NEW ms \in Seq(Message), NEW m \in Message
    PROVE  /\ Complete(ms) /\ m.uses = <<>> => Complete(Append(ms, m))
           /\ Complete(ms) => OpenWith(Append(ms, m), m.uses)
           /\ OpenWith(ms, m.results) /\ m.uses = <<>> =>
                 Complete(Append(ms, m))
<1> DEFINE new == Append(ms, m)
<1>1. /\ DOMAIN new = 1..(Len(ms) + 1) /\ Len(new) = Len(ms) + 1
      /\ DOMAIN ms = 1..Len(ms) /\ Len(ms) \in Nat
      /\ new[Len(ms) + 1] = m
      /\ \A i \in 1..Len(ms) : new[i] = ms[i]
  OBVIOUS
<1> HIDE DEF new
<1>2. ASSUME NEW i \in 1..Len(ms), Answered(ms, i)
      PROVE  Answered(new, i)
  <2>1. CASE ms[i].uses = <<>>
    BY <2>1, <1>1 DEF Answered
  <2>2. CASE ms[i].uses # <<>>
    <3>1. i < Len(ms) /\ ms[i + 1].results = ms[i].uses
      BY <1>2, <2>2 DEF Answered
    <3>2. i + 1 \in 1..Len(ms) /\ i < Len(new)
      BY <3>1, <1>1
    <3>3. new[i + 1] = ms[i + 1] /\ new[i] = ms[i]
      BY <3>2, <1>1
    <3> QED
      BY <3>1, <3>2, <3>3 DEF Answered
  <2> QED
    BY <2>1, <2>2
<1>3. ASSUME Complete(ms), m.uses = <<>>
      PROVE  Complete(new)
  BY <1>1, <1>2, <1>3 DEF Complete, Answered
<1>4. ASSUME Complete(ms)
      PROVE  OpenWith(new, m.uses)
  BY <1>1, <1>2, <1>4 DEF Complete, OpenWith
<1>5. ASSUME OpenWith(ms, m.results), m.uses = <<>>
      PROVE  Complete(new)
  <2> SUFFICES ASSUME NEW i \in 1..(Len(ms) + 1)
               PROVE  Answered(new, i)
    BY <1>1 DEF Complete
  <2>1. CASE i < Len(ms)
    BY <2>1, <1>1, <1>2, <1>5 DEF OpenWith
  <2>2. CASE i = Len(ms)
    BY <2>2, <1>1, <1>5 DEF OpenWith, Answered
  <2>3. CASE i = Len(ms) + 1
    BY <2>3, <1>1, <1>5 DEF Answered
  <2>4. i < Len(ms) \/ i = Len(ms) \/ i = Len(ms) + 1
    <3>1. Len(ms) \in Nat
      OBVIOUS
    <3> QED
      BY <3>1
  <2> QED
    BY <2>1, <2>2, <2>3, <2>4
<1> QED
  BY <1>3, <1>4, <1>5 DEF new
-----------------------------------------------------------------------------
(***************************************************************************)
(* Types, and how far the batch has come: a batch exists while tool calls  *)
(* are answered only, and the results collected answer a prefix of it.     *)
(***************************************************************************)
Progress ==
    /\ Len(done) <= Len(batch)
    /\ \A i \in DOMAIN done : done[i].id = batch[i].id
    /\ pc \in Quiet => batch = <<>> /\ done = <<>>
    /\ pc \in {"ask", "body", "settle"} => Len(done) < Len(batch)
    /\ pc = "settle" => outcome # "none"

TypeInv == TypeOK /\ Progress

LEMMA CurType ==
    ASSUME TypeInv, Len(done) < Len(batch)
    PROVE  Cur \in Call /\ Cur.id \in CallId /\ Cur.tool \in ToolKinds
<1>1. batch \in Seq(Call) /\ Len(done) \in Nat
  BY DEF TypeInv, TypeOK
<1>2. Len(done) + 1 \in 1..Len(batch)
  BY <1>1
<1>3. Cur \in Call
  BY <1>1, <1>2 DEF Cur
<1> QED
  BY <1>3 DEF Call

\* The calls of a new response, and the identities of the calls answered.
LEMMA NewCallsType ==
    ASSUME TypeInv, NEW n \in 1..MaxBatch, NEW kinds \in [1..n -> Tools]
    PROVE  /\ NewCalls(kinds) \in Seq(Call)
           /\ Len(NewCalls(kinds)) = n
           /\ Ids(NewCalls(kinds)) \in Seq(CallId)
<1>1. n \in Nat /\ Tools \subseteq ToolKinds
  BY AgentLoopAssumption DEF AgentLoopAssumption
<1>2. ASSUME NEW i \in 1..n
      PROVE  [id |-> <<runs, step, i>>, tool |-> kinds[i]] \in Call
  BY <1>1 DEF Call, CallId, TypeInv, TypeOK
<1>3. NewCalls(kinds) \in [1..n -> Call]
  BY <1>2 DEF NewCalls
<1>4. Ids(NewCalls(kinds)) \in [1..n -> CallId]
  BY <1>3 DEF Ids, Call
<1> QED
  BY <1>1, <1>3, <1>4

LEMMA IdsType ==
    ASSUME TypeInv
    PROVE  Ids(done) \in Seq(CallId) /\ Ids(batch) \in Seq(CallId)
<1>1. batch \in [1..Len(batch) -> Call] /\ Len(batch) \in Nat
  BY DEF TypeInv, TypeOK
<1>2. /\ done \in [1..Len(done) -> Result]
      /\ Len(done) \in Nat
  BY DEF TypeInv, TypeOK
<1>3. Ids(batch) \in [1..Len(batch) -> CallId]
  BY <1>1 DEF Ids, Call
<1>4. Ids(done) \in [1..Len(done) -> CallId]
  BY <1>2 DEF Ids, Result
<1> QED
  BY <1>1, <1>2, <1>3, <1>4

LEMMA MessageTypes ==
    /\ \A c \in Nat : UserText(c) \in Message
    /\ \A c \in Nat, ids \in Seq(CallId) : AssistantText(ids, c) \in Message
    /\ \A ids \in Seq(CallId) : ToolResults(ids) \in Message
BY DEF UserText, AssistantText, ToolResults, Message

LEMMA EmptyTyped == \A S : <<>> \in Seq(S)
OBVIOUS

LEMMA TypeInit == Init => TypeInv
<1> SUFFICES ASSUME Init
             PROVE  TypeInv
  OBVIOUS
<1>1. mode \in Modes
  BY AgentLoopAssumption DEF Init, AgentLoopAssumption
<1>2. /\ messages \in Seq(Message) /\ snapshot \in Seq(Message)
      /\ batch \in Seq(Call) /\ events \in Seq(EventRecord)
      /\ done \in Seq(Result)
  BY EmptyTyped DEF Init
<1>4. TypeOK
  BY <1>1, <1>2 DEF Init, TypeOK
<1>3. Progress
  BY DEF Init, Progress
<1> QED
  BY <1>3, <1>4 DEF TypeInv

\* The transcript stays typed, whichever action writes it.
LEMMA MessagesTyped ==
    ASSUME TypeInv, [Next]_vars
    PROVE  messages' \in Seq(Message)
<1>0. messages \in Seq(Message) /\ snapshot \in Seq(Message)
  BY DEF TypeInv, TypeOK
<1>c. TextCosts \subseteq Nat
  BY AgentLoopAssumption DEF AgentLoopAssumption
<1>1. CASE messages' = messages
  BY <1>0, <1>1
<1>2. ASSUME Rewrites(messages, messages')
      PROVE  messages' \in Seq(Message)
  BY <1>0, <1>2, RewritesKeep
<1>3. ASSUME NEW m \in Message, messages' = Append(messages, m)
      PROVE  messages' \in Seq(Message)
  BY <1>0, <1>3
<1>4. CASE \E c \in TextCosts : Submit(c)
  BY <1>4, <1>3, <1>c, MessageTypes DEF Submit
<1>5. CASE CompactCommand \/ AutoCompact
  BY <1>5, <1>0, <1>2, CompactionRewrites DEF CompactCommand, AutoCompact
<1>6. CASE RestoreCheckpoint \/ Reset
  BY <1>6, <1>0, EmptyTyped DEF RestoreCheckpoint, Reset
<1>7. CASE RunTool
  BY <1>7, <1>0, <1>2, ToolRewrites DEF RunTool, Rewrites
<1>8. CASE \E c \in TextCosts : RespondText(c)
  BY <1>8, <1>3, <1>c, EmptyTyped, MessageTypes DEF RespondText
<1>9. ASSUME NEW c \in TextCosts, NEW n \in 1..MaxBatch,
             NEW kinds \in [1..n -> Tools], RespondCalls(kinds, c)
      PROVE  messages' \in Seq(Message)
  <2>1. AssistantText(Ids(NewCalls(kinds)), c) \in Message
    BY <1>c, NewCallsType, MessageTypes
  <2> QED
    BY <2>1, <1>3, <1>9 DEF RespondCalls
<1>10. CASE CloseBatch
  <2>1. ToolResults(Ids(done)) \in Message
    BY IdsType, MessageTypes
  <2> QED
    BY <2>1, <1>3, <1>10 DEF CloseBatch
<1> QED
  BY <1>1, <1>4, <1>5, <1>6, <1>7, <1>8, <1>9, <1>10
  DEF Next, Agent, User, vars, Cancel, SaveCheckpoint, SetMode, SkipCompact,
      GiveUp, Request, RespondError, SkipTool, SwitchPlanMode, StartTool,
      Answer, AnswerAllow, AnswerAllowAll, AnswerBypass, AnswerDeny, VetoTool,
      Settle, ReportResult

\* So do the events a listener sees.
LEMMA EventsTyped ==
    ASSUME TypeInv, [Next]_vars
    PROVE  events' \in Seq(EventRecord)
<1>0. events \in Seq(EventRecord)
  BY DEF TypeInv, TypeOK
<1>1. \A type \in {"User", "Assistant", "Compaction", "ToolBatchSummary",
                   "Terminal"} : Event(type) \in EventRecord
  BY EmptyTyped DEF Event, EventRecord
<1>2. \A type \in {"Assistant", "ToolResult"}, ids \in Seq(CallId) :
         [type |-> type, calls |-> ids] \in EventRecord
  BY DEF EventRecord
<1>3. \A e, f \in EventRecord : <<e>> \in Seq(EventRecord)
                                /\ <<e, f>> \in Seq(EventRecord)
  OBVIOUS
<1>4. \A new \in Seq(EventRecord) : events \o new \in Seq(EventRecord)
  BY <1>0
<1>5. CASE events' = events
  BY <1>0, <1>5
<1>6. CASE \E c \in TextCosts : Submit(c) \/ RespondText(c)
  BY <1>1, <1>3, <1>6 DEF Submit, RespondText, Open
<1>7. CASE AutoCompact \/ GiveUp \/ RespondError \/ CloseBatch
  BY <1>1, <1>3, <1>4, <1>7
  DEF AutoCompact, GiveUp, RespondError, CloseBatch, Finish, Emit
<1>8. ASSUME NEW c \in TextCosts, NEW n \in 1..MaxBatch,
             NEW kinds \in [1..n -> Tools], RespondCalls(kinds, c)
      PROVE  events' \in Seq(EventRecord)
  BY <1>2, <1>3, <1>8, NewCallsType DEF RespondCalls, Open
<1>9. CASE ReportResult
  <2>1. reported + 1 \in 1..Len(done) /\ done \in Seq(Result)
    BY <1>9 DEF ReportResult, TypeInv, TypeOK
  <2>2. done[reported + 1] \in Result
    BY <2>1
  <2>3. <<done[reported + 1].id>> \in Seq(CallId)
    BY <2>2 DEF Result
  <2>4. [type |-> "ToolResult", calls |-> <<done[reported + 1].id>>]
          \in EventRecord
    BY <2>3, <1>2
  <2> QED
    BY <2>4, <1>3, <1>4, <1>9 DEF ReportResult, Emit
<1> QED
  BY <1>5, <1>6, <1>7, <1>8, <1>9
  DEF Next, Agent, User, vars, Cancel, CompactCommand, SaveCheckpoint,
      RestoreCheckpoint, Reset, SetMode, SkipCompact, Request, SkipTool,
      SwitchPlanMode, StartTool, Answer, AnswerAllow, AnswerAllowAll,
      AnswerBypass, AnswerDeny, VetoTool, RunTool, Settle

\* An action of the agent or the user, or a stuttering step.
LEMMA TypeStep == TypeInv /\ [Next]_vars => TypeInv'
<1> SUFFICES ASSUME TypeInv, [Next]_vars
             PROVE  TypeInv'
  OBVIOUS
<1> USE DEF TypeInv
<1>1. messages' \in Seq(Message) /\ events' \in Seq(EventRecord)
  BY MessagesTyped, EventsTyped
<1>2. TextCosts \subseteq Nat /\ UserModes \subseteq Modes
  BY AgentLoopAssumption DEF AgentLoopAssumption
<1>3. ASSUME NEW c \in TextCosts, Submit(c)
      PROVE  TypeInv'
  <2>1. /\ runs' = runs + 1 /\ flag' = FALSE /\ step' = 0 /\ pc' = "compact"
        /\ approved' = {} /\ late' = 0
        /\ UNCHANGED <<batch, done, outcome, interrupted, reported, mode,
                       sessionAllow, snapshot, userMode, planned>>
    BY <1>3 DEF Submit
  <2>2. runs' \in Nat /\ step' \in Nat /\ late' \in Nat
    BY <2>1 DEF TypeOK
  <2>3. approved' \subseteq CallId /\ flag' \in BOOLEAN
    BY <2>1
  <2>4. /\ snapshot' \in Seq(Message) /\ reported' \in Nat
        /\ batch' \in Seq(Call) /\ done' \in Seq(Result)
        /\ outcome' \in {"none", "ok", "error"}
        /\ interrupted' \in BOOLEAN /\ planned' \in BOOLEAN
        /\ mode' \in Modes /\ userMode' \in Modes
        /\ sessionAllow' \subseteq ToolKinds
    BY <2>1 DEF TypeOK
  <2>5. TypeOK'
    BY <1>1, <2>1, <2>2, <2>3, <2>4 DEF TypeOK
  <2>6. Progress'
    BY <1>3 DEF Submit, Progress, Quiet
  <2> QED
    BY <2>5, <2>6
<1>4. CASE Cancel
  BY <1>1, <1>4 DEF Cancel, TypeOK, Progress, loopVars, histVars
<1>5. CASE CompactCommand \/ RestoreCheckpoint
  BY <1>1, <1>5 DEF CompactCommand, RestoreCheckpoint, TypeOK, Progress,
     loopVars, userVars, histVars
<1>6. CASE SaveCheckpoint
  BY <1>1, <1>6 DEF SaveCheckpoint, TypeOK, Progress, loopVars, histVars
<1>7. CASE Reset
  BY <1>1, <1>7 DEF Reset, TypeOK, Progress, userVars, histVars
<1>8. ASSUME NEW m \in UserModes, SetMode(m)
      PROVE  TypeInv'
  BY <1>1, <1>2, <1>8 DEF SetMode, TypeOK, Progress, loopVars
<1>9. CASE AutoCompact \/ SkipCompact
  BY <1>1, <1>9 DEF AutoCompact, SkipCompact, TypeOK, Progress, Quiet,
     loopVars, userVars, histVars
<1>10. CASE GiveUp \/ RespondError
  BY <1>1, <1>10 DEF GiveUp, RespondError, Finish, TypeOK, Progress, Quiet,
     loopVars, userVars, histVars
<1>11. CASE Request
  BY <1>1, <1>11 DEF Request, TypeOK, Progress, userVars, Quiet
<1>12. ASSUME NEW c \in TextCosts, RespondText(c)
       PROVE  TypeInv'
  BY <1>1, <1>12 DEF RespondText, TypeOK, Progress, Quiet, loopVars, userVars,
     histVars
<1>13. ASSUME NEW c \in TextCosts, NEW n \in 1..MaxBatch,
              NEW kinds \in [1..n -> Tools], RespondCalls(kinds, c)
       PROVE  TypeInv'
  BY <1>1, <1>13, NewCallsType DEF RespondCalls, TypeOK, Progress, Quiet,
     userVars, histVars
<1>14. CASE SkipTool
  <2>1. Len(done) < Len(batch) /\ Cur.id \in CallId
    BY <1>14, CurType DEF SkipTool, Picking, TypeOK
  <2>2. [id |-> Cur.id, outcome |-> "cancelled"] \in Result
    BY <2>1 DEF Result, Outcomes
  <2>3. done' \in Seq(Result) /\ Progress'
    BY <2>1, <2>2, <1>14 DEF SkipTool, Picking, Cur, TypeOK, Progress, Quiet
  <2> QED
    BY <1>1, <1>14, <2>3 DEF SkipTool, TypeOK, userVars, histVars
<1>15. CASE SwitchPlanMode
  BY <1>1, <1>15 DEF SwitchPlanMode, Picking, TypeOK, Progress, Quiet, Modes
<1>16. CASE StartTool
  BY <1>1, <1>16 DEF StartTool, Route, Picking, TypeOK, Progress, Quiet,
     userVars, histVars
<1>17. CASE AnswerAllow \/ AnswerAllowAll \/ AnswerBypass \/ AnswerDeny
  <2>1. pc = "ask"
    BY <1>17 DEF Answer, AnswerAllow, AnswerAllowAll, AnswerBypass, AnswerDeny
  <2>2. Cur.id \in CallId /\ Cur.tool \in ToolKinds
    BY <2>1, CurType DEF Progress
  <2>3. RuleScope(Cur.tool) \subseteq ToolKinds
    BY <2>2 DEF RuleScope, ToolKinds
  <2>4. Progress'
    BY <1>17, <2>1 DEF Answer, AnswerAllow, AnswerAllowAll, AnswerBypass,
       AnswerDeny, Progress, Quiet
  <2> QED
    BY <1>1, <1>17, <2>2, <2>3, <2>4 DEF Answer, AnswerAllow, AnswerAllowAll,
       AnswerBypass, AnswerDeny, TypeOK, Modes
<1>18. CASE VetoTool \/ RunTool
  BY <1>1, <1>18 DEF VetoTool, RunTool, TypeOK, Progress, Quiet, userVars,
     histVars
<1>19. CASE Settle
  <2>1. Len(done) < Len(batch) /\ Cur.id \in CallId /\ outcome # "none"
    BY <1>19, CurType DEF Settle, Progress
  <2>2. [id |-> Cur.id, outcome |-> outcome] \in Result
    BY <2>1 DEF Result, Outcomes, TypeOK
  <2>3. done' \in Seq(Result) /\ Progress'
    BY <2>1, <2>2, <1>19 DEF Settle, Cur, TypeOK, Progress, Quiet
  <2> QED
    BY <1>1, <1>19, <2>3 DEF Settle, TypeOK, userVars, histVars
<1>20. CASE ReportResult
  BY <1>1, <1>20 DEF ReportResult, BatchOver, TypeOK, Progress, Quiet,
     userVars, histVars
<1>22. CASE CloseBatch
  <2>1. TypeOK'
    BY <1>1, <1>22, EmptyTyped DEF CloseBatch, NoBatch, TypeOK, userVars,
       histVars
  <2>2. Progress'
    BY <1>22 DEF CloseBatch, NoBatch, Progress, Quiet
  <2> QED
    BY <2>1, <2>2
<1>21. CASE UNCHANGED vars
  BY <1>21 DEF vars, loopVars, userVars, histVars, TypeOK, Progress
<1> QED
  BY <1>3, <1>4, <1>5, <1>6, <1>7, <1>8, <1>9, <1>10, <1>11, <1>12, <1>13,
     <1>14, <1>15, <1>16, <1>17, <1>18, <1>19, <1>20, <1>21, <1>22
  DEF Next, Agent, User

(***************************************************************************)
(* AgentLoop keeps its types, and its batch bookkeeping.                   *)
(***************************************************************************)
THEOREM TypeCorrect == Spec => []TypeOK
<1>1. TypeInv => TypeOK
  BY DEF TypeInv
<1> QED
  BY <1>1, TypeInit, TypeStep, PTL DEF Spec
-----------------------------------------------------------------------------
(***************************************************************************)
(* Between batches the transcript is complete; during a batch only its     *)
(* last message is open, and only with the calls of the batch.  The latter *)
(* survives Snip and Brief, which may also drop that message altogether.   *)
(***************************************************************************)
TranscriptInv ==
    /\ pc \in Quiet => Complete(messages)
    /\ pc \in Busy => OpenWith(messages, Ids(batch))
    /\ Complete(snapshot)

\* A batch is closed with one result for each of its calls, in order.
LEMMA ResultsMatchBatch ==
    ASSUME TypeInv, Len(done) = Len(batch)
    PROVE  Ids(done) = Ids(batch)
<1>1. /\ DOMAIN done = 1..Len(done) /\ DOMAIN batch = 1..Len(batch)
  BY DEF TypeInv, TypeOK
<1>2. \A i \in DOMAIN done : done[i].id = batch[i].id
  BY DEF TypeInv, Progress
<1> QED
  BY <1>1, <1>2 DEF Ids

LEMMA TranscriptStep ==
    TypeInv /\ TranscriptInv /\ [Next]_vars => TranscriptInv'
<1> SUFFICES ASSUME TypeInv, TranscriptInv, [Next]_vars
             PROVE  TranscriptInv'
  OBVIOUS
<1>0. messages \in Seq(Message) /\ snapshot \in Seq(Message)
  BY DEF TypeInv, TypeOK
<1>c. TextCosts \subseteq Nat
  BY AgentLoopAssumption DEF AgentLoopAssumption
<1>1. ASSUME UNCHANGED <<messages, batch, snapshot>>,
             pc' \in Quiet => pc \in Quiet, pc' \in Busy => pc \in Busy
      PROVE  TranscriptInv'
  BY <1>1 DEF TranscriptInv
<1>2. ASSUME NEW c \in TextCosts, Submit(c)
      PROVE  TranscriptInv'
  <2>1. UserText(c) \in Message /\ UserText(c).uses = <<>>
    BY <1>c, MessageTypes DEF UserText
  <2>2. Complete(messages)
    BY <1>2 DEF Submit, TranscriptInv, Quiet
  <2>3. Complete(Append(messages, UserText(c)))
    BY <1>0, <2>1, <2>2, AppendAnswers
  <2> QED
    BY <1>2, <2>3 DEF Submit, TranscriptInv, Quiet, Busy
<1>3. CASE Cancel
  BY <1>1, <1>3 DEF Cancel, loopVars
<1>4. CASE CompactCommand \/ AutoCompact
  <2>1. pc \in Quiet /\ pc' \in Quiet /\ UNCHANGED snapshot
    BY <1>4 DEF CompactCommand, AutoCompact, Quiet, userVars
  <2>2. Rewrites(messages, messages')
    BY <1>0, <1>4, CompactionRewrites DEF CompactCommand, AutoCompact
  <2>3. Complete(messages')
    BY <1>0, <2>1, <2>2, RewritesKeep DEF TranscriptInv
  <2> QED
    BY <2>1, <2>3 DEF TranscriptInv, Quiet, Busy
<1>5. CASE SaveCheckpoint \/ RestoreCheckpoint \/ Reset
  BY <1>5 DEF SaveCheckpoint, RestoreCheckpoint, Reset, TranscriptInv, Quiet,
     Busy, Complete, userVars
<1>6. ASSUME NEW m \in UserModes, SetMode(m)
      PROVE  TranscriptInv'
  BY <1>1, <1>6 DEF SetMode, loopVars
<1>7. CASE SkipCompact \/ GiveUp \/ Request \/ RespondError
  BY <1>1, <1>7 DEF SkipCompact, GiveUp, Request, RespondError, Finish, Quiet,
     Busy, loopVars, userVars
<1>8. ASSUME NEW c \in TextCosts, RespondText(c)
      PROVE  TranscriptInv'
  <2>1. /\ AssistantText(<<>>, c) \in Message
        /\ AssistantText(<<>>, c).uses = <<>>
    BY <1>c, EmptyTyped, MessageTypes DEF AssistantText
  <2>2. Complete(messages)
    BY <1>8 DEF RespondText, TranscriptInv, Quiet
  <2>3. Complete(Append(messages, AssistantText(<<>>, c)))
    BY <1>0, <2>1, <2>2, AppendAnswers
  <2> QED
    BY <1>8, <2>3 DEF RespondText, TranscriptInv, Quiet, Busy, userVars
<1>9. ASSUME NEW c \in TextCosts, NEW n \in 1..MaxBatch,
             NEW kinds \in [1..n -> Tools], RespondCalls(kinds, c)
      PROVE  TranscriptInv'
  <2> DEFINE ids == Ids(NewCalls(kinds))
  <2>1. AssistantText(ids, c) \in Message /\ AssistantText(ids, c).uses = ids
    BY <1>c, NewCallsType, MessageTypes DEF AssistantText
  <2>2. Complete(messages)
    BY <1>9 DEF RespondCalls, TranscriptInv, Quiet
  <2>3. OpenWith(Append(messages, AssistantText(ids, c)), ids)
    BY <1>0, <2>1, <2>2, AppendAnswers
  <2>4. messages' = Append(messages, AssistantText(ids, c)) /\ Ids(batch') = ids
    BY <1>9 DEF RespondCalls
  <2>5. pc' = "pick" /\ UNCHANGED snapshot
    BY <1>9 DEF RespondCalls, userVars
  <2> QED
    BY <2>3, <2>4, <2>5 DEF TranscriptInv, Quiet, Busy
<1>10. CASE SkipTool \/ SwitchPlanMode \/ StartTool
  BY <1>1, <1>10 DEF SkipTool, SwitchPlanMode, StartTool, Picking, Route,
     Quiet, Busy, userVars
<1>11. CASE AnswerAllow \/ AnswerAllowAll \/ AnswerBypass \/ AnswerDeny
  BY <1>1, <1>11 DEF AnswerAllow, AnswerAllowAll, AnswerBypass, AnswerDeny,
     Answer, Quiet, Busy
<1>12. CASE VetoTool \/ Settle \/ ReportResult
  BY <1>1, <1>12 DEF VetoTool, Settle, ReportResult, Quiet, Busy, userVars
<1>13. CASE RunTool
  <2>1. Rewrites(messages, messages')
    BY <1>0, <1>13, ToolRewrites DEF RunTool, Rewrites
  <2>2. OpenWith(messages, Ids(batch))
    BY <1>13 DEF RunTool, TranscriptInv, Busy
  <2>3. OpenWith(messages', Ids(batch))
    BY <1>0, <2>1, <2>2, RewritesKeep
  <2> QED
    BY <1>13, <2>3 DEF RunTool, TranscriptInv, Quiet, Busy, userVars
<1>14. CASE CloseBatch
  <2>1. /\ ToolResults(Ids(batch)) \in Message
        /\ ToolResults(Ids(batch)).uses = <<>>
        /\ ToolResults(Ids(batch)).results = Ids(batch)
    BY IdsType, MessageTypes DEF ToolResults
  <2>2. OpenWith(messages, Ids(batch))
    BY <1>14 DEF CloseBatch, BatchOver, TranscriptInv, Busy
  <2>3. Complete(Append(messages, ToolResults(Ids(batch))))
    BY <1>0, <2>1, <2>2, AppendAnswers
  <2>4. messages' = Append(messages, ToolResults(Ids(batch)))
    BY <1>14, ResultsMatchBatch DEF CloseBatch, BatchOver
  <2>5. pc' \in {"compact", "idle"} /\ UNCHANGED snapshot
    BY <1>14 DEF CloseBatch, userVars
  <2> QED
    BY <2>3, <2>4, <2>5 DEF TranscriptInv, Quiet, Busy
<1>15. CASE UNCHANGED vars
  BY <1>1, <1>15 DEF vars, loopVars, userVars
<1> QED
  BY <1>2, <1>3, <1>4, <1>5, <1>6, <1>7, <1>8, <1>9, <1>10, <1>11, <1>12,
     <1>13, <1>14, <1>15
  DEF Next, Agent, User

(***************************************************************************)
(* Whenever a request is sent, and whenever the user gets the session      *)
(* back, every tool use of the transcript has its results (the requirement *)
(* agent_loop.rs:26-27 quotes from the API).                               *)
(***************************************************************************)
THEOREM UsesAlwaysAnswered == Spec => []UsesAnswered
<1>1. Init => TranscriptInv
  BY DEF Init, TranscriptInv, Quiet, Busy, Complete
<1>2. TranscriptInv => UsesAnswered
  BY DEF TranscriptInv, UsesAnswered, Complete, Quiet
<1> QED
  BY <1>1, <1>2, TypeInit, TypeStep, TranscriptStep, PTL DEF Spec
-----------------------------------------------------------------------------
(***************************************************************************)
(* Cancellation.  late counts what began after the cancel; no tool is      *)
(* about to run or waiting for permission once something did.              *)
(***************************************************************************)
CancelInv ==
    /\ late <= 1
    /\ late # 0 => flag
    /\ pc \in {"ask", "body"} => late = 0

LEMMA CancelStep == TypeInv /\ CancelInv /\ [Next]_vars => CancelInv'
<1> SUFFICES ASSUME TypeInv, CancelInv, [Next]_vars
             PROVE  CancelInv'
  OBVIOUS
<1> USE DEF CancelInv
<1>0. late \in Nat
  BY DEF TypeInv, TypeOK
<1>1. ASSUME UNCHANGED <<late, flag>>, pc' \notin {"ask", "body"}
      PROVE  CancelInv'
  BY <1>1
<1>2. ASSUME UNCHANGED <<late, flag, pc>>
      PROVE  CancelInv'
  BY <1>2
<1>3. CASE \E c \in TextCosts : Submit(c)
  BY <1>3 DEF Submit
<1>4. CASE Cancel
  BY <1>4 DEF Cancel, histVars
<1>5. CASE CompactCommand \/ SaveCheckpoint \/ RestoreCheckpoint \/ Reset
  BY <1>2, <1>5 DEF CompactCommand, SaveCheckpoint, RestoreCheckpoint, Reset,
     userVars, histVars
<1>6. CASE \E m \in UserModes : SetMode(m)
  BY <1>2, <1>6 DEF SetMode
<1>7. CASE AutoCompact \/ SkipCompact \/ GiveUp \/ RespondError
  BY <1>1, <1>7 DEF AutoCompact, SkipCompact, GiveUp, RespondError, Finish,
     userVars, histVars
<1>8. CASE Request
  BY <1>8 DEF Request, userVars
<1>9. ASSUME NEW c \in TextCosts,
             \/ RespondText(c)
             \/ \E n \in 1..MaxBatch : \E kinds \in [1..n -> Tools] :
                   RespondCalls(kinds, c)
      PROVE  CancelInv'
  BY <1>1, <1>9 DEF RespondText, RespondCalls, userVars, histVars
<1>10. CASE SkipTool \/ SwitchPlanMode
  BY <1>1, <1>10 DEF SkipTool, Picking, SwitchPlanMode, userVars, histVars
<1>11. CASE StartTool
  BY <1>0, <1>11 DEF StartTool, userVars, histVars
<1>12. CASE AnswerAllow \/ AnswerAllowAll \/ AnswerBypass \/ AnswerDeny
  BY <1>12 DEF Answer, AnswerAllow, AnswerAllowAll, AnswerBypass, AnswerDeny
<1>13. CASE VetoTool \/ Settle \/ CloseBatch
  BY <1>1, <1>13 DEF VetoTool, Settle, CloseBatch, userVars, histVars
<1>14. CASE RunTool
  BY <1>0, <1>14 DEF RunTool, userVars
<1>15. CASE ReportResult
  BY <1>2, <1>15 DEF ReportResult, userVars, histVars
<1>16. CASE UNCHANGED vars
  BY <1>2, <1>16 DEF vars, userVars, histVars
<1> QED
  BY <1>3, <1>4, <1>5, <1>6, <1>7, <1>8, <1>9, <1>10, <1>11, <1>12, <1>13,
     <1>14, <1>15, <1>16
  DEF Next, Agent, User

(***************************************************************************)
(* However long the batch, at most the tool already on its way runs after  *)
(* the user cancels, and no request is sent.                               *)
(***************************************************************************)
THEOREM CancelIsPrompt == Spec => []CancelBounded
<1>1. Init => CancelInv
  BY DEF Init, CancelInv
<1>2. CancelInv => CancelBounded
  BY DEF CancelInv, CancelBounded
<1> QED
  BY <1>1, <1>2, TypeInit, TypeStep, CancelStep, PTL DEF Spec
-----------------------------------------------------------------------------
(***************************************************************************)
(* Consent.  The model never switches to a mode that grants more than the  *)
(* mode the user chose last, so what the mode of the moment allows, the    *)
(* user allowed.                                                           *)
(***************************************************************************)
ConsentInv ==
    /\ mode \in {"Bypass", "AcceptEdits"} => userMode = mode
    /\ ConsentRespected

\* A call the decision procedure lets through has the user's consent.
LEMMA AllowedIsConsented ==
    ASSUME TypeInv, ConsentInv, NEW call \in Call,
           Decision(mode, call.tool, DenyRules, AllowRules \union sessionAllow)
             = "Allow"
    PROVE  Consented(call)
<1>1. call.tool \in ToolKinds /\ mode \in Modes
  BY DEF Call, TypeInv, TypeOK
<1>2. CASE mode = "Bypass"
  BY <1>2 DEF ConsentInv, Consented
<1>3. CASE mode = "Plan"
  BY <1>3 DEF Decision, PlanDecision, Consented
<1>4. CASE mode \in {"Default", "AcceptEdits"}
  <2>1. CASE call.tool \in ReadOnly
    BY <2>1 DEF ReadOnly, Destructive, Consented
  <2>2. CASE mode = "AcceptEdits" /\ call.tool = "edit"
    BY <2>2 DEF ConsentInv, Consented
  <2>3. CASE ~(\/ call.tool \in ReadOnly
               \/ mode = "AcceptEdits" /\ call.tool = "edit")
    BY <1>4, <2>3 DEF Decision, RuleOf, Consented
  <2> QED
    BY <2>1, <2>2, <2>3
<1> QED
  BY <1>1, <1>2, <1>3, <1>4 DEF Modes

LEMMA ConsentStep == TypeInv /\ ConsentInv /\ [Next]_vars => ConsentInv'
<1> SUFFICES ASSUME TypeInv, ConsentInv, [Next]_vars
             PROVE  ConsentInv'
  OBVIOUS
<1>1. ASSUME UNCHANGED <<mode, userMode>>, pc' # "body"
      PROVE  ConsentInv'
  BY <1>1 DEF ConsentInv, ConsentRespected
<1>2. ASSUME UNCHANGED <<mode, userMode, pc, batch, done, approved,
                         sessionAllow>>
      PROVE  ConsentInv'
  BY <1>2 DEF ConsentInv, ConsentRespected, Consented, Cur
<1>3. CASE \E c \in TextCosts : Submit(c)
  BY <1>1, <1>3 DEF Submit
<1>4. CASE Cancel \/ ReportResult
  BY <1>2, <1>4 DEF Cancel, ReportResult, loopVars, userVars, histVars
<1>5. CASE CompactCommand \/ SaveCheckpoint \/ RestoreCheckpoint \/ Reset
  BY <1>1, <1>5 DEF CompactCommand, SaveCheckpoint, RestoreCheckpoint, Reset,
     userVars, histVars
<1>6. ASSUME NEW m \in UserModes, SetMode(m)
      PROVE  ConsentInv'
  BY <1>6 DEF SetMode, ConsentInv, ConsentRespected
<1>7. CASE AutoCompact \/ SkipCompact \/ GiveUp \/ Request \/ RespondError
  BY <1>1, <1>7 DEF AutoCompact, SkipCompact, GiveUp, Request, RespondError,
     Finish, userVars, histVars
<1>8. ASSUME NEW c \in TextCosts,
             \/ RespondText(c)
             \/ \E n \in 1..MaxBatch : \E kinds \in [1..n -> Tools] :
                   RespondCalls(kinds, c)
      PROVE  ConsentInv'
  BY <1>1, <1>8 DEF RespondText, RespondCalls, userVars, histVars
<1>9. CASE SkipTool \/ VetoTool \/ RunTool \/ Settle \/ CloseBatch
  BY <1>1, <1>9 DEF SkipTool, Picking, VetoTool, RunTool, Settle, CloseBatch,
     userVars, histVars
<1>10. CASE SwitchPlanMode
  BY <1>10 DEF SwitchPlanMode, ConsentInv, ConsentRespected
<1>11. CASE StartTool
  <2>1. CASE pc' # "body"
    BY <1>1, <1>11, <2>1 DEF StartTool, userVars, histVars
  <2>2. CASE pc' = "body"
    <3>1. Decision(mode, Cur.tool, DenyRules, AllowRules \union sessionAllow)
            = "Allow"
      <4>1. Route(Cur.tool) = "body"
        BY <1>11, <2>2 DEF StartTool
      <4>2. Decision(mode, Cur.tool, DenyRules, AllowRules \union sessionAllow)
              \notin {"Deny", "Ask"}
        BY <4>1 DEF Route
      <4> QED
        BY <4>2 DEF Decision, PlanDecision, RuleOf, TypeInv, TypeOK, Modes
    <3>2. Cur \in Call
      BY <1>11, CurType DEF StartTool, Picking
    <3>3. Consented(Cur)
      BY <3>1, <3>2, AllowedIsConsented
    <3>4. UNCHANGED <<mode, userMode, batch, done, approved, sessionAllow>>
      BY <1>11 DEF StartTool, userVars, histVars
    <3>5. Consented(Cur)'
      BY <3>3, <3>4 DEF Consented, Cur
    <3> QED
      BY <3>4, <3>5 DEF ConsentInv, ConsentRespected
  <2> QED
    BY <2>1, <2>2
<1>12. CASE AnswerDeny
  BY <1>1, <1>12 DEF Answer, AnswerDeny
<1>13. CASE AnswerAllow \/ AnswerAllowAll \/ AnswerBypass
  <2>1. Cur' = Cur /\ Cur.id \in approved'
    BY <1>13 DEF Answer, AnswerAllow, AnswerAllowAll, AnswerBypass, Cur
  <2>2. ConsentRespected'
    BY <2>1 DEF ConsentRespected, Consented
  <2>3. mode' \in {"Bypass", "AcceptEdits"} => userMode' = mode'
    BY <1>13 DEF AnswerAllow, AnswerAllowAll, AnswerBypass, ConsentInv
  <2> QED
    BY <2>2, <2>3 DEF ConsentInv
<1>14. CASE UNCHANGED vars
  BY <1>2, <1>14 DEF vars, loopVars, userVars, histVars
<1> QED
  BY <1>3, <1>4, <1>5, <1>6, <1>7, <1>8, <1>9, <1>10, <1>11, <1>12, <1>13,
     <1>14
  DEF Next, Agent, User

(***************************************************************************)
(* No destructive tool runs that the user did not consent to, whatever     *)
(* modes the model switches to and however the batch is composed.          *)
(***************************************************************************)
THEOREM ConsentAlwaysRespected == Spec => []ConsentRespected
<1>1. Init => ConsentInv
  BY DEF Init, ConsentInv, ConsentRespected
<1>2. ConsentInv => ConsentRespected
  BY DEF ConsentInv
<1> QED
  BY <1>1, <1>2, TypeInit, TypeStep, ConsentStep, PTL DEF Spec
(***************************************************************************)
(* Plan mode.  Until the user approves leaving it, the mode is Plan or the *)
(* Default mode ExitPlanMode switches to, so a call that edits or has side *)
(* effects is refused or asked about, unless a persistent rule allows its  *)
(* kind: such a rule is the only way round the approval.                   *)
(***************************************************************************)
PlanInv ==
    /\ planned => mode \in {"Plan", "Default"}
    /\ PlanApproved

LEMMA PlanStep ==
    ASSUME AllowRules \intersect {"edit", "shell"} = {}
    PROVE  TypeInv /\ PlanInv /\ [Next]_vars => PlanInv'
<1> SUFFICES ASSUME TypeInv, PlanInv, [Next]_vars
             PROVE  PlanInv'
  OBVIOUS
<1>1. ASSUME UNCHANGED <<mode, planned>>, pc' # "body"
      PROVE  PlanInv'
  BY <1>1 DEF PlanInv, PlanApproved
<1>2. ASSUME UNCHANGED <<mode, planned, pc, batch, done, approved,
                         sessionAllow>>
      PROVE  PlanInv'
  BY <1>2 DEF PlanInv, PlanApproved, Cur
<1>3. CASE \E c \in TextCosts : Submit(c)
  BY <1>1, <1>3 DEF Submit
<1>4. CASE Cancel \/ ReportResult
  BY <1>2, <1>4 DEF Cancel, ReportResult, loopVars, userVars, histVars
<1>5. CASE CompactCommand \/ SaveCheckpoint \/ RestoreCheckpoint \/ Reset
  BY <1>1, <1>5 DEF CompactCommand, SaveCheckpoint, RestoreCheckpoint, Reset,
     userVars, histVars
<1>6. ASSUME NEW m \in UserModes, SetMode(m)
      PROVE  PlanInv'
  BY <1>6 DEF SetMode, PlanInv, PlanApproved
<1>7. CASE AutoCompact \/ SkipCompact \/ GiveUp \/ Request \/ RespondError
  BY <1>1, <1>7 DEF AutoCompact, SkipCompact, GiveUp, Request, RespondError,
     Finish, userVars, histVars
<1>8. ASSUME NEW c \in TextCosts,
             \/ RespondText(c)
             \/ \E n \in 1..MaxBatch : \E kinds \in [1..n -> Tools] :
                   RespondCalls(kinds, c)
      PROVE  PlanInv'
  BY <1>1, <1>8 DEF RespondText, RespondCalls, userVars, histVars
<1>9. CASE SkipTool \/ VetoTool \/ RunTool \/ Settle \/ CloseBatch
  BY <1>1, <1>9 DEF SkipTool, Picking, VetoTool, RunTool, Settle, CloseBatch,
     userVars, histVars
<1>10. CASE SwitchPlanMode
  BY <1>10 DEF SwitchPlanMode, PlanInv, PlanApproved
<1>11. CASE StartTool
  <2>1. CASE pc' # "body"
    BY <1>1, <1>11, <2>1 DEF StartTool, userVars, histVars
  <2>2. CASE pc' = "body"
    <3> DEFINE verdict == Decision(mode, Cur.tool, DenyRules,
                                   AllowRules \union sessionAllow)
    <3>1. verdict \notin {"Deny", "Ask"}
      <4>1. Route(Cur.tool) = "body"
        BY <1>11, <2>2 DEF StartTool
      <4> QED
        BY <4>1 DEF Route
    <3>2. ASSUME planned, Cur.tool \in {"edit", "shell"}
          PROVE  Cur.tool \in sessionAllow
      <4>1. CASE mode = "Plan"
        BY <3>1, <3>2, <4>1 DEF Decision, PlanDecision, DeniedInPlan
      <4>2. CASE mode = "Default"
        <5>1. Cur.tool \notin ReadOnly /\ Cur.tool \in Destructive
          BY <3>2 DEF ReadOnly, Destructive
        <5>2. RuleOf(Cur.tool, DenyRules, AllowRules \union sessionAllow)
                \notin {"Deny", "None"}
          BY <3>1, <4>2, <5>1 DEF Decision, RuleOf
        <5>3. Cur.tool \in AllowRules \union sessionAllow
          BY <5>2 DEF RuleOf
        <5> QED
          BY <3>2, <5>3
      <4> QED
        BY <3>2, <4>1, <4>2 DEF PlanInv
    <3>3. UNCHANGED <<mode, planned, batch, done, approved, sessionAllow>>
      BY <1>11 DEF StartTool, userVars, histVars
    <3>4. PlanApproved'
      BY <3>2, <3>3 DEF PlanApproved, Cur
    <3> QED
      BY <3>3, <3>4 DEF PlanInv
  <2> QED
    BY <2>1, <2>2
<1>12. CASE AnswerDeny
  BY <1>1, <1>12 DEF Answer, AnswerDeny
<1>13. CASE AnswerAllow \/ AnswerAllowAll \/ AnswerBypass
  <2>1. Cur' = Cur /\ Cur.id \in approved'
    BY <1>13 DEF Answer, AnswerAllow, AnswerAllowAll, AnswerBypass, Cur
  <2>2. PlanApproved'
    BY <2>1 DEF PlanApproved
  <2>3. planned' => mode' \in {"Plan", "Default"}
    BY <1>13 DEF AnswerAllow, AnswerAllowAll, AnswerBypass, PlanInv
  <2> QED
    BY <2>2, <2>3 DEF PlanInv
<1>14. CASE UNCHANGED vars
  BY <1>2, <1>14 DEF vars, loopVars, userVars, histVars
<1> QED
  BY <1>3, <1>4, <1>5, <1>6, <1>7, <1>8, <1>9, <1>10, <1>11, <1>12, <1>13,
     <1>14
  DEF Next, Agent, User

(***************************************************************************)
(* A plan is approved before it is carried out (README.md:219) as long as  *)
(* no persistent rule allows an editing tool or Bash: the violation that   *)
(* AgentPlanApproval.cfg finds needs such a rule, and nothing else breaks  *)
(* the promise.                                                            *)
(***************************************************************************)
THEOREM PlanApprovedWithoutRules ==
    ASSUME AllowRules \intersect {"edit", "shell"} = {}
    PROVE  Spec => []PlanApproved
<1>1. Init => PlanInv
  BY DEF Init, PlanInv, PlanApproved
<1>2. PlanInv => PlanApproved
  BY DEF PlanInv
<1> QED
  BY <1>1, <1>2, TypeInit, TypeStep, PlanStep, PTL DEF Spec
-----------------------------------------------------------------------------
(***************************************************************************)
(* The event stream.  What a listener has heard since the user or the      *)
(* model last spoke says where the thread is; during a batch it is the     *)
(* announcement of exactly this batch, and the results of the calls        *)
(* reported so far.                                                        *)
(***************************************************************************)
Thinking == {"compact", "gate", "respond"}

Told ==
    /\ batch # <<>>
    /\ reported <= Len(done)
    /\ Len(events) = reported + 1
    /\ events[1] = [type |-> "Assistant", calls |-> Ids(batch)]
    /\ \A i \in 1..reported :
          events[i + 1] = [type |-> "ToolResult", calls |-> <<batch[i].id>>]

StreamInv ==
    /\ pc \in Quiet => reported = 0
    /\ pc = "idle" => events = <<>> \/ Last = "Terminal"
    /\ pc \in Thinking =>
          events # <<>> /\ Last \in {"User", "Compaction", "ToolBatchSummary"}
    /\ pc \in Busy => Told

\* The last event of a longer sequence, and of one that starts anew.
LEMMA LastOf ==
    \A es \in Seq(EventRecord) : \A d, e :
        /\ es \o <<e>> # <<>> /\ es \o <<d, e>> # <<>>
        /\ (es \o <<e>>)[Len(es \o <<e>>)] = e
        /\ (es \o <<d, e>>)[Len(es \o <<d, e>>)] = e
OBVIOUS

LEMMA StreamStep == TypeInv /\ StreamInv /\ [Next]_vars => StreamInv'
<1> SUFFICES ASSUME TypeInv, StreamInv, [Next]_vars
             PROVE  StreamInv'
  OBVIOUS
<1> USE DEF Quiet, Busy, Thinking
<1>0. /\ events \in Seq(EventRecord) /\ batch \in Seq(Call)
      /\ done \in Seq(Result) /\ reported \in Nat
  BY DEF TypeInv, TypeOK
<1>1. ASSUME UNCHANGED <<events, batch, done, reported>>,
             \/ pc' = pc
             \/ pc' \in Busy /\ pc \in Busy
             \/ pc' \in Thinking /\ pc \in Thinking
      PROVE  StreamInv'
  BY <1>1 DEF StreamInv, Told, Last
<1>2. ASSUME UNCHANGED <<batch, reported>>, pc \in Quiet, pc' = "idle",
             events' # <<>>, Last' = "Terminal"
      PROVE  StreamInv'
  BY <1>2 DEF StreamInv
<1>3. ASSUME NEW c \in TextCosts, Submit(c)
      PROVE  StreamInv'
  <2>1. events' # <<>> /\ Last' = "User"
    BY <1>3 DEF Submit, Open, Event, Last
  <2> QED
    BY <1>3, <2>1 DEF Submit, StreamInv
<1>4. CASE Cancel \/ CompactCommand \/ SaveCheckpoint \/ RestoreCheckpoint
           \/ Reset
  BY <1>1, <1>4 DEF Cancel, CompactCommand, SaveCheckpoint,
     RestoreCheckpoint, Reset, loopVars
<1>5. ASSUME NEW m \in UserModes, SetMode(m)
      PROVE  StreamInv'
  BY <1>1, <1>5 DEF SetMode, loopVars
<1>6. CASE AutoCompact
  <2>1. events' # <<>> /\ Last' = "Compaction"
    BY <1>0, <1>6, LastOf DEF AutoCompact, Emit, Event, Last
  <2> QED
    BY <1>6, <2>1 DEF AutoCompact, StreamInv, loopVars
<1>7. CASE SkipCompact \/ Request
  BY <1>1, <1>7 DEF SkipCompact, Request, loopVars
<1>8. CASE GiveUp \/ RespondError
  <2>1. events' # <<>> /\ Last' = "Terminal"
    BY <1>0, <1>8, LastOf DEF GiveUp, RespondError, Finish, Emit, Event, Last
  <2> QED
    BY <1>2, <1>8, <2>1 DEF GiveUp, RespondError, Finish, loopVars
<1>9. ASSUME NEW c \in TextCosts, RespondText(c)
      PROVE  StreamInv'
  <2>1. events' # <<>> /\ Last' = "Terminal"
    BY <1>9 DEF RespondText, Open, Event, Last
  <2> QED
    BY <1>2, <1>9, <2>1 DEF RespondText, loopVars
<1>10. ASSUME NEW c \in TextCosts, NEW n \in 1..MaxBatch,
              NEW kinds \in [1..n -> Tools], RespondCalls(kinds, c)
       PROVE  StreamInv'
  <2>1. reported' = 0 /\ pc' = "pick" /\ done' = done
    BY <1>10 DEF RespondCalls, StreamInv
  <2>2. batch' = NewCalls(kinds) /\ batch' # <<>>
    BY <1>10, NewCallsType DEF RespondCalls
  <2>3. events' = <<[type |-> "Assistant", calls |-> Ids(batch')]>>
    BY <1>10 DEF RespondCalls, Open
  <2>4. Told'
    BY <1>0, <2>1, <2>2, <2>3 DEF Told
  <2> QED
    BY <2>1, <2>4 DEF StreamInv
<1>11. CASE SkipTool \/ Settle
  <2>1. \E r : done' = Append(done, r)
    BY <1>11 DEF SkipTool, Settle
  <2>2. Len(done) <= Len(done')
    BY <1>0, <2>1
  <2>3. UNCHANGED <<events, batch, reported>> /\ pc \in Busy /\ pc' \in Busy
    BY <1>11 DEF SkipTool, Picking, Settle
  <2>4. Len(done') \in Nat
    BY <1>0, <2>1
  <2> QED
    BY <1>0, <2>2, <2>3, <2>4 DEF StreamInv, Told
<1>12. CASE SwitchPlanMode \/ StartTool
  BY <1>1, <1>12 DEF SwitchPlanMode, StartTool, Picking, Route, userVars,
     histVars
<1>13. CASE AnswerAllow \/ AnswerAllowAll \/ AnswerBypass \/ AnswerDeny
  BY <1>1, <1>13 DEF AnswerAllow, AnswerAllowAll, AnswerBypass, AnswerDeny,
     Answer
<1>14. CASE VetoTool \/ RunTool
  BY <1>1, <1>14 DEF VetoTool, RunTool
<1>15. CASE ReportResult
  <2> DEFINE new == [type |-> "ToolResult", calls |-> <<batch[reported + 1].id>>]
  <2>1. /\ pc = "pick" /\ reported < Len(done) /\ reported' = reported + 1
        /\ UNCHANGED <<pc, batch, done>>
    BY <1>15 DEF ReportResult, BatchOver
  <2>2. Told
    BY <2>1 DEF StreamInv
  <2>3. done[reported + 1].id = batch[reported + 1].id
    BY <1>0, <2>1 DEF TypeInv, Progress
  <2>4. events' = events \o <<new>>
    BY <1>15, <2>3 DEF ReportResult, Emit
  <2>5. Len(events') = reported' + 1 /\ events'[reported' + 1] = new
    BY <1>0, <2>1, <2>2, <2>4 DEF Told
  <2>6. \A i \in 1..Len(events) : events'[i] = events[i]
    BY <1>0, <2>4
  <2>7. events'[1] = [type |-> "Assistant", calls |-> Ids(batch')]
    BY <1>0, <2>1, <2>2, <2>6 DEF Told
  <2>8. ASSUME NEW i \in 1..reported'
        PROVE  events'[i + 1] = [type |-> "ToolResult",
                                 calls |-> <<batch'[i].id>>]
    <3>1. CASE i = reported'
      BY <1>0, <2>1, <2>5, <3>1
    <3>2. CASE i # reported'
      <4>1. i \in 1..reported /\ i + 1 \in 1..Len(events)
        BY <1>0, <2>1, <2>2, <3>2 DEF Told
      <4> QED
        BY <2>1, <2>2, <2>6, <4>1 DEF Told
    <3> QED
      BY <3>1, <3>2
  <2>9. Told'
    <3>1. batch' # <<>> /\ reported' <= Len(done')
      BY <1>0, <2>1, <2>2 DEF Told
    <3> QED
      BY <3>1, <2>5, <2>7, <2>8 DEF Told
  <2> QED
    BY <2>1, <2>9 DEF StreamInv
<1>16. CASE CloseBatch
  <2>1. reported' = 0
    BY <1>16 DEF CloseBatch, NoBatch
  <2>2. CASE pc' = "compact" /\ Emit(<<Event("ToolBatchSummary")>>)
    <3>1. events' # <<>> /\ Last' = "ToolBatchSummary"
      BY <1>0, <2>2, LastOf DEF Emit, Event, Last
    <3> QED
      BY <2>1, <2>2, <3>1 DEF StreamInv
  <2>3. CASE pc' = "idle" /\ Emit(<<Event("ToolBatchSummary"), Event("Terminal")>>)
    <3>1. events' # <<>> /\ Last' = "Terminal"
      BY <1>0, <2>3, LastOf DEF Emit, Event, Last
    <3> QED
      BY <2>1, <2>3, <3>1 DEF StreamInv
  <2> QED
    BY <1>16, <2>2, <2>3 DEF CloseBatch
<1>17. CASE UNCHANGED vars
  BY <1>1, <1>17 DEF vars, loopVars
<1> QED
  BY <1>3, <1>4, <1>5, <1>6, <1>7, <1>8, <1>9, <1>10, <1>11, <1>12, <1>13,
     <1>14, <1>15, <1>16, <1>17
  DEF Next, Agent, User

\* The variables of TurnProtocol, as AgentLoop's Stream reads them off the
\* events, and what they are at each place of the thread.
Heard == IF events = <<>> \/ Last = "Terminal" THEN "closed"
         ELSE IF InBatch THEN "answering" ELSE "thinking"

Awaited == IF InBatch THEN Owed ELSE <<>>

LEMMA HeardWhenQuiet ==
    TypeInv /\ StreamInv /\ pc \in Quiet
        => /\ Heard = IF pc = "idle" THEN "closed" ELSE "thinking"
           /\ Awaited = <<>>
<1> SUFFICES ASSUME TypeInv, StreamInv, pc \in Quiet
             PROVE  /\ Heard = IF pc = "idle" THEN "closed" ELSE "thinking"
                    /\ Awaited = <<>>
  OBVIOUS
<1>1. CASE pc = "idle"
  BY <1>1 DEF StreamInv, Heard, Awaited, InBatch
<1>2. CASE pc \in Thinking
  BY <1>2 DEF StreamInv, Heard, Awaited, InBatch, Thinking
<1> QED
  BY <1>1, <1>2 DEF Quiet, Thinking

LEMMA HeardWhenBusy ==
    TypeInv /\ StreamInv /\ pc \in Busy
        => /\ Heard = "answering"
           /\ Awaited = SubSeq(Ids(batch), reported + 1, Len(batch))
           /\ reported <= Len(batch)
<1> SUFFICES ASSUME TypeInv, StreamInv, pc \in Busy
             PROVE  /\ Heard = "answering"
                    /\ Awaited = SubSeq(Ids(batch), reported + 1, Len(batch))
                    /\ reported <= Len(batch)
  OBVIOUS
<1>0. /\ events \in Seq(EventRecord) /\ batch \in Seq(Call)
      /\ Len(batch) \in Nat /\ reported \in Nat /\ Len(done) \in Nat
  BY DEF TypeInv, TypeOK
<1>1. Told
  BY DEF StreamInv
<1>2. reported <= Len(batch)
  BY <1>0, <1>1 DEF Told, TypeInv, Progress
<1>3. events # <<>> /\ Last \in {"Assistant", "ToolResult"}
  <2>1. CASE reported = 0
    BY <1>0, <1>1, <2>1 DEF Told, Last
  <2>2. CASE reported # 0
    <3>1. Len(events) = reported + 1 /\ reported \in 1..reported
      BY <1>0, <1>1, <2>2 DEF Told
    <3>2. events[Len(events)]
            = [type |-> "ToolResult", calls |-> <<batch[reported].id>>]
      BY <1>1, <3>1 DEF Told
    <3> QED
      BY <1>0, <3>1, <3>2 DEF Last
  <2> QED
    BY <2>1, <2>2
<1>4. InBatch /\ Heard = "answering"
  BY <1>3 DEF InBatch, Heard
<1>5. Awaited = SubSeq(Ids(batch), reported + 1, Len(batch))
  <2> DEFINE ids == Ids(batch)
             results == [i \in 1..(Len(events) - 1) |-> events[i + 1].calls[1]]
  <2>1. ids \in Seq(CallId) /\ Len(ids) = Len(batch)
    BY <1>0, IdsType DEF Ids
  <2>2. \A i \in 1..reported : ids[i] = batch[i].id
    BY <1>0, <1>2 DEF Ids
  <2>3. Len(events) - 1 = reported
    BY <1>0, <1>1 DEF Told
  <2>4. ASSUME NEW i \in 1..reported
        PROVE  events[i + 1].calls[1] = ids[i]
    <3>1. events[i + 1] = [type |-> "ToolResult", calls |-> <<batch[i].id>>]
      BY <1>1 DEF Told
    <3>2. ids[i] = batch[i].id
      BY <2>2
    <3> QED
      BY <3>1, <3>2
  <2>5. results = [i \in 1..reported |-> ids[i]]
    BY <2>3, <2>4
  <2>6. SubSeq(ids, 1, reported) = [i \in 1..reported |-> ids[i]]
    BY <1>0, <1>2, <2>1
  <2>7. Len([i \in 1..reported |-> ids[i]]) = reported
    BY <1>0
  <2>8. events[1].calls = ids
    BY <1>1 DEF Told
  <2> HIDE DEF ids
  <2>9. results = SubSeq(ids, 1, Len(results))
    BY <2>5, <2>6, <2>7
  <2>10. Owed = SubSeq(ids, Len(results) + 1, Len(ids))
    BY <2>8, <2>9 DEF Owed
  <2> QED
    BY <1>4, <2>1, <2>5, <2>7, <2>10 DEF Awaited, ids
<1> QED
  BY <1>2, <1>4, <1>5

(***************************************************************************)
(* The steps of TurnProtocol, by what becomes of its two variables.        *)
(***************************************************************************)
LEMMA OpenStep ==
    Heard = "closed" /\ Heard' = "thinking" /\ Awaited' = Awaited
        => Stream!Next
BY DEF Heard, Awaited, Stream!Next, Stream!Open

LEMMA CloseStep ==
    Heard = "thinking" /\ Heard' = "closed" /\ Awaited' = Awaited
        => Stream!Next
BY DEF Heard, Awaited, Stream!Next, Stream!Close

LEMMA AnnounceStep ==
    Heard = "thinking" /\ Heard' = "answering"
        /\ Awaited' \in Seq(CallId) /\ Awaited' # <<>> => Stream!Next
BY DEF Heard, Awaited, Stream!Next, Stream!Announce

LEMMA AnswerStep ==
    Heard = "answering" /\ Heard' = "answering"
        /\ Awaited # <<>> /\ Awaited' = Tail(Awaited) => Stream!Next
BY DEF Heard, Awaited, Stream!Next, Stream!Answer

LEMMA SummarizeStep ==
    Heard = "answering" /\ Heard' \in {"thinking", "closed"}
        /\ Awaited = <<>> /\ Awaited' = <<>> => Stream!Next
BY DEF Heard, Awaited, Stream!Next, Stream!Summarize

(***************************************************************************)
(* Submit opens a turn, RespondCalls announces a batch, ReportResult       *)
(* answers its oldest call, CloseBatch closes it, and GiveUp, RespondError *)
(* and RespondText close the turn; every other step stutters.              *)
(***************************************************************************)
LEMMA RefinesStream ==
    TypeInv /\ StreamInv /\ TypeInv' /\ StreamInv' /\ [Next]_vars
        => [Stream!Next]_<<Heard, Awaited>>
<1> SUFFICES ASSUME TypeInv, StreamInv, TypeInv', StreamInv', [Next]_vars
             PROVE  Stream!Next \/ UNCHANGED <<Heard, Awaited>>
  OBVIOUS
<1> DEFINE left == SubSeq(Ids(batch), reported + 1, Len(batch))
<1>q. pc \in Quiet => /\ Heard = IF pc = "idle" THEN "closed" ELSE "thinking"
                      /\ Awaited = <<>>
  BY HeardWhenQuiet
<1>b. pc \in Busy => /\ Heard = "answering" /\ Awaited = left
                     /\ reported <= Len(batch)
  BY HeardWhenBusy
<1>r. pc' \in Quiet =>
          /\ Heard' = IF pc' = "idle" THEN "closed" ELSE "thinking"
          /\ Awaited' = <<>>
  <2>1. TypeInv' /\ StreamInv' /\ (pc \in Quiet)'
            => (/\ Heard = IF pc = "idle" THEN "closed" ELSE "thinking"
                /\ Awaited = <<>>)'
    BY HeardWhenQuiet, PTL
  <2> QED
    BY <2>1
<1>c. pc' \in Busy => /\ Heard' = "answering" /\ Awaited' = left'
                      /\ reported' <= Len(batch')
  <2>1. TypeInv' /\ StreamInv' /\ (pc \in Busy)'
            => (/\ Heard = "answering"
                /\ Awaited = SubSeq(Ids(batch), reported + 1, Len(batch))
                /\ reported <= Len(batch))'
    BY HeardWhenBusy, PTL
  <2> QED
    BY <2>1
<1> HIDE DEF left
<1> USE DEF Quiet, Busy
<1>0. /\ Ids(batch) \in Seq(CallId) /\ Len(Ids(batch)) = Len(batch)
      /\ Len(batch) \in Nat /\ reported \in Nat
  BY IdsType DEF Ids, TypeInv, TypeOK
<1>1. CASE \E c \in TextCosts : Submit(c)
  <2>1. pc = "idle" /\ pc' = "compact"
    BY <1>1 DEF Submit
  <2> QED
    BY <1>q, <1>r, <2>1, OpenStep
<1>2. CASE \/ CompactCommand \/ SaveCheckpoint \/ RestoreCheckpoint \/ Reset
           \/ \E m \in UserModes : SetMode(m)
  <2>1. pc = "idle" /\ pc' = "idle"
    BY <1>2 DEF CompactCommand, SaveCheckpoint, RestoreCheckpoint, Reset,
       SetMode
  <2> QED
    BY <1>q, <1>r, <2>1
<1>3. CASE AutoCompact \/ SkipCompact \/ Request
  <2>1. pc \in Thinking /\ pc' \in Thinking
    BY <1>3 DEF AutoCompact, SkipCompact, Request, Thinking
  <2> QED
    BY <1>q, <1>r, <2>1 DEF Thinking
<1>4. CASE GiveUp \/ RespondError \/ \E c \in TextCosts : RespondText(c)
  <2>1. pc \in Thinking /\ pc' = "idle"
    BY <1>4 DEF GiveUp, RespondError, RespondText, Finish, Thinking
  <2> QED
    BY <1>q, <1>r, <2>1, CloseStep DEF Thinking
<1>5. ASSUME NEW c \in TextCosts, NEW n \in 1..MaxBatch,
             NEW kinds \in [1..n -> Tools], RespondCalls(kinds, c)
      PROVE  Stream!Next
  <2>1. pc = "respond" /\ pc' = "pick" /\ batch' = NewCalls(kinds)
    BY <1>5 DEF RespondCalls
  <2>2. reported' = 0
    BY <1>5 DEF RespondCalls, StreamInv
  <2>3. /\ Ids(batch') \in Seq(CallId) /\ Len(Ids(batch')) = Len(batch')
        /\ Len(batch') = n
    BY <2>1, NewCallsType DEF Ids
  <2>4. SubSeq(Ids(batch'), 1, Len(batch')) = Ids(batch')
    BY <2>3
  <2>5. Awaited' \in Seq(CallId) /\ Awaited' # <<>>
    BY <1>c, <2>1, <2>2, <2>3, <2>4 DEF left
  <2> QED
    BY <1>q, <1>c, <2>1, <2>5, AnnounceStep
<1>6. CASE \/ SkipTool \/ SwitchPlanMode \/ StartTool
           \/ AnswerAllow \/ AnswerAllowAll \/ AnswerBypass \/ AnswerDeny
           \/ VetoTool \/ RunTool \/ Settle
  <2>1. pc \in Busy /\ pc' \in Busy
    BY <1>6 DEF SkipTool, SwitchPlanMode, StartTool, Picking, Route, Answer,
       AnswerAllow, AnswerAllowAll, AnswerBypass, AnswerDeny, VetoTool,
       RunTool, Settle
  <2>2. UNCHANGED <<batch, reported>>
    BY <1>6 DEF SkipTool, SwitchPlanMode, StartTool, Answer, AnswerAllow,
       AnswerAllowAll, AnswerBypass, AnswerDeny, VetoTool, RunTool, Settle
  <2>3. left' = left
    BY <2>2 DEF left
  <2> QED
    BY <1>b, <1>c, <2>1, <2>3
<1>7. CASE ReportResult
  <2>1. pc \in Busy /\ pc' \in Busy /\ batch' = batch /\ reported < Len(batch)
    BY <1>7 DEF ReportResult, BatchOver
  <2>2. reported' = reported + 1
    BY <1>7 DEF ReportResult
  <2>3. reported + 1 \in 1..Len(Ids(batch))
    BY <1>0, <2>1
  <2>4. left' = Tail(left)
    BY <1>0, <2>1, <2>2, <2>3, HeadTailOfSubSeq DEF left
  <2>5. left # <<>>
    <3>1. \A i \in (reported + 1)..Len(batch) : Ids(batch)[i] \in CallId
      BY <1>0
    <3>2. Len(left) = Len(batch) - reported
      BY <1>0, <2>1, <3>1, SubSeqProperties DEF left
    <3> QED
      BY <1>0, <2>1, <3>2
  <2> QED
    BY <1>b, <1>c, <2>1, <2>4, <2>5, AnswerStep
<1>8. CASE CloseBatch
  <2>1. pc = "pick" /\ pc' \in {"compact", "idle"} /\ reported = Len(batch)
    BY <1>8 DEF CloseBatch, BatchOver
  <2>2. left = <<>>
    BY <1>0, <2>1 DEF left
  <2> QED
    BY <1>b, <1>r, <2>1, <2>2, SummarizeStep
<1>9. CASE Cancel \/ UNCHANGED vars
  BY <1>9 DEF Cancel, vars, Heard, Awaited, InBatch, Last, Owed
<1> QED
  BY <1>1, <1>2, <1>3, <1>4, <1>5, <1>6, <1>7, <1>8, <1>9
  DEF Next, Agent, User

(***************************************************************************)
(* The agent loop implements TurnProtocol, for batches of any length, any  *)
(* number of turns, and a cancellation at any step: whoever listens hears  *)
(* each announced call answered once and in order, and each turn end once. *)
(***************************************************************************)
THEOREM ProtocolIsKept == Spec => KeepsTurnProtocol
<1>1. Init => Stream!Init
  BY DEF Init, Stream!Init, InBatch
<1>2. Init => StreamInv
  BY DEF Init, StreamInv, Quiet, Busy, Thinking
<1>3. TypeInv /\ StreamInv /\ TypeInv' /\ StreamInv' /\ [Next]_vars
          => [Stream!Next]_<<Heard, Awaited>>
  BY RefinesStream
<1> QED
  BY <1>1, <1>2, <1>3, TypeInit, TypeStep, StreamStep, PTL
  DEF Spec, KeepsTurnProtocol, Stream!Spec, Stream!vars, Heard, Awaited
-----------------------------------------------------------------------------
\* Induction on the natural numbers, over a set instead of a predicate.
LEMMA SetInduction ==
    ASSUME NEW S, 0 \in S, \A n \in Nat : n \in S => n + 1 \in S
    PROVE  Nat \subseteq S
<1> SUFFICES ASSUME Nat \ S # {}
             PROVE  FALSE
  OBVIOUS
<1> DEFINE T == Nat \ S
<1>1. PICK m \in T : \A n \in T : ~(<<n, m>> \in OpToRel(<, Nat))
  BY NatLessThanWellFounded, WFMin
<1>2. m \in Nat /\ m \notin S /\ m # 0
  OBVIOUS
<1>3. m - 1 \in Nat /\ m = (m - 1) + 1 /\ m - 1 < m
  BY <1>2
<1>4. m - 1 \in T
  BY <1>2, <1>3
<1>5. <<m - 1, m>> \in OpToRel(<, Nat)
  BY <1>2, <1>3 DEF OpToRel
<1> QED
  BY <1>1, <1>4, <1>5

(***************************************************************************)
(* The token estimate.  f holds the partial sums of the costs of ms.       *)
(***************************************************************************)
PartialSums(ms, n, f) ==
    f = [i \in 0..n |-> IF i = 0 THEN 0 ELSE f[i - 1] + ms[i].cost]

\* The recursion that defines Total has a solution.
LEMMA PartialSumsExist ==
    ASSUME NEW ms, NEW n \in Nat
    PROVE  \E f : PartialSums(ms, n, f)
<1> DEFINE S == {k \in Nat : \E f : PartialSums(ms, k, f)}
<1>1. 0 \in S
  <2>1. PartialSums(ms, 0, [i \in 0..0 |-> 0])
    BY DEF PartialSums
  <2> QED
    BY <2>1
<1>2. ASSUME NEW k \in Nat, k \in S
      PROVE  k + 1 \in S
  <2>1. PICK f : PartialSums(ms, k, f)
    BY <1>2
  <2> DEFINE g == [i \in 0..(k + 1) |->
                     IF i = k + 1 THEN f[k] + ms[k + 1].cost ELSE f[i]]
  <2>2. ASSUME NEW i \in 0..(k + 1)
        PROVE  g[i] = IF i = 0 THEN 0 ELSE g[i - 1] + ms[i].cost
    <3>1. CASE i = k + 1
      <4>1. g[i] = f[k] + ms[k + 1].cost
        BY <3>1
      <4>2. i - 1 = k /\ k \in 0..(k + 1) /\ k # k + 1 /\ i # 0
        BY <3>1
      <4>3. g[i - 1] = f[k]
        BY <4>2
      <4> QED
        BY <4>1, <4>2, <4>3, <3>1
    <3>2. CASE i # k + 1
      <4>1. i \in 0..k /\ g[i] = f[i]
        BY <3>2
      <4>2. f[i] = IF i = 0 THEN 0 ELSE f[i - 1] + ms[i].cost
        BY <2>1, <4>1 DEF PartialSums
      <4>3. i # 0 => g[i - 1] = f[i - 1]
        BY <3>2
      <4> QED
        BY <4>1, <4>2, <4>3
    <3> QED
      BY <3>1, <3>2
  <2>3. g = [i \in 0..(k + 1) |-> g[i]]
    OBVIOUS
  <2> HIDE DEF g
  <2>4. PartialSums(ms, k + 1, g)
    BY <2>2, <2>3 DEF PartialSums
  <2> QED
    BY <2>4
<1> HIDE DEF S
<1>3. Nat \subseteq S
  BY <1>1, <1>2, SetInduction
<1> QED
  BY <1>3 DEF S

\* Total is the last of them, and they are natural numbers.
LEMMA TotalIsSum ==
    ASSUME NEW ms \in Seq(Message)
    PROVE  \E f : /\ f \in [0..Len(ms) -> Nat]
                  /\ f[0] = 0
                  /\ \A i \in 1..Len(ms) : f[i] = f[i - 1] + ms[i].cost
                  /\ Total(ms) = f[Len(ms)]
<1> DEFINE sum == CHOOSE f : f = [i \in 0..Len(ms) |->
                     IF i = 0 THEN 0 ELSE f[i - 1] + ms[i].cost]
<1>1. \E f : PartialSums(ms, Len(ms), f)
  BY PartialSumsExist
<1>2. PartialSums(ms, Len(ms), sum)
  BY <1>1 DEF PartialSums
<1>3. Total(ms) = sum[Len(ms)]
  BY DEF Total
<1> HIDE DEF sum
<1>4. /\ DOMAIN sum = 0..Len(ms)
      /\ sum = [i \in 0..Len(ms) |-> sum[i]]
      /\ sum[0] = 0
      /\ \A i \in 1..Len(ms) : sum[i] = sum[i - 1] + ms[i].cost
  BY <1>2 DEF PartialSums
<1> DEFINE S == {k \in Nat : k <= Len(ms) => sum[k] \in Nat}
<1>5. 0 \in S
  BY <1>4
<1>6. ASSUME NEW k \in Nat, k \in S
      PROVE  k + 1 \in S
  <2> SUFFICES ASSUME k + 1 <= Len(ms)
               PROVE  sum[k + 1] \in Nat
    OBVIOUS
  <2>1. k + 1 \in 1..Len(ms) /\ (k + 1) - 1 = k /\ k <= Len(ms)
    OBVIOUS
  <2>2. ms[k + 1] \in Message
    BY <2>1
  <2>3. ms[k + 1].cost \in Nat
    BY <2>2 DEF Message
  <2>4. sum[k] \in Nat
    BY <1>6, <2>1
  <2>5. sum[k + 1] = sum[k] + ms[k + 1].cost
    BY <1>4, <2>1
  <2> HIDE DEF S
  <2> QED
    BY <2>3, <2>4, <2>5
<1> HIDE DEF S
<1>7. Nat \subseteq S
  BY <1>5, <1>6, SetInduction
<1>8. \A k \in 0..Len(ms) : sum[k] \in Nat
  BY <1>7 DEF S
<1>9. sum \in [0..Len(ms) -> Nat]
  BY <1>4, <1>8
<1> QED
  BY <1>3, <1>4, <1>9

\* A function with the recursion of Total ends in Total.
LEMMA TotalIs ==
    ASSUME NEW ms \in Seq(Message), NEW g \in [0..Len(ms) -> Int],
           g[0] = 0, \A i \in 1..Len(ms) : g[i] = g[i - 1] + ms[i].cost
    PROVE  Total(ms) = g[Len(ms)]
<1>1. PICK f : /\ f \in [0..Len(ms) -> Nat]
               /\ f[0] = 0
               /\ \A i \in 1..Len(ms) : f[i] = f[i - 1] + ms[i].cost
               /\ Total(ms) = f[Len(ms)]
  BY TotalIsSum
<1> DEFINE S == {k \in Nat : k <= Len(ms) => f[k] = g[k]}
<1>2. 0 \in S
  BY <1>1
<1>3. ASSUME NEW k \in Nat, k \in S
      PROVE  k + 1 \in S
  <2> SUFFICES ASSUME k + 1 <= Len(ms)
               PROVE  f[k + 1] = g[k + 1]
    OBVIOUS
  <2>1. k + 1 \in 1..Len(ms) /\ (k + 1) - 1 = k /\ k <= Len(ms)
    OBVIOUS
  <2>2. f[k] = g[k]
    BY <1>3, <2>1
  <2>3. /\ f[k + 1] = f[k] + ms[k + 1].cost
        /\ g[k + 1] = g[k] + ms[k + 1].cost
    BY <1>1, <2>1
  <2> HIDE DEF S
  <2> QED
    BY <2>2, <2>3
<1> HIDE DEF S
<1>4. Nat \subseteq S
  BY <1>2, <1>3, SetInduction
<1>5. Len(ms) \in Nat
  OBVIOUS
<1> QED
  BY <1>1, <1>4, <1>5 DEF S

LEMMA TotalType ==
    ASSUME NEW ms \in Seq(Message)
    PROVE  Total(ms) \in Nat
<1>1. Len(ms) \in 0..Len(ms)
  OBVIOUS
<1> QED
  BY <1>1, TotalIsSum

\* The estimate of a message in front of a suffix, from the partial sums f.
LEMMA TotalBehind ==
    ASSUME NEW ms \in Seq(Message), NEW c \in Nat, NEW j \in 0..Len(ms),
           NEW f \in [0..Len(ms) -> Nat], f[0] = 0,
           \A i \in 1..Len(ms) : f[i] = f[i - 1] + ms[i].cost
    PROVE  Total(Behind(c, ms, j)) = c + f[Len(ms)] - f[j]
<1> DEFINE b == Behind(c, ms, j)
           n == Len(ms) - j + 1
           g == [i \in 0..n |-> IF i = 0 THEN 0 ELSE c + f[i + j - 1] - f[j]]
<1>1. /\ b \in Seq(Message)
      /\ Len(b) = n
      /\ b[1] = UserText(c)
      /\ \A i \in 2..n : b[i] = ms[i + j - 1]
  BY BehindElements
<1>2. n \in Nat /\ n # 0 /\ Len(ms) \in Nat /\ j \in Nat
  OBVIOUS
<1>3. b[1].cost = c
  BY <1>1 DEF UserText
<1> HIDE DEF b
<1>4. \A i \in 1..n : i + j - 1 \in 0..Len(ms)
  OBVIOUS
<1>5. g \in [0..n -> Int] /\ g[0] = 0
  BY <1>2, <1>4
<1>6. ASSUME NEW i \in 1..n
      PROVE  g[i] = g[i - 1] + b[i].cost
  <2>1. CASE i = 1
    <3>1. g[i] = c + f[j] - f[j] /\ g[i - 1] = 0 /\ f[j] \in Nat
      BY <2>1, <1>2
    <3> QED
      BY <3>1, <1>3, <2>1
  <2>2. CASE i # 1
    <3>1. /\ i \in 2..n /\ i - 1 \in 1..n
          /\ i + j - 1 \in 1..Len(ms)
          /\ (i - 1) + j - 1 = (i + j - 1) - 1
          /\ (i + j - 1) - 1 \in 0..Len(ms)
      BY <2>2, <1>2
    <3>2. b[i] = ms[i + j - 1]
      BY <1>1, <3>1
    <3>3. f[i + j - 1] = f[(i + j - 1) - 1] + ms[i + j - 1].cost
      BY <3>1
    <3>4. /\ g[i] = c + f[i + j - 1] - f[j]
          /\ g[i - 1] = c + f[(i - 1) + j - 1] - f[j]
      BY <3>1
    <3>5. ms[i + j - 1] \in Message
      BY <3>1
    <3>6. ms[i + j - 1].cost \in Nat
      BY <3>5 DEF Message
    <3>7. f[(i + j - 1) - 1] \in Nat /\ f[j] \in Nat
      BY <3>1
    <3> HIDE DEF g
    <3> QED
      BY <3>1, <3>2, <3>3, <3>4, <3>6, <3>7
  <2> QED
    BY <2>1, <2>2
<1>7. g[n] = c + f[Len(ms)] - f[j]
  BY <1>2
<1> HIDE DEF g, n
<1>8. Total(b) = g[Len(b)]
  BY <1>1, <1>5, <1>6, TotalIs
<1> QED
  BY <1>1, <1>7, <1>8 DEF b

\* A nonempty set of natural numbers has a least element.
LEMMA LeastElement ==
    ASSUME NEW T, T \subseteq Nat, T # {}
    PROVE  \E m \in T : \A n \in T : m <= n
<1>1. PICK m \in T : \A n \in T : ~(<<n, m>> \in OpToRel(<, Nat))
  BY NatLessThanWellFounded, WFMin
<1>2. ASSUME NEW n \in T
      PROVE  m <= n
  <2>1. m \in Nat /\ n \in Nat
    OBVIOUS
  <2>2. ~(n < m)
    BY <1>1, <2>1 DEF OpToRel
  <2> QED
    BY <2>1, <2>2
<1> QED
  BY <1>2

\* The boundary of a compaction exists and is unique ...
LEMMA BoundaryIsUnique ==
    ASSUME NEW ms \in Seq(Message), Len(ms) > WindowSize
    PROVE  /\ \E s \in 0..Len(ms) : Boundary(ms, s)
           /\ \A s, t : Boundary(ms, s) /\ Boundary(ms, t) => s = t
<1>1. WindowSize \in Nat /\ Len(ms) \in Nat /\ Len(ms) - WindowSize \in Nat
  BY AgentLoopAssumption DEF AgentLoopAssumption
<1> DEFINE T == {s \in (Len(ms) - WindowSize)..Len(ms) :
                   s < Len(ms) => ms[s + 1].role = "assistant"}
<1>2. T \subseteq Nat /\ Len(ms) \in T
  BY <1>1
<1>3. PICK s \in T : \A t \in T : s <= t
  BY <1>2, LeastElement
<1>4. Boundary(ms, s)
  <2>1. ASSUME NEW i \in (Len(ms) - WindowSize)..(s - 1)
        PROVE  ms[i + 1].role # "assistant"
    <3>1. i \in (Len(ms) - WindowSize)..Len(ms) /\ i < Len(ms) /\ ~(s <= i)
      BY <1>1
    <3>2. i \notin T
      BY <1>3, <3>1
    <3> QED
      BY <3>1, <3>2
  <2> QED
    BY <2>1 DEF Boundary
<1>5. ASSUME NEW x, NEW y, Boundary(ms, x), Boundary(ms, y)
      PROVE  ~(x < y)
  <2> SUFFICES ASSUME x < y
               PROVE  FALSE
    OBVIOUS
  <2>1. /\ x \in (Len(ms) - WindowSize)..(y - 1)
        /\ x < Len(ms)
    BY <1>1, <1>5 DEF Boundary
  <2> QED
    BY <2>1, <1>5 DEF Boundary
<1>6. ASSUME NEW x, NEW y, Boundary(ms, x), Boundary(ms, y)
      PROVE  x = y
  <2>1. x \in Int /\ y \in Int
    BY <1>1, <1>6 DEF Boundary
  <2> QED
    BY <2>1, <1>5, <1>6
<1> QED
  BY <1>1, <1>4, <1>6

\* ... and so does the number of messages dropped after the summary.
LEMMA DropCountIsUnique ==
    ASSUME NEW ms \in Seq(Message), ms # <<>>
    PROVE  /\ \E d : DropCount(ms, d)
           /\ \A d, e : DropCount(ms, d) /\ DropCount(ms, e) => d = e
<1>1. MaxTokens \in Nat /\ Len(ms) \in Nat /\ Len(ms) - 1 \in Nat
  BY AgentLoopAssumption DEF AgentLoopAssumption
<1>2. ASSUME NEW d \in 0..(Len(ms) - 1)
      PROVE  Total(DropAfterFirst(ms, d)) \in Nat
  <2>1. ms[1] \in Message
    BY <1>1
  <2>2. SubSeq(ms, d + 2, Len(ms)) \in Seq(Message)
    BY <1>1
  <2>3. DropAfterFirst(ms, d) \in Seq(Message)
    BY <2>1, <2>2 DEF DropAfterFirst
  <2> QED
    BY <2>3, TotalType
<1> DEFINE T == {d \in 0..(Len(ms) - 1) : d < Len(ms) - 1 =>
                    Total(DropAfterFirst(ms, d)) <= MaxTokens}
<1>3. T \subseteq Nat /\ Len(ms) - 1 \in T
  BY <1>1
<1>4. PICK d \in T : \A e \in T : d <= e
  BY <1>3, LeastElement
<1>5. DropCount(ms, d)
  <2>1. ASSUME NEW e \in 0..(d - 1)
        PROVE  Total(DropAfterFirst(ms, e)) > MaxTokens
    <3>1. e \in 0..(Len(ms) - 1) /\ e < Len(ms) - 1 /\ ~(d <= e)
      BY <1>1, <1>4
    <3>2. ~(Total(DropAfterFirst(ms, e)) <= MaxTokens)
      BY <3>1, <1>4
    <3> QED
      BY <3>1, <3>2, <1>1, <1>2
  <2> QED
    BY <2>1, <1>4 DEF DropCount
<1>6. ASSUME NEW x, NEW y, DropCount(ms, x), DropCount(ms, y)
      PROVE  ~(x < y)
  <2> SUFFICES ASSUME x < y
               PROVE  FALSE
    OBVIOUS
  <2>1. /\ x \in 0..(Len(ms) - 1) /\ y \in 0..(Len(ms) - 1)
        /\ x \in 0..(y - 1) /\ x < Len(ms) - 1
    BY <1>1, <1>6 DEF DropCount
  <2>2. /\ Total(DropAfterFirst(ms, x)) > MaxTokens
        /\ Total(DropAfterFirst(ms, x)) <= MaxTokens
    BY <2>1, <1>6 DEF DropCount
  <2> QED
    BY <2>1, <2>2, <1>1, <1>2
<1>7. ASSUME NEW x, NEW y, DropCount(ms, x), DropCount(ms, y)
      PROVE  x = y
  <2>1. x \in Int /\ y \in Int
    BY <1>1, <1>7 DEF DropCount
  <2>2. ~(x < y) /\ ~(y < x)
    BY <1>6, <1>7
  <2> QED
    BY <2>1, <2>2
<1> QED
  BY <1>5, <1>7

(***************************************************************************)
(* Compaction always succeeds, for every transcript longer than the        *)
(* window: there is one result for each summary the model may write, no    *)
(* longer than the window and the summary, and within the hard limit       *)
(* unless it is the summary alone.                                         *)
(***************************************************************************)
Fits(new) ==
    /\ Len(new) \in 1..(WindowSize + 1)
    /\ Total(new) <= MaxTokens \/ Len(new) = 1

THEOREM CompactionSucceeds ==
    ASSUME NEW ms \in Seq(Message), Len(ms) > WindowSize
    PROVE  /\ \A c \in SummaryCosts : \E new \in Compactions(ms) :
                 /\ new[1] = UserText(c)
                 /\ \A other \in Compactions(ms) :
                        other[1] = UserText(c) => other = new
           /\ \A new \in Compactions(ms) : Fits(new)
<1>0. SummaryCosts \subseteq Nat /\ WindowSize \in Nat /\ Len(ms) \in Nat
  BY AgentLoopAssumption DEF AgentLoopAssumption
<1>1. ASSUME NEW s \in 0..Len(ms), NEW c \in SummaryCosts
      PROVE  /\ Fold(ms, s, c) = Behind(c, ms, s)
             /\ Fold(ms, s, c) \in Seq(Message)
             /\ Len(Fold(ms, s, c)) = Len(ms) - s + 1
             /\ Fold(ms, s, c) # <<>>
  <2>1. Fold(ms, s, c) = Behind(c, ms, s)
    BY DEF Fold, Behind
  <2>2. /\ Fold(ms, s, c) \in Seq(Message)
        /\ Len(Fold(ms, s, c)) = Len(ms) - s + 1
    BY <1>0, <2>1, BehindElements
  <2>3. Len(Fold(ms, s, c)) # 0
    BY <1>0, <2>2
  <2> QED
    BY <2>1, <2>2, <2>3
<1>2. ASSUME NEW s \in 0..Len(ms), NEW c \in SummaryCosts, NEW d,
             Boundary(ms, s), DropCount(Fold(ms, s, c), d)
      PROVE  LET new == DropAfterFirst(Fold(ms, s, c), d)
             IN  /\ d \in 0..Len(ms)
                 /\ new = Behind(c, ms, s + d)
                 /\ new[1] = UserText(c)
                 /\ Fits(new)
  <2>1. d \in 0..(Len(ms) - s)
    BY <1>0, <1>1, <1>2 DEF DropCount
  <2>2. DropAfterFirst(Fold(ms, s, c), d) = Behind(c, ms, s + d)
    BY <1>0, <1>1, <2>1, DropBehind
  <2>3. s + d \in 0..Len(ms) /\ d \in 0..Len(ms)
    BY <2>1, <1>0
  <2>4. /\ Behind(c, ms, s + d)[1] = UserText(c)
        /\ Len(Behind(c, ms, s + d)) = Len(ms) - (s + d) + 1
    BY <2>3, <1>0, BehindElements
  <2>5. s >= Len(ms) - WindowSize
    BY <1>0, <1>2 DEF Boundary
  <2>6. Len(Behind(c, ms, s + d)) \in 1..(WindowSize + 1)
    BY <1>0, <2>1, <2>4, <2>5
  <2>7. d < Len(ms) - s => Total(DropAfterFirst(Fold(ms, s, c), d)) <= MaxTokens
    BY <1>0, <1>1, <1>2 DEF DropCount
  <2>8. d = Len(ms) - s => Len(Behind(c, ms, s + d)) = 1
    BY <1>0, <2>4
  <2>9. d < Len(ms) - s \/ d = Len(ms) - s
    BY <1>0, <2>1
  <2>10. Fits(Behind(c, ms, s + d))
    BY <2>2, <2>6, <2>7, <2>8, <2>9 DEF Fits
  <2> QED
    BY <2>2, <2>3, <2>4, <2>10
<1>3. PICK s \in 0..Len(ms) : Boundary(ms, s)
  BY BoundaryIsUnique
<1>4. \A new \in Compactions(ms) :
        \E c \in SummaryCosts, d \in 0..Len(ms) :
           /\ DropCount(Fold(ms, s, c), d)
           /\ new = DropAfterFirst(Fold(ms, s, c), d)
  BY <1>3, BoundaryIsUnique DEF Compactions
<1>5. \A c, b : UserText(c) = UserText(b) => c = b
  BY DEF UserText
<1>6. ASSUME NEW c \in SummaryCosts
      PROVE  \E new \in Compactions(ms) :
                /\ new[1] = UserText(c)
                /\ \A other \in Compactions(ms) :
                       other[1] = UserText(c) => other = new
  <2>1. PICK d : DropCount(Fold(ms, s, c), d)
    BY <1>1, DropCountIsUnique
  <2> DEFINE new == DropAfterFirst(Fold(ms, s, c), d)
  <2>2. d \in 0..Len(ms) /\ new[1] = UserText(c)
    BY <1>2, <1>3, <2>1
  <2>3. new \in Compactions(ms)
    <3>1. <<s, c, d>> \in (0..Len(ms)) \X SummaryCosts \X (0..Len(ms))
      BY <2>2
    <3> QED
      BY <1>3, <2>1, <3>1 DEF Compactions
  <2>4. ASSUME NEW other \in Compactions(ms), other[1] = UserText(c)
        PROVE  other = new
    <3>1. PICK b \in SummaryCosts, e \in 0..Len(ms) :
             /\ DropCount(Fold(ms, s, b), e)
             /\ other = DropAfterFirst(Fold(ms, s, b), e)
      BY <1>4
    <3>2. other[1] = UserText(b)
      BY <1>2, <1>3, <3>1
    <3>3. b = c
      BY <1>5, <2>4, <3>2
    <3>4. e = d
      BY <1>1, <2>1, <3>1, <3>3, DropCountIsUnique
    <3> QED
      BY <3>1, <3>3, <3>4
  <2> QED
    BY <2>2, <2>3, <2>4
<1>7. \A new \in Compactions(ms) : Fits(new)
  BY <1>2, <1>3, <1>4
<1> QED
  BY <1>6, <1>7
-----------------------------------------------------------------------------
(***************************************************************************)
(* The converse of UsesAnswered: no result without its call.  A transcript *)
(* is paired when it has that property; only user messages carry results.  *)
(***************************************************************************)
Paired(ms) ==
    \A i \in DOMAIN ms : ms[i].results # <<>> =>
        /\ ms[i].role = "user"
        /\ i > 1 /\ ms[i - 1].uses = ms[i].results

EndsWith(ms, ids) ==
    /\ ms # <<>>
    /\ ms[Len(ms)].role = "assistant"
    /\ ms[Len(ms)].uses = ids

\* The fold of a compaction begins at an assistant message, so it separates
\* no results from their calls, and a transcript that ends in an assistant
\* message still does.
LEMMA FoldKeepsPairs ==
    ASSUME NEW ms \in Seq(Message), Len(ms) > WindowSize, Paired(ms),
           NEW s \in 0..Len(ms), Boundary(ms, s), NEW c \in Nat
    PROVE  /\ Paired(Fold(ms, s, c))
           /\ \A ids : EndsWith(ms, ids) => EndsWith(Fold(ms, s, c), ids)
<1> DEFINE b == Behind(c, ms, s)
<1>1. Fold(ms, s, c) = b
  BY DEF Fold, Behind
<1>2. /\ b \in Seq(Message)
      /\ Len(b) = Len(ms) - s + 1
      /\ b[1] = UserText(c)
      /\ \A i \in 2..(Len(ms) - s + 1) : b[i] = ms[i + s - 1]
  BY BehindElements
<1>3. Len(ms) \in Nat /\ WindowSize \in Nat \ {0} /\ DOMAIN b = 1..(Len(ms) - s + 1)
  BY <1>2, AgentLoopAssumption DEF AgentLoopAssumption
<1> HIDE DEF b
<1>4. ASSUME NEW i \in DOMAIN b, b[i].results # <<>>
      PROVE  /\ b[i].role = "user"
             /\ i > 1 /\ b[i - 1].uses = b[i].results
  <2>1. i # 1
    BY <1>2, <1>4 DEF UserText
  <2>2. /\ i \in 2..(Len(ms) - s + 1) /\ i + s - 1 \in 1..Len(ms)
        /\ b[i] = ms[i + s - 1]
    BY <1>2, <1>3, <2>1
  <2>3. /\ ms[i + s - 1].role = "user"
        /\ ms[(i + s - 1) - 1].uses = ms[i + s - 1].results
    BY <1>4, <2>2 DEF Paired
  <2>4. i # 2
    <3> SUFFICES ASSUME i = 2
                 PROVE  FALSE
      OBVIOUS
    <3>1. i + s - 1 = s + 1 /\ s < Len(ms)
      BY <2>2
    <3>2. ms[s + 1].role = "assistant"
      BY <3>1 DEF Boundary
    <3> QED
      BY <2>3, <3>1, <3>2
  <2>5. i - 1 \in 2..(Len(ms) - s + 1) /\ (i - 1) + s - 1 = (i + s - 1) - 1
    BY <2>2, <2>4
  <2>6. b[i - 1] = ms[(i + s - 1) - 1]
    BY <1>2, <2>5
  <2> QED
    BY <2>2, <2>3, <2>6
<1>5. ASSUME NEW ids, EndsWith(ms, ids)
      PROVE  EndsWith(b, ids)
  <2>1. s < Len(ms)
    <3> SUFFICES ASSUME s = Len(ms)
                 PROVE  FALSE
      OBVIOUS
    <3>1. Len(ms) - 1 \in (Len(ms) - WindowSize)..(s - 1)
      BY <1>3
    <3>2. ms[(Len(ms) - 1) + 1].role # "assistant"
      BY <3>1 DEF Boundary
    <3>3. (Len(ms) - 1) + 1 = Len(ms)
      BY <1>3
    <3> QED
      BY <1>5, <3>2, <3>3 DEF EndsWith
  <2>2. /\ Len(b) \in 2..(Len(ms) - s + 1) /\ Len(b) + s - 1 = Len(ms)
    BY <1>2, <1>3, <2>1
  <2>3. b[Len(b)] = ms[Len(ms)] /\ b # <<>>
    BY <1>2, <2>2
  <2> QED
    BY <1>5, <2>3 DEF EndsWith
<1> QED
  BY <1>1, <1>4, <1>5 DEF Paired

\* What is appended to a transcript, and where.
LEMMA AppendKeepsPairs ==
    ASSUME NEW ms \in Seq(Message), Paired(ms), NEW m \in Message
    PROVE  /\ m.results = <<>> => Paired(Append(ms, m))
           /\ m.role = "user" /\ EndsWith(ms, m.results) => Paired(Append(ms, m))
           /\ m.role = "assistant" => EndsWith(Append(ms, m), m.uses)
<1> DEFINE new == Append(ms, m)
<1>1. /\ DOMAIN new = 1..(Len(ms) + 1) /\ Len(new) = Len(ms) + 1
      /\ DOMAIN ms = 1..Len(ms) /\ Len(ms) \in Nat
      /\ new[Len(ms) + 1] = m /\ new # <<>>
      /\ \A i \in 1..Len(ms) : new[i] = ms[i]
  OBVIOUS
<1> HIDE DEF new
<1>2. ASSUME NEW i \in 1..Len(ms), new[i].results # <<>>
      PROVE  /\ new[i].role = "user"
             /\ i > 1 /\ new[i - 1].uses = new[i].results
  <2>1. /\ ms[i].role = "user"
        /\ i > 1 /\ ms[i - 1].uses = ms[i].results
    BY <1>1, <1>2 DEF Paired
  <2>2. i - 1 \in 1..Len(ms)
    BY <1>1, <2>1
  <2> QED
    BY <1>1, <2>1, <2>2
<1>3. \A i \in DOMAIN new : i \in 1..Len(ms) \/ i = Len(ms) + 1
  BY <1>1
<1>4. m.results = <<>> => Paired(new)
  BY <1>1, <1>2, <1>3 DEF Paired
<1>5. ASSUME m.role = "user", EndsWith(ms, m.results)
      PROVE  Paired(new)
  <2>1. Len(ms) \in 1..Len(ms) /\ (Len(ms) + 1) - 1 = Len(ms) /\ Len(ms) + 1 > 1
    BY <1>1, <1>5 DEF EndsWith
  <2>2. new[(Len(ms) + 1) - 1].uses = new[Len(ms) + 1].results
    BY <1>1, <1>5, <2>1 DEF EndsWith
  <2> QED
    BY <1>1, <1>2, <1>3, <1>5, <2>1, <2>2 DEF Paired
<1>6. m.role = "assistant" => EndsWith(new, m.uses)
  BY <1>1 DEF EndsWith
<1> QED
  BY <1>4, <1>5, <1>6 DEF new

(***************************************************************************)
(* The steps that may cut a result off from its call: a compaction that    *)
(* drops messages to meet the hard limit, and a Snip.                      *)
(***************************************************************************)
HardDrop ==
    /\ AutoCompact \/ CompactCommand \/ RunTool
    /\ \E s \in 0..Len(messages), c \in SummaryCosts, d \in 1..Len(messages) :
          /\ Boundary(messages, s)
          /\ DropCount(Fold(messages, s, c), d)
          /\ messages' = DropAfterFirst(Fold(messages, s, c), d)

SnipCut == RunTool /\ Cur.tool = "Snip" /\ messages' # messages

Cuts == HardDrop \/ SnipCut

PairInv ==
    /\ Paired(messages) /\ Paired(snapshot)
    /\ pc \in Busy => EndsWith(messages, Ids(batch))

\* A compaction that drops nothing is a fold.
LEMMA UncutCompaction ==
    ASSUME messages \in Seq(Message), Len(messages) > WindowSize,
           messages' \in Compactions(messages), Paired(messages),
           AutoCompact \/ CompactCommand \/ RunTool, ~HardDrop
    PROVE  /\ Paired(messages')
           /\ \A ids : EndsWith(messages, ids) => EndsWith(messages', ids)
<1>1. PICK s \in 0..Len(messages), c \in SummaryCosts, d \in 0..Len(messages) :
         /\ Boundary(messages, s)
         /\ DropCount(Fold(messages, s, c), d)
         /\ messages' = DropAfterFirst(Fold(messages, s, c), d)
  BY DEF Compactions
<1>2. d = 0
  BY <1>1 DEF HardDrop
<1>3. c \in Nat
  BY AgentLoopAssumption DEF AgentLoopAssumption
<1>4. Fold(messages, s, c) = Behind(c, messages, s)
  BY DEF Fold, Behind
<1>5. messages' = Behind(c, messages, s + 0)
  BY <1>1, <1>2, <1>3, <1>4, DropBehind
<1>6. s + 0 = s
  OBVIOUS
<1> QED
  BY <1>1, <1>3, <1>4, <1>5, <1>6, FoldKeepsPairs

LEMMA PairStep ==
    TypeInv /\ PairInv /\ [Next]_vars /\ [~Cuts]_vars => PairInv'
<1> SUFFICES ASSUME TypeInv, PairInv, [Next]_vars, [~Cuts]_vars
             PROVE  PairInv'
  OBVIOUS
<1>0. messages \in Seq(Message) /\ snapshot \in Seq(Message)
  BY DEF TypeInv, TypeOK
<1>c. TextCosts \subseteq Nat
  BY AgentLoopAssumption DEF AgentLoopAssumption
<1>1. ASSUME UNCHANGED <<messages, batch, snapshot>>,
             pc' \in Busy => pc \in Busy
      PROVE  PairInv'
  BY <1>1 DEF PairInv
<1>2. ASSUME NEW c \in TextCosts, Submit(c)
      PROVE  PairInv'
  <2>1. UserText(c) \in Message /\ UserText(c).results = <<>>
    BY <1>c, MessageTypes DEF UserText
  <2>2. Paired(Append(messages, UserText(c)))
    BY <1>0, <2>1, AppendKeepsPairs DEF PairInv
  <2> QED
    BY <1>2, <2>2 DEF Submit, PairInv, Busy
<1>3. CASE Cancel
  BY <1>1, <1>3 DEF Cancel, loopVars
<1>4. CASE CompactCommand \/ AutoCompact
  <2>1. /\ Len(messages) > WindowSize
        /\ messages' \in Compactions(messages)
        /\ pc' \notin Busy /\ UNCHANGED snapshot
    BY <1>4 DEF CompactCommand, AutoCompact, CompactionDue, userVars, Busy
  <2>2. CASE UNCHANGED vars
    BY <1>1, <2>2 DEF vars, loopVars, userVars
  <2>3. CASE ~Cuts
    <3>1. Paired(messages')
      BY <1>0, <1>4, <2>1, <2>3, UncutCompaction DEF PairInv, Cuts
    <3> QED
      BY <2>1, <3>1 DEF PairInv
  <2> QED
    BY <2>2, <2>3
<1>5. CASE SaveCheckpoint \/ RestoreCheckpoint \/ Reset
  BY <1>5 DEF SaveCheckpoint, RestoreCheckpoint, Reset, PairInv, Busy, Paired,
     userVars
<1>6. ASSUME NEW m \in UserModes, SetMode(m)
      PROVE  PairInv'
  BY <1>1, <1>6 DEF SetMode, loopVars
<1>7. CASE SkipCompact \/ GiveUp \/ Request \/ RespondError
  BY <1>1, <1>7 DEF SkipCompact, GiveUp, Request, RespondError, Finish, Busy,
     loopVars, userVars
<1>8. ASSUME NEW c \in TextCosts, RespondText(c)
      PROVE  PairInv'
  <2>1. /\ AssistantText(<<>>, c) \in Message
        /\ AssistantText(<<>>, c).results = <<>>
    BY <1>c, EmptyTyped, MessageTypes DEF AssistantText
  <2>2. Paired(Append(messages, AssistantText(<<>>, c)))
    BY <1>0, <2>1, AppendKeepsPairs DEF PairInv
  <2> QED
    BY <1>8, <2>2 DEF RespondText, PairInv, Busy, userVars
<1>9. ASSUME NEW c \in TextCosts, NEW n \in 1..MaxBatch,
             NEW kinds \in [1..n -> Tools], RespondCalls(kinds, c)
      PROVE  PairInv'
  <2> DEFINE m == AssistantText(Ids(NewCalls(kinds)), c)
  <2>1. /\ m \in Message /\ m.results = <<>> /\ m.role = "assistant"
        /\ m.uses = Ids(NewCalls(kinds))
    BY <1>c, NewCallsType, MessageTypes DEF AssistantText
  <2>2. messages' = Append(messages, m) /\ batch' = NewCalls(kinds)
    BY <1>9 DEF RespondCalls
  <2> HIDE DEF m
  <2>3. Paired(messages') /\ EndsWith(messages', m.uses)
    BY <1>0, <2>1, <2>2, AppendKeepsPairs DEF PairInv
  <2>4. Ids(batch') = m.uses /\ UNCHANGED snapshot
    BY <1>9, <2>1, <2>2 DEF RespondCalls, userVars
  <2> QED
    BY <2>3, <2>4 DEF PairInv
<1>10. CASE SkipTool \/ SwitchPlanMode \/ StartTool
  BY <1>1, <1>10 DEF SkipTool, SwitchPlanMode, StartTool, Picking, Busy,
     userVars
<1>11. CASE AnswerAllow \/ AnswerAllowAll \/ AnswerBypass \/ AnswerDeny
  BY <1>1, <1>11 DEF AnswerAllow, AnswerAllowAll, AnswerBypass, AnswerDeny,
     Answer, Busy
<1>12. CASE VetoTool \/ Settle \/ ReportResult
  BY <1>1, <1>12 DEF VetoTool, Settle, ReportResult, BatchOver, Busy, userVars
<1>13. CASE RunTool
  <2>1. /\ pc \in Busy /\ UNCHANGED <<batch, snapshot>>
        /\ Paired(messages) /\ EndsWith(messages, Ids(batch))
    BY <1>13 DEF RunTool, Busy, PairInv, userVars
  <2>2. CASE messages' = messages
    BY <2>1, <2>2 DEF PairInv
  <2>3. CASE messages' # messages
    <3>1. ~Cuts
      BY <2>3 DEF vars
    <3>2. messages' \in Rewritten(Cur.tool) /\ Cur.tool # "Snip"
      BY <1>13, <2>3, <3>1 DEF RunTool, Cuts, SnipCut
    <3>3. /\ Len(messages) > WindowSize
          /\ messages' \in Compactions(messages)
      BY <2>3, <3>2 DEF Rewritten
    <3>4. Paired(messages') /\ EndsWith(messages', Ids(batch))
      BY <1>0, <1>13, <2>1, <3>1, <3>3, UncutCompaction DEF Cuts
    <3> QED
      BY <2>1, <3>4 DEF PairInv
  <2> QED
    BY <2>2, <2>3
<1>14. CASE CloseBatch
  <2> DEFINE m == ToolResults(Ids(batch))
  <2>1. m \in Message /\ m.role = "user" /\ m.results = Ids(batch)
    BY IdsType, MessageTypes DEF ToolResults
  <2>2. messages' = Append(messages, m)
    BY <1>14, ResultsMatchBatch DEF CloseBatch, BatchOver
  <2>3. pc' \notin Busy /\ UNCHANGED snapshot /\ pc \in Busy
    BY <1>14 DEF CloseBatch, BatchOver, Busy, userVars
  <2> HIDE DEF m
  <2>4. Paired(messages')
    BY <1>0, <2>1, <2>2, <2>3, AppendKeepsPairs DEF PairInv
  <2> QED
    BY <2>3, <2>4 DEF PairInv
<1>15. CASE UNCHANGED vars
  BY <1>1, <1>15 DEF vars, loopVars, userVars
<1> QED
  BY <1>2, <1>3, <1>4, <1>5, <1>6, <1>7, <1>8, <1>9, <1>10, <1>11, <1>12,
     <1>13, <1>14, <1>15
  DEF Next, Agent, User

(***************************************************************************)
(* Results are orphaned by a drop to the hard limit or a Snip, and by      *)
(* nothing else: not by the fold of a compaction, wherever its boundary    *)
(* falls, not by Brief in the middle of a batch, not by /clear or /rewind. *)
(* The violation AgentOrphans.cfg finds has no other cause.                *)
(***************************************************************************)
THEOREM OrphansNeedACut == Spec /\ [][~Cuts]_vars => []ResultsHaveUses
<1>1. Init => PairInv
  BY DEF Init, PairInv, Paired, Busy
<1>2. PairInv => ResultsHaveUses
  BY DEF PairInv, ResultsHaveUses, Paired
<1> QED
  BY <1>1, <1>2, TypeInit, TypeStep, PairStep, PTL DEF Spec
-----------------------------------------------------------------------------
(***************************************************************************)
(* The measure of a run.  What makes it a natural number: no more requests *)
(* than the cap, no more calls than a batch holds, no more reports than    *)
(* results.                                                                *)
(***************************************************************************)
WorkInv ==
    /\ step <= MaxTurns
    /\ pc \in Busy \union {"respond"} => step >= 1
    /\ Len(batch) <= MaxBatch
    /\ reported <= Len(done)

LEMMA WorkConstants ==
    /\ MaxTurns \in Nat /\ MaxBatch \in Nat /\ TurnWork \in Nat
    /\ \A t \in Nat : t * TurnWork \in Nat
    /\ \A t \in 1..MaxTurns : t * TurnWork = (t - 1) * TurnWork + TurnWork
    /\ \A t \in 0..MaxTurns : t * TurnWork <= MaxTurns * TurnWork
<1>1. MaxTurns \in Nat /\ MaxBatch \in Nat /\ TurnWork \in Nat
  BY AgentLoopAssumption DEF AgentLoopAssumption, TurnWork
<1> HIDE DEF TurnWork
<1> QED
  BY <1>1

LEMMA WorkStep == TypeInv /\ WorkInv /\ [Next]_vars => WorkInv'
<1> SUFFICES ASSUME TypeInv, WorkInv, [Next]_vars
             PROVE  WorkInv'
  OBVIOUS
<1>0. /\ MaxTurns \in Nat /\ step \in Nat /\ MaxBatch \in Nat
      /\ reported \in Nat /\ Len(done) \in Nat /\ Len(batch) \in Nat
      /\ done \in Seq(Result) /\ batch \in Seq(Call)
  BY WorkConstants DEF TypeInv, TypeOK
<1>1. ASSUME NEW c \in TextCosts, NEW n \in 1..MaxBatch,
             NEW kinds \in [1..n -> Tools], RespondCalls(kinds, c)
      PROVE  WorkInv'
  BY <1>0, <1>1, NewCallsType DEF RespondCalls, WorkInv
<1>2. CASE SkipTool \/ Settle
  <2>1. /\ pc \in Busy /\ UNCHANGED <<step, batch, reported>>
        /\ Len(done') = Len(done) + 1
    BY <1>0, <1>2 DEF SkipTool, Settle, Picking, Busy
  <2> QED
    BY <1>0, <2>1 DEF WorkInv
<1>3. CASE CloseBatch
  BY <1>0, <1>3 DEF CloseBatch, NoBatch, WorkInv, Busy
<1>4. CASE Request \/ ReportResult
  BY <1>0, <1>4 DEF Request, ReportResult, BatchOver, WorkInv, Busy
<1>5. CASE (\E c \in TextCosts : Submit(c)) \/ Reset
  BY <1>0, <1>5 DEF Submit, Reset, WorkInv, Busy
<1>6. CASE /\ UNCHANGED <<step, batch, done, reported>>
           /\ pc' \in Busy \union {"respond"} => pc \in Busy \union {"respond"}
  BY <1>6 DEF WorkInv
<1> QED
  BY <1>1, <1>2, <1>3, <1>4, <1>5, <1>6
  DEF Next, Agent, User, vars, loopVars, Cancel, CompactCommand,
      SaveCheckpoint, RestoreCheckpoint, SetMode, AutoCompact, SkipCompact,
      GiveUp, Finish, RespondText, RespondError, SwitchPlanMode, StartTool,
      Picking, Answer, AnswerAllow, AnswerAllowAll, AnswerBypass, AnswerDeny,
      VetoTool, RunTool, Busy

\* While a run is on, there is something left to do, and no more than a turn
\* may hold.
LEMMA RestBounds ==
    TypeInv /\ WorkInv /\ pc # "idle" =>
        /\ Rest \in 1..TurnWork
        /\ pc \in {"gate", "compact"} => Rest <= 2
<1> SUFFICES ASSUME TypeInv, WorkInv, pc # "idle"
             PROVE  /\ Rest \in 1..TurnWork
                    /\ pc \in {"gate", "compact"} => Rest <= 2
  OBVIOUS
<1>1. /\ Len(done) \in Nat /\ Len(batch) \in Nat /\ MaxBatch \in Nat
      /\ reported \in Nat
      /\ Len(done) <= Len(batch) /\ reported <= Len(done)
      /\ Len(batch) <= MaxBatch
      /\ pc \in {"ask", "body", "settle"} => Len(done) < Len(batch)
  BY WorkConstants DEF TypeInv, TypeOK, Progress, WorkInv
<1>2. pc \in {"compact", "gate", "respond", "pick", "ask", "body", "settle"}
  BY DEF TypeInv, TypeOK
<1> QED
  BY <1>1, <1>2 DEF Rest, TurnWork

LEMMA RestBoundsNext ==
    (TypeInv /\ WorkInv /\ pc # "idle" =>
        /\ Rest \in 1..TurnWork
        /\ pc \in {"gate", "compact"} => Rest <= 2)'
BY RestBounds, PTL

LEMMA WorkBounds == TypeInv /\ WorkInv => Work \in 0..(MaxTurns * TurnWork + 2)
<1> SUFFICES ASSUME TypeInv, WorkInv
             PROVE  Work \in 0..(MaxTurns * TurnWork + 2)
  OBVIOUS
<1> DEFINE t == MaxTurns - step
<1>1. /\ MaxTurns \in Nat /\ TurnWork \in Nat /\ step \in Nat /\ t \in 0..MaxTurns
  BY WorkConstants DEF TypeInv, TypeOK, WorkInv
<1>2. /\ t * TurnWork \in Nat /\ MaxTurns * TurnWork \in Nat
      /\ t * TurnWork <= MaxTurns * TurnWork
  BY <1>1, WorkConstants
<1>3. CASE pc = "idle"
  BY <1>2, <1>3 DEF Work
<1>4. CASE pc \in {"gate", "compact"}
  BY <1>2, <1>4, RestBounds, <1>1 DEF Work
<1>5. CASE pc \notin {"idle", "gate", "compact"}
  <2>1. t + 1 \in 1..MaxTurns
    BY <1>1, <1>5 DEF WorkInv, TypeInv, TypeOK, Busy
  <2>2. (t + 1) * TurnWork = ((t + 1) - 1) * TurnWork + TurnWork
    BY <2>1, WorkConstants
  <2>3. (t + 1) * TurnWork <= MaxTurns * TurnWork
    BY <2>1, WorkConstants
  <2>4. (t + 1) - 1 = t
    BY <1>1
  <2>5. Rest \in 1..TurnWork
    BY <1>5, RestBounds
  <2>6. Work = t * TurnWork + Rest
    BY <1>5 DEF Work
  <2> HIDE DEF t
  <2> QED
    BY <1>1, <1>2, <2>2, <2>3, <2>4, <2>5, <2>6
<1> QED
  BY <1>3, <1>4, <1>5

LEMMA WorkBoundsNext ==
    (TypeInv /\ WorkInv => Work \in 0..(MaxTurns * TurnWork + 2))'
BY WorkBounds, PTL

\* A step that stays in the turn and leaves less of it ...
LEMMA TurnGoesOn ==
    ASSUME TypeInv, WorkInv, TypeInv', WorkInv',
           pc # "idle", pc' # "idle", step' = step, Rest' <= Rest
    PROVE  Work' <= Work /\ (Rest' < Rest => Work' < Work)
<1> DEFINE t == (MaxTurns - step) * TurnWork
<1>1. t \in Nat
  <2>1. MaxTurns - step \in Nat
    BY WorkConstants DEF TypeInv, TypeOK, WorkInv
  <2> QED
    BY <2>1, WorkConstants
<1>2. Rest \in Int /\ Rest' \in Int
  BY RestBounds, RestBoundsNext, WorkConstants
<1>3. Work = t + Rest /\ Work' = t + Rest'
  BY DEF Work
<1>4. \A a \in Nat, x, y \in Int :
         y <= x => a + y <= a + x /\ (y < x => a + y < a + x)
  OBVIOUS
<1> HIDE DEF t
<1>5. t + Rest' <= t + Rest /\ (Rest' < Rest => t + Rest' < t + Rest)
  BY <1>1, <1>2, <1>4, Zenon
<1> QED
  BY <1>3, <1>5, Zenon

\* ... or one that ends the run leaves less work.
LEMMA RunStops ==
    ASSUME TypeInv, WorkInv, pc # "idle", pc' = "idle"
    PROVE  Work' < Work
<1>1. MaxTurns - step \in Nat
  BY WorkConstants DEF TypeInv, TypeOK, WorkInv
<1>2. (MaxTurns - step) * TurnWork \in Nat
  BY <1>1, WorkConstants
<1> QED
  BY <1>2, RestBounds DEF Work

LEMMA AgentWorks ==
    ASSUME TypeInv, WorkInv, TypeInv', WorkInv', Agent
    PROVE  Work' < Work
<1>0. /\ MaxTurns \in Nat /\ step \in Nat /\ MaxBatch \in Nat
      /\ TurnWork = 5 * MaxBatch + 4
      /\ reported \in Nat /\ Len(done) \in Nat /\ Len(batch) \in Nat
      /\ done \in Seq(Result) /\ batch \in Seq(Call)
      /\ Len(done) <= Len(batch) /\ reported <= Len(done)
  BY WorkConstants DEF TypeInv, TypeOK, Progress, WorkInv, TurnWork
<1>1. CASE AutoCompact \/ SkipCompact
  <2>1. /\ pc = "compact" /\ pc' = "gate" /\ step' = step
    BY <1>1 DEF AutoCompact, SkipCompact, loopVars
  <2>2. Rest = 2 /\ Rest' = 1
    BY <2>1 DEF Rest
  <2> QED
    BY <2>1, <2>2, TurnGoesOn
<1>2. CASE GiveUp \/ RespondError \/ \E c \in TextCosts : RespondText(c)
  BY <1>2, RunStops DEF GiveUp, RespondError, RespondText, Finish
<1>3. CASE Request
  <2>1. /\ pc = "gate" /\ pc' = "respond" /\ step' = step + 1
        /\ step < MaxTurns
    BY <1>3 DEF Request
  <2> DEFINE t == MaxTurns - step
  <2>2. t \in 1..MaxTurns /\ MaxTurns - step' = t - 1
    BY <1>0, <2>1
  <2>3. /\ t * TurnWork = (t - 1) * TurnWork + TurnWork
        /\ (t - 1) * TurnWork \in Nat /\ TurnWork \in Nat
    BY <2>2, WorkConstants
  <2>4. Rest = 1 /\ Rest' = TurnWork
    BY <2>1 DEF Rest
  <2>5. Work = t * TurnWork + 1 /\ Work' = (t - 1) * TurnWork + TurnWork
    BY <2>1, <2>2, <2>4 DEF Work
  <2> HIDE DEF t
  <2> QED
    BY <2>3, <2>5
<1>4. ASSUME NEW c \in TextCosts, NEW n \in 1..MaxBatch,
             NEW kinds \in [1..n -> Tools], RespondCalls(kinds, c)
      PROVE  Work' < Work
  <2>1. /\ pc = "respond" /\ pc' = "pick" /\ step' = step
        /\ Len(batch') = n /\ UNCHANGED <<done, reported>>
    BY <1>4, NewCallsType DEF RespondCalls
  <2>2. Len(done) = 0
    BY <2>1 DEF TypeInv, Progress, Quiet
  <2>3. Rest = TurnWork /\ Rest' = 3 + 4 * (n - 0) + n - reported
    BY <2>1, <2>2 DEF Rest
  <2> QED
    BY <1>0, <2>1, <2>3, TurnGoesOn
<1>5. CASE SkipTool
  <2>1. /\ pc = "pick" /\ pc' = "pick" /\ step' = step
        /\ Len(done') = Len(done) + 1 /\ UNCHANGED <<batch, reported>>
    BY <1>0, <1>5 DEF SkipTool, Picking
  <2>2. Rest' = Rest - 4
    BY <1>0, <2>1 DEF Rest
  <2> QED
    BY <2>1, <2>2, RestBounds, TurnGoesOn
<1>6. CASE SwitchPlanMode \/ StartTool
  <2>1. /\ pc = "pick" /\ pc' \in {"ask", "body", "settle"}
        /\ step' = step /\ UNCHANGED <<batch, done, reported>>
    BY <1>6 DEF SwitchPlanMode, StartTool, Picking, Route
  <2>2. Rest = 3 + 4 * (Len(batch) - Len(done)) + Len(batch) - reported
    BY <2>1 DEF Rest
  <2>3. Rest' \in {Rest - 1, Rest - 2, Rest - 3}
    BY <1>0, <2>1, <2>2 DEF Rest
  <2>4. Rest' < Rest /\ Rest' <= Rest
    BY <1>0, <2>2, <2>3
  <2> QED
    BY <2>1, <2>4, TurnGoesOn
<1>7. CASE VetoTool \/ RunTool
  <2>1. /\ pc = "body" /\ pc' = "settle" /\ step' = step
        /\ UNCHANGED <<batch, done, reported>>
    BY <1>7 DEF VetoTool, RunTool
  <2>2. Rest \in Int /\ Rest' \in Int /\ Rest' < Rest
    BY <1>0, <2>1 DEF Rest
  <2> QED
    BY <2>1, <2>2, TurnGoesOn
<1>8. CASE Settle
  <2>1. /\ pc = "settle" /\ pc' = "pick" /\ step' = step
        /\ Len(done') = Len(done) + 1 /\ UNCHANGED <<batch, reported>>
    BY <1>0, <1>8 DEF Settle
  <2>2. Rest' = Rest - 1
    BY <1>0, <2>1 DEF Rest
  <2> QED
    BY <2>1, <2>2, RestBounds, TurnGoesOn
<1>9. CASE ReportResult
  <2>1. /\ pc = "pick" /\ pc' = "pick" /\ step' = step
        /\ reported' = reported + 1 /\ UNCHANGED <<batch, done>>
    BY <1>9 DEF ReportResult, BatchOver
  <2>2. Rest' = Rest - 1
    BY <1>0, <2>1 DEF Rest
  <2> QED
    BY <2>1, <2>2, RestBounds, TurnGoesOn
<1>10. CASE CloseBatch
  <2>1. /\ pc = "pick" /\ pc' \in {"compact", "idle"} /\ step' = step
    BY <1>10 DEF CloseBatch, BatchOver
  <2>2. CASE pc' = "compact"
    <3>1. Rest' = 2 /\ Rest >= 3
      BY <1>0, <2>1, <2>2 DEF Rest
    <3> QED
      BY <2>1, <2>2, <3>1, RestBounds, TurnGoesOn
  <2>3. CASE pc' = "idle"
    BY <2>1, <2>3, RunStops
  <2> QED
    BY <2>1, <2>2, <2>3
<1> QED
  BY <1>1, <1>2, <1>3, <1>4, <1>5, <1>6, <1>7, <1>8, <1>9, <1>10 DEF Agent

\* No step of the user makes a run longer.
LEMMA UserAddsNoWork ==
    ASSUME TypeInv, WorkInv, TypeInv', WorkInv', User, pc # "idle"
    PROVE  Work' <= Work
<1>1. CASE Cancel
  <2>1. UNCHANGED <<pc, batch, done, reported, step>>
    BY <1>1 DEF Cancel, loopVars
  <2>2. Rest' = Rest
    BY <2>1 DEF Rest
  <2> QED
    BY <2>1, <2>2, RestBounds, TurnGoesOn
<1>2. CASE AnswerAllow \/ AnswerAllowAll \/ AnswerBypass \/ AnswerDeny
  <2>1. /\ pc = "ask" /\ pc' \in {"body", "settle"}
        /\ UNCHANGED <<batch, done, reported, step>>
    BY <1>2 DEF AnswerAllow, AnswerAllowAll, AnswerBypass, AnswerDeny, Answer
  <2>2. Rest \in Int /\ Rest' \in Int /\ Rest' < Rest
    <3>1. Len(done) \in Nat /\ Len(batch) \in Nat /\ reported \in Nat
      BY DEF TypeInv, TypeOK
    <3> QED
      BY <2>1, <3>1 DEF Rest
  <2> QED
    BY <2>1, <2>2, TurnGoesOn
<1> QED
  BY <1>1, <1>2 DEF User, Submit, CompactCommand, SaveCheckpoint,
     RestoreCheckpoint, Reset, SetMode

\* The agent never loops: every step of it leaves less to do, nothing the
\* user does to a run adds to it, and it starts within the bound that the
\* cap on the requests and the size of a batch give.
THEOREM RunsAlwaysBounded == Spec => RunsAreBounded
<1> DEFINE Bounded ==
      /\ Work \in 0..(MaxTurns * TurnWork + 2)
      /\ Agent => Work' < Work
      /\ pc # "idle" => Work' <= Work
<1>1. Init => TypeInv /\ WorkInv
  BY TypeInit, WorkConstants DEF Init, WorkInv, Busy
<1>2. TypeInv /\ WorkInv /\ [Next]_vars => (TypeInv /\ WorkInv)'
  BY TypeStep, WorkStep
<1>3. TypeInv /\ WorkInv /\ [Next]_vars => [Bounded]_vars
  <2> SUFFICES ASSUME TypeInv, WorkInv, Next
               PROVE  Bounded
    OBVIOUS
  <2>1. TypeInv' /\ WorkInv'
    BY <1>2
  <2>2. Work \in 0..(MaxTurns * TurnWork + 2)
    BY WorkBounds
  <2>3. Work' \in Int /\ Work \in Int
    <3>1. Work' \in 0..(MaxTurns * TurnWork + 2)
      BY <2>1, WorkBoundsNext
    <3>2. MaxTurns * TurnWork \in Nat
      BY WorkConstants
    <3> QED
      BY <2>2, <3>1, <3>2
  <2>4. Agent => Work' < Work
    BY <2>1, AgentWorks
  <2>5. User /\ pc # "idle" => Work' <= Work
    BY <2>1, UserAddsNoWork
  <2> QED
    BY <2>2, <2>3, <2>4, <2>5 DEF Next
<1> QED
  BY <1>1, <1>2, <1>3, PTL DEF Spec, RunsAreBounded
=============================================================================
