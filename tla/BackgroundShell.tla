--------------------------- MODULE BackgroundShell ---------------------------
(***************************************************************************)
(* The background shells of deeptide-core/src/background_shell.rs: child   *)
(* processes parked in a registry, a reader thread per output stream that  *)
(* fills a bounded buffer, a reaper thread per child, and agent threads    *)
(* that page through the output (BashOutput) or stop a child (KillBash).   *)
(* A line of output is its number in the stream.                           *)
(***************************************************************************)
EXTENDS Integers, Sequences

CONSTANTS
    Tasks,          \* the children that may be spawned
    Streams,        \* the streams of a child: stdout and stderr
    Callers,        \* agent threads
    MaxBuffered,    \* MAX_BUFFERED_LINES
    MaxLines        \* bound: lines a child writes to a stream

ASSUME BackgroundShellAssumption ==
    MaxBuffered \in Nat \ {0} /\ MaxLines \in Nat

VARIABLES
    proc,           \* the operating system's view of each child
    piped,          \* children whose pipes some process may still write to
    written,        \* lines written to each stream
    reader,         \* reader threads
    buffer,         \* StreamBuffer of each stream
    reaper,         \* reaper threads
    finished,       \* tasks whose finished_at is set
    exitCode,       \* tasks whose exit_code is set to a code
    registered,     \* tasks in the registry
    call,           \* the call each agent thread is executing
    cursor,         \* last cursor each agent thread was given
    heard,          \* what the agent has pieced together of each stream
    told            \* last state reported of each task

osVars == <<proc, piped, written>>
threadVars == <<reader, buffer, reaper, finished, exitCode>>
agentVars == <<call, cursor, heard, told>>
vars == <<osVars, threadVars, registered, agentVars>>

Idle == [at |-> "idle"]
Calls == {Idle} \cup [at: {"kill", "grace", "read"}, task: Tasks]
    \cup [at: {"running", "exit"}, task: Tasks, paging: SUBSET Streams,
          running: BOOLEAN]

Dead(t) == proc[t] \in {"exited", "killed"}

\* The reaper holds the child's mutex from before wait() until it is done.
ChildLocked(t) == reaper[t] \in {"waiting", "finishing"}

\* read_output holds both buffers while it takes the rest of the snapshot.
BuffersLocked(t) ==
    \E c \in Callers : call[c].at \in {"running", "exit"} /\ call[c].task = t
-----------------------------------------------------------------------------
EmptyBuffer == [lines |-> <<>>, total |-> 0, truncated |-> FALSE]

\* StreamBuffer::push, and a push that makes room one line too late.
PushedLate(b) ==
    LET full == Len(b.lines) > MaxBuffered
        kept == IF full THEN Tail(b.lines) ELSE b.lines
    IN  [lines |-> Append(kept, b.total + 1), total |-> b.total + 1,
         truncated |-> b.truncated \/ full]

Pushed(b) ==
    LET full == Len(b.lines) = MaxBuffered
        kept == IF full THEN Tail(b.lines) ELSE b.lines
    IN  [lines |-> Append(kept, b.total + 1), total |-> b.total + 1,
         truncated |-> b.truncated \/ full]

\* StreamBuffer::lines_since, and the form of it that would repeat a line.
LinesSinceInclusive(b, since) ==
    LET oldest == b.total - Len(b.lines)
    IN  IF since >= b.total THEN <<>>
        ELSE IF since <= oldest THEN b.lines
        ELSE SubSeq(b.lines, since - oldest, Len(b.lines))

LinesSince(b, since) ==
    LET oldest == b.total - Len(b.lines)
    IN  IF since >= b.total THEN <<>>
        ELSE IF since < oldest THEN b.lines
        ELSE SubSeq(b.lines, since - oldest + 1, Len(b.lines))
-----------------------------------------------------------------------------
Init ==
    /\ proc = [t \in Tasks |-> "unborn"]
    /\ piped = {}
    /\ written = [t \in Tasks |-> [s \in Streams |-> 0]]
    /\ reader = [t \in Tasks |-> [s \in Streams |-> "none"]]
    /\ buffer = [t \in Tasks |-> [s \in Streams |-> EmptyBuffer]]
    /\ reaper = [t \in Tasks |-> "none"]
    /\ finished = {} /\ exitCode = {} /\ registered = {}
    /\ call = [c \in Callers |-> Idle]
    /\ cursor = [c \in Callers |-> [t \in Tasks |-> [s \in Streams |-> 0]]]
    /\ heard = [c \in Callers |-> [t \in Tasks |-> [s \in Streams |-> <<>>]]]
    /\ told = [c \in Callers |-> [t \in Tasks |-> "nothing"]]

(***************************************************************************)
(* spawn.  A reader thread that cannot be created is ignored, and its pipe *)
(* is closed; a reaper that cannot be created fails the call before the    *)
(* task is registered, while the child runs on.                            *)
(***************************************************************************)
Launch(c, t) ==
    /\ call[c] = Idle /\ proc[t] = "unborn"
    /\ proc' = [proc EXCEPT ![t] = "live"]
    /\ piped' = piped \cup {t}
    /\ \E started \in SUBSET Streams :
         reader' = [reader EXCEPT ![t] = [s \in Streams |->
             IF s \in started THEN "reading" ELSE "broken"]]
    /\ UNCHANGED <<written, buffer, finished, exitCode, agentVars>>

Spawn(c, t) ==
    /\ Launch(c, t)
    /\ reaper' = [reaper EXCEPT ![t] = "started"]
    /\ registered' = registered \cup {t}

SpawnUnreaped(c, t) ==
    /\ Launch(c, t)
    /\ UNCHANGED <<reaper, registered>>
-----------------------------------------------------------------------------
(***************************************************************************)
(* The child and its descendants, which inherit the pipes and may outlive  *)
(* it.                                                                     *)
(***************************************************************************)
Write(t, s) ==
    /\ t \in piped /\ reader[t][s] = "reading"
    /\ written[t][s] < MaxLines
    /\ written' = [written EXCEPT ![t][s] = @ + 1]
    /\ UNCHANGED <<proc, piped, threadVars, registered, agentVars>>

Dies(t, how) ==
    /\ proc[t] = "live"
    /\ proc' = [proc EXCEPT ![t] = how]
    /\ piped' \in {piped, piped \ {t}}

Exit(t) ==
    /\ \E how \in {"exited", "killed"} : Dies(t, how)
    /\ UNCHANGED <<written, threadVars, registered, agentVars>>

LastWriterExits(t) ==
    /\ Dead(t) /\ t \in piped
    /\ piped' = piped \ {t}
    /\ UNCHANGED <<proc, written, threadVars, registered, agentVars>>
-----------------------------------------------------------------------------
(***************************************************************************)
(* spawn_reader: lines are pushed until the end of the stream or the first *)
(* line that is not valid UTF-8.                                           *)
(***************************************************************************)
Unread(t, s) == buffer[t][s].total < written[t][s]

Push(t, s) ==
    /\ reader[t][s] = "reading" /\ Unread(t, s) /\ ~BuffersLocked(t)
    /\ buffer' = [buffer EXCEPT ![t][s] = Pushed(@)]
    /\ UNCHANGED <<osVars, reader, reaper, finished, exitCode, registered,
                   agentVars>>

ReaderStops(t, s, how) ==
    /\ reader[t][s] = "reading"
    /\ reader' = [reader EXCEPT ![t][s] = how]
    /\ UNCHANGED <<osVars, buffer, reaper, finished, exitCode, registered,
                   agentVars>>

\* A reader that stops with the child instead of at the end of its pipe.
EndOfStreamAtExit(t, s) == Dead(t) /\ ReaderStops(t, s, "eof")

EndOfStream(t, s) ==
    t \notin piped /\ ~Unread(t, s) /\ ReaderStops(t, s, "eof")

InvalidLine(t, s) == Unread(t, s) /\ ReaderStops(t, s, "broken")
-----------------------------------------------------------------------------
(***************************************************************************)
(* The reaper: takes the child's mutex, waits, records that the child has  *)
(* finished, then the exit code, and releases the mutex.                   *)
(***************************************************************************)
\* A reaper that tries once instead of waiting.
ReaperWaitsOnce(t) ==
    /\ reaper[t] = "started"
    /\ reaper' = [reaper EXCEPT ![t] = IF Dead(t) THEN "waiting" ELSE "done"]
    /\ UNCHANGED <<osVars, reader, buffer, finished, exitCode, registered,
                   agentVars>>

ReaperWaits(t) ==
    /\ reaper[t] = "started"
    /\ reaper' = [reaper EXCEPT ![t] = "waiting"]
    /\ UNCHANGED <<osVars, reader, buffer, finished, exitCode, registered,
                   agentVars>>

\* A reaper that reports the child before it has waited for it.
ReaperFinishesEarly(t) ==
    /\ reaper[t] = "waiting"
    /\ reaper' = [reaper EXCEPT ![t] = "finishing"]
    /\ finished' = finished \cup {t}
    /\ UNCHANGED <<osVars, reader, buffer, exitCode, registered, agentVars>>

ReaperFinishes(t) ==
    /\ reaper[t] = "waiting" /\ Dead(t)
    /\ reaper' = [reaper EXCEPT ![t] = "finishing"]
    /\ finished' = finished \cup {t}
    /\ UNCHANGED <<osVars, reader, buffer, exitCode, registered, agentVars>>

ReaperRecords(t) ==
    /\ reaper[t] = "finishing"
    /\ reaper' = [reaper EXCEPT ![t] = "done"]
    /\ exitCode' = IF proc[t] = "exited" THEN exitCode \cup {t} ELSE exitCode
    /\ UNCHANGED <<osVars, reader, buffer, finished, registered, agentVars>>
-----------------------------------------------------------------------------
(***************************************************************************)
(* read_output: lock the buffers, then read `running`, then `exit_code`.   *)
(* On each stream the agent passes its cursor or reads all that is kept.   *)
(***************************************************************************)
Goto(c, to) == call' = [call EXCEPT ![c] = to]

Snapshot(c, t, paging) ==
    /\ ~BuffersLocked(t)
    /\ Goto(c, [at |-> "running", task |-> t, paging |-> paging,
                running |-> FALSE])
    /\ UNCHANGED <<osVars, threadVars, registered, cursor, heard, told>>

BashOutput(c, t) ==
    /\ call[c] = Idle /\ t \in registered
    /\ \E paging \in SUBSET Streams : Snapshot(c, t, paging)

ReadRunning(c) ==
    /\ call[c].at = "running"
    /\ Goto(c, [call[c] EXCEPT !.at = "exit",
                               !.running = call[c].task \notin finished])
    /\ UNCHANGED <<osVars, threadVars, registered, cursor, heard, told>>

Delivered(c, t) ==
    [s \in Streams |->
        IF s \in call[c].paging
        THEN heard[c][t][s] \o LinesSince(buffer[t][s], cursor[c][t][s])
        ELSE buffer[t][s].lines]

ReadExit(c) ==
    /\ call[c].at = "exit"
    /\ LET t == call[c].task
       IN  /\ heard' = [heard EXCEPT ![c][t] = Delivered(c, t)]
           /\ cursor' = [cursor EXCEPT ![c][t] =
                            [s \in Streams |-> buffer[t][s].total]]
           /\ told' = [told EXCEPT ![c][t] =
                          IF call[c].running THEN "running" ELSE "stopped"]
    /\ Goto(c, Idle)
    /\ UNCHANGED <<osVars, threadVars, registered>>

(***************************************************************************)
(* stop: kill the child under its mutex, give the reaper a grace period to *)
(* notice, and return a full snapshot.                                     *)
(***************************************************************************)
KillBash(c, t) ==
    /\ call[c] = Idle /\ t \in registered
    /\ Goto(c, [at |-> IF t \in finished THEN "read" ELSE "kill", task |-> t])
    /\ UNCHANGED <<osVars, threadVars, registered, cursor, heard, told>>

Kill(c) ==
    /\ call[c].at = "kill" /\ ~ChildLocked(call[c].task)
    /\ IF proc[call[c].task] = "live" THEN Dies(call[c].task, "killed")
                                      ELSE UNCHANGED <<proc, piped>>
    /\ Goto(c, [call[c] EXCEPT !.at = "grace"])
    /\ UNCHANGED <<written, threadVars, registered, cursor, heard, told>>

\* The reaper noticed, or STOP_GRACE_PERIOD is over.
GraceOver(c) ==
    /\ call[c].at = "grace"
    /\ Goto(c, [call[c] EXCEPT !.at = "read"])
    /\ UNCHANGED <<osVars, threadVars, registered, cursor, heard, told>>

StopRead(c) ==
    /\ call[c].at = "read"
    /\ Snapshot(c, call[c].task, {})
-----------------------------------------------------------------------------
ReaderStep(t, s) == Push(t, s) \/ EndOfStream(t, s) \/ InvalidLine(t, s)
ReaperStep(t) == ReaperWaits(t) \/ ReaperFinishes(t) \/ ReaperRecords(t)
ChildStep(t) ==
    (\E s \in Streams : Write(t, s)) \/ Exit(t) \/ LastWriterExits(t)
CallStep(c) ==
    Kill(c) \/ GraceOver(c) \/ StopRead(c) \/ ReadRunning(c) \/ ReadExit(c)
CallBegins(c) ==
    \E t \in Tasks : \/ Spawn(c, t) \/ SpawnUnreaped(c, t)
                     \/ BashOutput(c, t) \/ KillBash(c, t)

Next ==
    \/ \E t \in Tasks, s \in Streams : ReaderStep(t, s)
    \/ \E t \in Tasks : ReaperStep(t) \/ ChildStep(t)
    \/ \E c \in Callers : CallStep(c) \/ CallBegins(c)

Spec == Init /\ [][Next]_vars

(***************************************************************************)
(* The program's threads are scheduled; a mutex is granted at some time to *)
(* a thread that keeps waiting while others take it and release it.        *)
(* Nothing makes a child write or exit, or an agent call a tool.           *)
(***************************************************************************)
Fairness ==
    /\ \A t \in Tasks, s \in Streams :
         SF_vars(Push(t, s)) /\ WF_vars(ReaderStep(t, s))
    /\ \A t \in Tasks : WF_vars(ReaperStep(t))
    /\ \A c \in Callers : SF_vars(CallStep(c))

FairSpec == Spec /\ Fairness
-----------------------------------------------------------------------------
\* The variables have their types, and no buffer outgrows its bound.
TypeOK ==
    /\ proc \in [Tasks -> {"unborn", "live", "exited", "killed"}]
    /\ piped \subseteq Tasks
    /\ written \in [Tasks -> [Streams -> Nat]]
    /\ reader \in [Tasks -> [Streams -> {"none", "reading", "eof", "broken"}]]
    /\ buffer \in [Tasks -> [Streams ->
           [lines: Seq(Nat), total: Nat, truncated: BOOLEAN]]]
    /\ reaper \in [Tasks ->
           {"none", "started", "waiting", "finishing", "done"}]
    /\ finished \subseteq Tasks /\ exitCode \subseteq Tasks
    /\ registered \subseteq Tasks
    /\ call \in [Callers -> Calls]
    /\ cursor \in [Callers -> [Tasks -> [Streams -> Nat]]]
    /\ heard \in [Callers -> [Tasks -> [Streams -> Seq(Nat)]]]
    /\ told \in [Callers -> [Tasks -> {"nothing", "running", "stopped"}]]
    /\ \A t \in Tasks, s \in Streams : Len(buffer[t][s].lines) <= MaxBuffered

(***************************************************************************)
(* An agent that passes back the cursors it was given hears no line twice, *)
(* hears the lines in order, and misses one only when the buffer has said  *)
(* that it dropped lines (the promise of read_output's cursors).           *)
(***************************************************************************)
Faithful(h, b) ==
    \A i \in 1..(Len(h) - 1) :
        h[i + 1] = h[i] + 1 \/ (h[i + 1] > h[i] /\ b.truncated)

PagesAreFaithful ==
    \A c \in Callers, t \in Tasks, s \in Streams :
        LET h == heard[c][t][s]
        IN  /\ Faithful(h, buffer[t][s])
            /\ h # <<>> => h[Len(h)] = cursor[c][t][s]
            /\ h # <<>> /\ h[1] # 1 => buffer[t][s].truncated

(***************************************************************************)
(* What a snapshot says of the child is true: a task reported as stopped   *)
(* is dead, and it is never reported as running again.                     *)
(***************************************************************************)
StoppedIsDead ==
    \A c \in Callers, t \in Tasks :
        told[c][t] = "stopped" => Dead(t) /\ t \in finished

(***************************************************************************)
(* Everything a child and its descendants wrote reaches the buffer before  *)
(* the reader leaves, also when it comes after the child's exit, unless a  *)
(* line that is not UTF-8 stopped the reader.                              *)
(***************************************************************************)
OutputDrains ==
    \A t \in Tasks, s \in Streams :
        /\ [](reader[t][s] = "eof" => ~Unread(t, s))
        /\ (Dead(t) /\ t \notin piped)
             ~> (reader[t][s] = "broken" \/ ~Unread(t, s))

(***************************************************************************)
(* The exit of a registered child is noticed, its exit code is recorded,   *)
(* and a KillBash that waited for its mutex returns.                       *)
(***************************************************************************)
ExitIsRecorded ==
    /\ \A t \in Tasks :
         (t \in registered /\ Dead(t))
           ~> (t \in finished /\ (t \in exitCode <=> proc[t] = "exited"))
    /\ \A c \in Callers, t \in Tasks :
         (call[c] = [at |-> "kill", task |-> t] /\ Dead(t)) ~> (call[c] = Idle)

(***************************************************************************)
(* "KillBash will SIGKILL it deterministically" (line 26): a child that    *)
(* somebody stops does not live on.                                        *)
(***************************************************************************)
KillIsDelivered ==
    \A c \in Callers, t \in Tasks :
        (call[c] = [at |-> "kill", task |-> t]) ~> Dead(t)
=============================================================================
