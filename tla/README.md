# A TLA+ model of deeptide

deeptide is a coding agent for the terminal: a Rust workspace (`crates/`) with an
agent loop, tools, a CLI and a GUI, a C inference server (`native/ds4`) it can use
as a local model, and a Node script (`scripts/tide-local.mjs`) that installs that
model. This directory models the parts of it in which several threads or
processes, a user and a model interact, checks them with TLC on small instances,
and proves what is checked of safety (invariants, action properties, refinements)
with TLAPS for every value of the constants.

Paths below are relative to the repository; `core/`, `cli/` and `gui/` stand for
`crates/deeptide-core/src/`, `crates/deeptide-cli/src/` and
`crates/deeptide-gui/src/`.

## 1. Inventory

### The parts, their state and their operations

| part | code | state | operations | hard behaviour |
|---|---|---|---|---|
| agent loop | `core/agent_loop.rs` | transcript, run step, events, permission manager, cancellation flag | `run`, tool batches, `/clear`, `/compact`, `/checkpoint`, `/rewind` | cancellation from another thread at any point; tools that rewrite the transcript they are called from |
| context window | `core/context_window.rs` | thresholds | token estimate, `compress_at` | folding and dropping messages without splitting a call from its result |
| permissions | `core/permissions.rs` | mode, rules, session rules | `check`, `set_mode`, `allow_for_session` | the mode changes inside a batch, by the model |
| background shells | `core/background_shell.rs` | registry, child, ring buffers, `finished_at`, `exit_code` | `spawn`, `read_output`, `stop` | two reader threads and a reaper per child, five mutexes |
| permission prompt and queue editor | `cli/queue_editor.rs`, `cli/main.rs` | terminal mode, six flags, a shared lock | pump thread, `ask_callback`, turn boundaries | two threads share one terminal through a handshake with a deadline |
| local inference server | `native/ds4/ds4_server.c` | job queue, client count, two stop flags, the session | accept, client threads, worker, signals | jobs on the stacks of client threads, three condition variables, draining |
| KV disk cache | `native/ds4/ds4_server.c` | entries on disk, budget | store, evict, load by prefix | crashes around a rename, files that vanish |
| GUI session | `gui/conversation.rs`, `gui/app.rs`, `gui/events.rs` | two channels, pending permissions, running flag, interrupt flag | submit, stop, approve, new chat, resume, drain; the worker's turn and save | a worker that waits for a window that has forgotten it; two workers on one session |
| model API client, routing | `core/api.rs`, `core/streaming.rs`, `core/routing.rs` | retry counters, fallback model, escalation flag | `respond` | a stream that is cut off after part of it was shown |
| session store | `core/session.rs` | one file per session, an index | `save`, `load`, `list` | two writers, crashes between two file operations, errors that are silenced |
| local bootstrap | `scripts/tide-local.mjs`, `native/ds4/download_model.sh` | binaries, weights and `.part` files, LaunchAgent, settings, `local.json` | `start`, `stop` | a run killed at any step and repeated, two runs at once, an old gateway on the same port |
| message queue | `core/message_queue.rs` | a FIFO | push, pop, batch | filled by the pump, drained at the turn boundary |
| memory, hooks, tools, adapters, configuration, rendering, engine | see `PROJECT.json` | files, text | mostly I/O, text and numeric code | little that a state machine shows |

### How they interact

The CLI (or the GUI's worker thread) calls `AgentLoop::run` with a prompt. The loop
calls the API client (a function call that blocks and streams), decides with the
permission manager, calls back into the CLI or the GUI for an answer of the user,
runs tools, and emits events to its listener. During the call another thread (the
queue editor's pump, or the GUI) raises the cancellation flag the loop polls.
Background shells are started, read and stopped by tools of the loop and live on
between runs. The local server is another process, reached over HTTP.

### What makes each part correct

* Agent loop: the transcript it sends is one the API accepts (each call answered
  right after it, in order); a cancellation takes effect promptly; a tool that
  changes something runs with the user's consent; listeners see a well-formed
  stream; every run ends.
* Background shells: paging repeats and loses nothing silently; what is reported
  of a child is true; output is complete in the end; kill kills.
* Prompt and queue editor: the prompt is answered by the user; the terminal is as
  it was after the turn; nobody waits for ever; keys act on the turn they were
  pressed in.
* Inference server: no dangling job; no request lost; the stop drains first, and
  completes.
* GUI session: a turn that runs is shown as running; Stop stops; an approval can be
  given as long as somebody waits for it; a conversation that was left saves its
  turn and goes.
* Session store: what is listed can be loaded; nothing that was saved is lost to a
  later save, to one that fails half-way or to a restart.
* Local bootstrap: what a killed run leaves behind is never mistaken for the real
  thing by the next; the user's settings survive; "Ready." is true.
* API client (planned): bounded attempts; what was retracted is not in the answer.
  KV cache (planned): what is loaded is a prefix of the prompt, the budget holds.

`PROJECT.json` lists the components with what is modelled of each, and under
`hazards` the places where the code could go wrong in a way a test hardly reaches.

## 2. Modules

| module | what it is |
|---|---|
| `TurnProtocol` | abstract: what listeners of the agent's events may rely on |
| `Permissions` | the decision procedure, as operators |
| `AgentLoop` | the agent thread and its user; implements `TurnProtocol` |
| `BackgroundShell` | children, readers, reapers and the agents that call the tools |
| `GracefulService` | abstract: a server that drains before it stops |
| `Ds4Server` | the server's threads; implements `GracefulService` |
| `PromptHandshake` | the main thread and the pump; uses the modes of `Permissions` |
| `ReplaceFile` | a file that is replaced through a `.tmp` sibling or overwritten in place, by writers that may be killed: operators, shared by the next three |
| `SessionStore` | the files of the saved sessions, as a part of a system |
| `GuiSession` | the window, its worker threads and the store they save into |
| `TideLocal` | runs of `tide local`, the disk and launchd |
| `...Proofs` | theorems about the module of that name; `GuiStoreProofs` those about `GuiSession` together with its store |
| `MC...` | the modules TLC is run on, with one `.cfg` per question |

Each module also holds, before the definition it varies, a form of that definition
with a plausible bug (`SkipToolSilently`, `AwaitNobody`, ...). No specification
uses them; they show that each property can tell the code from a broken version
of it.

### AgentLoop

One thread is modelled as a program counter `pc` over the phases of `run_inner`:

| `pc` | code |
|---|---|
| `idle` | between runs: the user submits, or uses a command |
| `compact` | the top of the turn loop, where compaction is due or not |
| `gate` | the circuit breaker, the turn cap and the poll of the flag |
| `respond` | inside `backend.respond` |
| `pick` | the next call of the batch, or the end of the batch |
| `ask` | inside the ask callback |
| `body` | the tool runs, or a hook vetoes it |
| `settle` | the result is collected and the flag polled again |

`Cancel` can fire between any two of these: the flag is an atomic another thread
sets. Everything the code does between two polls of the flag, or between two
effects a listener or the transcript shows, is one step.

A message is a record of its role, the ids of the calls it makes, the ids of the
calls it answers and a token cost. The text is abstracted to that cost, because
compaction decides by the estimate; tool results cost nothing, as
`estimate_tokens` counts the text of a message only. `compress_at` is given as
two relations with one solution each (the boundary; how many messages the
hard-limit loop drops), the loops themselves being of no interest. A tool is one of twelve
kinds, one for each way the code classifies or names tools: read-only, edit,
shell, plan-safe shell, agent, and so on, with `Snip`, `Brief`, `EnterPlanMode`
and `ExitPlanMode` by name because they act on the loop itself.

`approved`, `userMode`, `planned` and `late` are history variables: nothing reads
them but the properties. `events` is cut at each `User` or `Assistant` event, since
what comes before cannot matter to a listener's obligations.

### BackgroundShell

The variables follow the code's objects: `proc` is the child as the operating
system sees it, `piped` the children whose pipes still have a writer (a
descendant may outlive the child), `reader` and `reaper` the threads, `buffer` the
`StreamBuffer`s. The mutexes are implied by where a thread is: the reaper owns the
child's mutex from before `wait()` until it is done (`ChildLocked`), a snapshot
holds both buffers (`BuffersLocked`); `finished_at` and `exit_code` have a mutex
each and are written and read in separate steps. A line of output is its number,
so a page is faithful when its numbers are. Failures: a reader or a reaper thread
that cannot be created, a line that is not UTF-8, a child that is killed from
outside. The end of the 250 ms grace period may come at any time.

### Ds4Server

What a thread does under the server's mutex is one step. The mutex of a job is
explicit, since its order against the server's mutex is what could deadlock: a
client thread is `holding` it from its creation until it sleeps. Condition
variables are modelled by `asleep` and `woken`, with spurious wakeups as steps of
the environment. Threads may fail to start; clients come and go; a first signal
sets the flag, a second one ends the process. `generate_job` and the parsing of a
request are a step each.

One assumption is about the platform: a signal sent to the process is delivered
to the main thread, where it interrupts `accept`. The client threads do not block
signals, and POSIX permits the delivery to any of them; Linux prefers the main
thread when it can take the signal, and that is what the model assumes.

### PromptHandshake

Each flag is a variable (`suspend`, `suspended`, `stop`, `active`, `cycle`,
`interrupt`), read and written in steps of its own, in the order of the code.
`lock` is the mutex the two threads share for painting, which the prompt holds
across its blocking read. The deadline of 250 ms may pass at any time. A read of
the terminal in raw mode returns at once with nothing, because the code sets
`VMIN = VTIME = 0`. The byte 3 for Ctrl-C is an input like any other; on a terminal
with the usual settings it arrives as a signal instead, as raw mode leaves `ISIG`
on, and the hazard list says so.

### ReplaceFile and SessionStore

A file has two names, `path` and `tmp`, and each holds nothing, an empty or a torn
file, or a whole content. A write is two steps, the open that truncates and the
write that fills, because another process can look, rename or die in between;
`on` records under which name the file lies that a writer has open, since a rename
takes the open file along. Two writers that fill the same file may leave a torn
one (`Overlaid`).

`SessionStore::save` writes the transcript to `<session>.jsonl.tmp` and renames it:
operators that the program which saves wraps into actions. Each of these file
operations can fail, the write half-way too, and the code goes on in silence.
A transcript is the sequence of its turns. A turn is its prompt, or `Folded` when
a compaction, `Snip` or `Brief` has replaced its messages by a summary or a marker; a later
save must have all the turns of the one before, as they were or folded (`Extends`).

The index (`session-locations.json`) is not modelled. Every process of the user reads,
changes and rewrites it in place without a lock (`core/session.rs:182-228`); a read
error makes it empty and a write error is silenced, so there is no promise of it
to state. Nothing modelled reads it: `list` scans the directory, and `load` asks it only
for a session of another directory, while all sessions of the model belong to one.

### GuiSession

| variable | code |
|---|---|
| `cur`, `running`, `cards`, `listed` | the fields of `App`: its `Conversation`, `running`, `pending`, `sessions` |
| `inbox`, `outbox` | the two channels between the window and a worker |
| `stop`, `reply` | the interrupt flag, and a worker's entry in the map of pending approvals |
| `stage`, `talk`, `now` | where a worker thread is, its transcript and prompt |
| `boot` | how the backend of the window's worker came up |
| `unread` | history: the sessions that could not be read when they were resumed |

The window's actions are `submit`, Stop, an answer to an approval, New chat, resume
of a listed session and the drain of one event per step; a restart ends all
threads and starts anew. A worker configures its backend, loads the session, takes
a prompt, may ask once, ends the turn (or panics, which is caught and reported),
folds the older turns of its transcript when the agent compacted, snipped or
briefed them meanwhile, and saves through `SessionStore`. A session that cannot be loaded is
continued as an empty one, as in the code. New chat and resume drop the `Conversation`: its
channels go, its worker stays. What the agent does in a turn is `AgentLoop`'s
business. Bubbles are not modelled: the `Hydrate` event, for one, replaces
all of them, and when it is drained after a submit it takes the bubble of that
prompt with it.

### TideLocal

`at` is where a run is in `cmdStart` or `cmdStop`, `line` its command line. The steps
follow the script: host check and question, the two builds, the download with
its `.part` file and the move, the plist, `bootout` and `bootstrap`, the two waits,
the self-test, the merge of `settings.json` through `.tmp`, `local.json`. Every action
of a run can be followed by `Kill`, of that run, or by `Login`, which ends all runs
and loads whatever the plist says. launchd, the gateway, `make`, `swift` and `curl`
are external; the gateway comes up when binaries and weights are complete, and dies
when it likes. `status`, `doctor` and the `self-test` command change nothing and are
not actions. (`status` and `self-test` look for the port with
`args.dsgoPort || state?.dsgoPort`; as `dsgoPort` has a default, the recorded port
is never used.)

`dirs` are the directories the script makes. `ensureWeightsDownloaded`, `writeAndLoadAgent`
and `writeAgentSettings` each make theirs before they look at the dry-run flag, and so do
the steps `SkipDownload`, `SkipService` and `ReadSettings` of a dry run. A `mkdir` or a write that
fails ends a run as a kill at that place does. Not modelled: a `settings.json` the process
may not read (`tide-local.mjs:548` takes it for none).

`given`, `last`, `crowded` and `relogged` are history variables; `crowded` collects the
runs that overlapped another, since most promises are about a run that was alone.

## 3. What TLC checks

| run | states | question | properties |
|---|---|---|---|
| `agent_transcript` | 291 000 | does the transcript stay valid and the stream well formed, whatever the model calls and whenever the user cancels? | `TypeOK`, `UsesAnswered`, `CancelBounded`, `KeepsTurnProtocol`, `RunsAreBounded`, `RunEnds` |
| `agent_permissions` | 170 000 | does a tool that changes something ever run without consent? | `ConsentRespected` |
| `agent_orphans` | | does compaction keep results with their calls? No. | `ResultsHaveUses` |
| `agent_plan_approval` | | is a plan approved before it is executed? No. | `PlanApproved` |
| `shell_output` | 19 000 | can the agent trust what it is told of a background shell? | `TypeOK`, `PagesAreFaithful`, `StoppedIsDead`, `OutputDrains`, `ExitIsRecorded` |
| `shell_kill` | | does KillBash kill? No. | `KillIsDelivered` |
| `server_shutdown` | 48 000 | are jobs safe, requests served and shutdowns clean? | `TypeOK`, `JobsAreAlive`, `NoLostWakeup`, `DrainsBeforeStop`, `ShutdownCompletes`, `RequestsAreServed` |
| `prompt_turns` | 4 600 | is the terminal handed over and given back? | `TypeOK`, `TerminalRestored`, `AckedPromptOwnsTerminal`, `CancelScoped`, `JoinIsBounded`, `TurnsEnd`, `ShiftTabApplied` |
| `prompt_unasked` | | does every answer come from the user? No. | `PromptsAreAnsweredByUser` |
| `tide_local` | 253 000 | what do runs that are killed, repeated or overlap leave behind? | `TypeOK`, `WeightsWhole`, `KeysKept`, `LastWord`, `TestedOwnGateway`, `OnlyRealRunsWrite`, `RunsEnd` |
| `gui_turns` | 166 000 | does the window follow its worker, and is what was saved kept? | `TypeOK`, `ParkedIsAnswerable`, `TurnShownRunning`, `ListedSessionsLoad`, `SavedTurnsKept`, `RunningEnds`, `StopEndsTurn`, `DroppedWorkersLeave` |
| `gui_two_writers` | | is it kept when two workers share a session? No. | `SavedTurnsKept` |

### Bounds

* `agent_transcript`: two prompts, at most two requests each, batches of up to two
  calls, a window of two messages, compaction above four messages or three
  tokens, a hard limit of five. A transcript of five messages already passes all
  three thresholds, so the boundary search, the fold, the hard-limit loop and the
  circuit breaker all happen; a second prompt meets a transcript the first one
  compacted. Only `Snip` and `Brief` are called, as the other tools leave the
  transcript alone, and the mode is `Bypass`, as consent has a run of its own.
* `agent_permissions`: one request of up to three calls, so that a mode change or
  an answer in the first or second affects a later one; the tools of five
  classes, all modes, one persistent rule of each sort; the budget is too large
  to compact anything. The property is about one batch: nothing of it survives
  except modes and session rules, which the first call of a batch can produce.
* `agent_orphans`: the automatic compaction alone (no `Snip`, no `Brief`).
* `shell_output`: one child with one stream, one agent, a buffer of two lines, four
  lines written. A buffer of two rolls over twice, and the cursor can lie inside,
  at the end, or behind the head. Two streams multiply the states by thirty (three
  lines each: 547 000 states for the invariants alone, which hold) and two agents
  by more than ten (251 000 states for all the properties, which hold, in over four
  minutes); the committed instance keeps one of each so that it stays quick.
* `server_shutdown`: three connections: a job served, one queued behind it, one that
  comes in while the server stops.
* `prompt_turns`, `prompt_unasked`: no bound at all. The state space is finite and
  explored in full.
* `tide_local`: two runs, which follow each other or overlap (a third adds no pair),
  two profiles that share the default port, and five command lines: a full start
  of one profile that asks, one of the other that neither asks nor tests, a start
  that only tests, a dry run, a stop. `settings.json` is missing, broken or the user's at the start.
* `gui_turns`: two conversations and two prompts, so that a worker that was dropped
  meets its successor, a session is resumed, and a second turn extends what the
  first one saved; a turn asks at most once. Conversations and prompts are numbered
  in order. `ResumeBusy = FALSE` keeps the user from resuming a session another
  worker is still busy with; `gui_two_writers` takes that away and has a
  third prompt, as the saved turn that is lost must have come before the two that
  race.

Deadlock is checked in the two agent-loop runs and in the prompt runs. It is off
where the system really stops: a shell session in which every child has ended and
no tool is called again, a server that has closed, a desktop client whose prompts
are used up, and runs that have all ended.

### Fairness

* Agent thread: weak fairness of its steps; backends return (they have timeouts,
  or are interrupted), tools return. The user's answer to a prompt is not fair, so
  `RunEnds` allows a run to rest in `ask`.
* Shell: weak fairness of the reader and reaper threads, strong fairness where a
  thread waits for a mutex others take and release in turn. None for the child:
  it may sleep for ever.
* Server: weak fairness of each thread. Sockets have timeouts and generation has a
  token limit, so the steps that read a request and serve a job end. None for
  clients, signals or wakeups.
* Prompt: weak fairness of the pump and of the main thread inside a prompt or a
  join. The turn itself ends (`SF(EndTurn)`), which is what `RunEnds` states of the
  agent loop; strong, because the agent may go on asking in between. None for the
  user's answer.
* GUI: weak fairness of each worker, since threads are scheduled and a turn ends
  (`RunEnds` of the agent loop), and of the drain, since each event asks for a frame.
  A worker may wait in an approval for ever; nothing makes the user act.
* Local bootstrap: weak fairness of each process: `make`, `swift` and `curl` return,
  and both waits have a deadline. None for the answer to the question, for the
  gateway or for the start of a run.

### What is left out of a property

Some properties name an exception, because the model reaches a state outside of it
that the code reaches too. Where the exception is the whole of a hazard, `PROJECT.json`
lists that hazard with no property and says so:

* a worker whose conversation was dropped while it waited for an approval waits for
  ever (`DroppedWorkersLeave`);
* a Stop pressed before the worker has taken the prompt is lost, as the worker
  clears the flag when it takes it (`StopEndsTurn`);
* the error of a backend without a credential, drained after the first submit,
  makes the window show a running turn as over (`TurnShownRunning`); one that could
  not be configured at all leaves the window running for ever (`RunningEnds`);
* a session that could not be read when it was resumed is continued as an empty
  one, and the next save overwrites its turns (`SavedTurnsKept`);
* nothing in the code keeps a session to one writer: `ListedSessionsLoad` and
  `SavedTurnsKept` are checked with `ResumeBusy = FALSE`, a user who does not resume a
  session that is still busy, and `gui_two_writers` shows what happens otherwise. Nor does
  anything keep another process from saving the same session; that is not modelled;
* two runs of `tide local` that overlap can spoil the weights or truncate the
  settings (`WeightsWhole`, `KeysKept`).

### Where code and documentation disagree

1. **Orphaned results** (`agent_orphans`). The hard-limit loop of `compress_at`
   removes single messages behind the summary. It can remove an assistant message
   with calls and stop before the message with their results. A test asks that
   results are not orphaned by a compaction; it does not reach the second loop.
2. **Plans that execute unapproved** (`agent_plan_approval`). `ExitPlanMode` in plan
   mode switches the mode without asking. Most tools then ask in `Default` mode,
   but one with an allow rule runs.
3. **KillBash that waits for the child** (`shell_kill`). The reaper holds the
   child's mutex while it waits for the child, and `stop` needs that mutex to send
   the signal.
4. **Prompts that answer themselves** (`prompt_unasked`). If the pump has not
   acknowledged in time, or an older acknowledgement is mistaken for its answer,
   the prompt reads an empty line from the raw terminal, and an empty line means
   yes.
5. **Two workers on one session** (`gui_two_writers`). A session whose worker is still in
   a turn can be resumed. Both workers then save through the same `.tmp`, and the
   rename of one can publish the file the other has just truncated.

6. **Dry runs that do something.** `tide-local.mjs:12` says that `--dry-run` does
   "nothing"; a dry run makes the `gguf` directory, `~/.deeptide` with its `log`, and
   `LaunchAgents` (lines 296, 361-362, 545), each before it looks at the flag. There is no
   run that expects this violation: `OnlyRealRunsWrite` states what does hold, that a dry
   run changes no file and makes no directory but those its flags ask for.

In each case the remaining properties hold with the behaviour as it is; for
instance `AckedPromptOwnsTerminal` says that the handshake itself is right when it
is waited for.

## 4. What TLAPS proves

All theorems are about the specifications TLC checks, for every value of the
constants that satisfies the `ASSUME` of the module (naturals where there are
counts; at least one turn, one message in the window; finitely many connections).

`AgentLoopProofs`, for any sizes, budgets, batches, number of prompts and rules:

* `TypeCorrect`: `TypeOK`, strengthened by `Progress`: the results collected answer a
  prefix of the batch, and outside a batch there is neither.
* `UsesAlwaysAnswered`: `UsesAnswered` is not inductive, because during a batch the
  last message is unanswered and `Snip` and `Brief` rewrite the transcript right
  then. `TranscriptInv` says: between batches every call is answered; during one,
  every call but those of the last message, which are exactly the batch; a
  checkpoint is complete. The work is in the lemmas on `compress_at` and `Snip`:
  both produce a text message followed by a suffix of the transcript (or a
  suffix behind its first message), and a suffix of a complete transcript is
  complete, *for calls*. It is not so for results, and `agent_orphans` shows it.
* `CancelIsPrompt`: `late <= 1`, with `CancelInv`: once something began after the
  cancel, no call is waiting for permission or about to run.
* `ConsentAlwaysRespected`: with `ConsentInv`: the mode of the moment is `Bypass` or
  `AcceptEdits` only if the user chose it. So whatever the model switches to, it
  never gains a grant by it.
* `ProtocolIsKept`: `AgentLoop` implements `TurnProtocol`. `StreamInv` says what the
  events since the last `User` or `Assistant` are at each place of the thread; in a
  batch they are the announcement of exactly this batch and the results of its first
  `reported` calls, so what a listener waits for is the rest of the batch
  (`HeardWhenBusy`), and `ReportResult` takes the head of it.
* `RunsAlwaysBounded`: `RunsAreBounded`, the safety half of `RunEnds`. `Work` counts the
  requests that are left, the calls of the batch that are left and the steps each
  of them takes; `WorkInv` says that what is counted never is negative. A run can
  then only stay unfinished by standing still, in front of a question.
* `CompactionSucceeds`, for any transcript longer than the window: `Compactions`, a set
  described by what its members look like, has exactly one member for each summary,
  and it fits. So the step that models `compress_at` never blocks and never chooses.
  Existence needs the value of the recursive `Total` (`TotalIsSum`) and the least
  index with a property.
* `OrphansNeedACut`: finding 1 has no other cause than the drop to the hard limit and
  `Snip` (`Cuts`). In particular the fold in front of it never parts results from
  their calls, which is what the search for a boundary is for (`PairInv`).
* `PlanApprovedWithoutRules`: finding 2 needs a persistent rule for an editing tool or
  Bash. The theorem assumes there is none; the run that finds the violation has one.

`BackgroundShellProofs`, for any number of tasks, streams, agents and lines, and any
buffer size:

* `TypeCorrect`, `PagesStayFaithful`, `StoppedStaysDead`. A page is faithful only because
  a buffer always holds the last lines of its stream (`Holds`: line `i` of the buffer
  is number `total - Len + i`) and because what an agent has pieced together ends at
  its cursor, at or before `total` (`Pieced`). A snapshot reads the two mutexes of
  the reaper one after the other, so `SnapshotIsTrue` says what the first read
  already implies.
* `BuffersKeepTheTail`: a buffer is exactly the last `MaxBuffered` lines, or all of them,
  and its flag says which; a buffer that lost a line too many would still satisfy
  `PagesAreFaithful`.
* `OutputIsComplete`: what `OutputDrains` waits for is all there: a reader at the end
  of the stream has pushed every line (`NothingSkipped`), and an agent whose buffer
  never rolled over has heard all lines up to its cursor (`HeardIsAll`).
* `ExitIsTold`: the same for `ExitIsRecorded`: a child an agent can name has a reaper, and
  a reaper that is done has recorded a dead child's end (`ReapersKeep`).

`Ds4ServerProofs`, for any finite set of connections:

* `Invariant`: the inductive invariant: `TypeOK` (`TypeCorrect`), `Exact` (`s->clients` is
  the number of connections with a thread), `ServedOnce`, `ShutdownOrder` (how
  `stopping`, the worker's end and main's progress imply each other) and
  `JobsAreAlive`.
* `JobsStayAlive`: no pointer in the queue or in the worker dangles. It needs
  `ServedOnce`, as a client may only leave when its job is done, and a done job must
  not be queued.
* `WakeupsAreNeverLost`: `NoLostWakeup` is inductive on top of the invariant above. A
  client that goes to sleep has a job that is queued or served (`ServedOnce`: what is
  done is not queued again), and the mutex of the job leaves no moment between the
  test of `done` and the wait.
* `ShutdownNeverStuck`: from the signal on, main, the worker or a client can take a
  step (`DrainInv`: main joins only after it has raised `stopping`, and no thread is
  half created then). It says of the guards what `ENABLED` would.
* `ServedInOrder`: nobody overtakes in the queue. With the two before it, it is what
  can be proved of `RequestsAreServed` and `ShutdownCompletes`.
* `DrainsProperly`: the server implements `GracefulService`. The step that matters is
  main freeing everything: `clients = 0` means no connection is open only because
  the count is exact.

`PromptHandshakeProofs` (there is no parameter to generalise over; the proofs say why it
holds): `TypeCorrect`, `TerminalAlwaysRestored`, `AckedPromptAlwaysOwns`, `CancelStaysScoped`.
The pump acknowledges in cooked mode only and stays parked while `suspend` is up
(`PumpKeeps`); a turn without the editor has no pump (`TurnKeeps`); an open prompt
keeps `suspend` up (`PromptKeeps`). An acknowledgement that was up before the prompt
proves nothing: `stale` marks it.

* `JoinAlwaysBounded`, `JoinNeverStuck`: once the main thread joins the pump, each step of
  anyone brings the pump nearer to its end (`Left` counts at most six), the lock it
  paints under is free and it is not parked. What is left of `TurnsEnd` is that the
  pump is scheduled. They need `TurnKeeps` to know that `stop` is up during the join.
* `UnaskedNeedsMissedHandshake`: finding 4 has the two causes it names and no third: as
  long as no deadline passes and no prompt begins with an acknowledgement of an
  earlier one, every answer is the user's. Its two hypotheses are behaviours, not
  assumptions on a constant; the ordinary turn satisfies both.

`GuiSessionProofs` and `GuiStoreProofs`, for any number of conversations and prompts:

* `AlwaysAnswerable`: the request is in the map before it is shown and leaves it with
  the wait (`Requests`), and its card is on the screen or in the channel until then
  (`Answerable`).
* `TurnAlwaysShown`: `OneTurn`: at most one turn is anywhere between the window and the
  worker, and if there is one, no event that ends it is in the channel.
* `NeverRunsForNothing`, the converse: a window that shows a running turn waits for
  something that exists (`WaitsForTurn`), unless the backend failed to start: the
  safety half of `RunningEnds`.
* `StopIsKept`: no step but the end of the turn lowers a Stop, the safety half of
  `StopEndsTurn`.
* `DroppedAlwaysWindDown`: `ToGo` counts the prompts a worker still has and ranks its
  stages; for a dropped one nothing adds to it and each step takes away from it,
  because a turn asks once (`AskedOnce`) and what the window does concerns `cur` only.
* `TypeCorrect`, of the whole client, with `OpenFiles`: who has which file open at which
  stage.
* `ListedAlwaysLoad` and `SavedTurnsStay`, both assuming `ResumeBusy = FALSE`, which the code
  does not see to: `gui_two_writers` shows the assumption is needed. Then a session has
  one live worker (`Owned`), no file of a new session exists before its first save (`Fresh`),
  and the transcript of the live worker goes on from the file, while what it has
  written of the sibling is that transcript (`Kept`). So the one step that replaces a
  saved file, the rename, puts a continuation in its place (`PathSteps`), also when an
  earlier write broke off or a restart left a torn sibling.

`TideLocalProofs`, for any number of runs, profiles, ports and command lines:
`TypeCorrect`, `WeightsAlwaysWhole`, `KeysAlwaysKept`, `LastWordHolds`, `AlwaysTestsOwnGateway`,
`OnlyRealRunsEverWrite`, `RunsAlwaysShort`. The argument rests on `Alone`: a run that is at work and is not
the last one that was started has overlapped it. So of the last run, when no
other overlapped it, one can say what it has done so far: `Installed` up to the loaded
agent, `Merged` up to the renamed settings, `Noted` up to `local.json`. `Weighed` says
which part file is complete when, `Served` that a gateway is the loaded one.
`OnlyRealRunsEverWrite` follows from `Realised` (the stages a dry run never reaches) and
`DirSteps` (the directories a step makes are those of a flag of its run).
`RunsAlwaysShort` needs none of it: `ToDo` ranks the stages and counts the binaries not yet
built; no run, kill, login or gateway ever adds to it, so that `RunsEnd` is left with
the scheduling of the process alone.

`ReplaceFileProofs` holds the lemmas on files the last two rest on.

Only model-checked: the liveness properties, as no backend of this prover reasons about
fairness or `ENABLED`. Of most of them the part that does not depend on a schedule is
proved:

| liveness (TLC) | what is proved of it |
|---|---|
| `RunEnds` | `RunsAlwaysBounded` |
| `OutputDrains`, `ExitIsRecorded` | `OutputIsComplete`, `ExitIsTold` |
| `ShutdownCompletes`, `RequestsAreServed` | `WakeupsAreNeverLost`, `ShutdownNeverStuck`, `ServedInOrder` |
| `TurnsEnd` | `JoinAlwaysBounded`, `JoinNeverStuck` |
| `RunningEnds`, `StopEndsTurn`, `DroppedWorkersLeave` | `NeverRunsForNothing`, `StopIsKept`, `DroppedAlwaysWindDown` |
| `RunsEnd` | `RunsAlwaysShort` |
| `ShiftTabApplied` | nothing |

Every invariant, action property and refinement of a passing run is proved. The
modules use no `RECURSIVE` operator; `Total` and what is built on it are recursive
functions. The library's induction theorems take a predicate as a parameter, which
cannot be instantiated here; `SetInduction` of `AgentLoopProofs` states induction for a *set*
of naturals instead, and the facts on recursive functions (`TotalIsSum` and the lemmas
after it) apply it to the set of the numbers for which they hold. Of the runs that
expect a violation, three have a theorem that names the cause
(`OrphansNeedACut`, `PlanApprovedWithoutRules`, `UnaskedNeedsMissedHandshake`), and
`gui_two_writers` is `SavedTurnsStay` without its assumption; `shell_kill` is not a matter of
safety: the signal waits for the child, for ever if the child never ends.

## 5. Plan

Done, in this order: `TurnProtocol`, `Permissions`, `AgentLoop` (the transcript,
cancellation, consent); `BackgroundShell` (paging, reporting, kill); `GracefulService`,
`Ds4Server` (jobs and shutdown); `PromptHandshake` (the terminal); `ReplaceFile`,
`TideLocal` (bootstrap); `SessionStore`, `GuiSession` (the desktop client and what it
saves); the proofs of each. What would come next:

1. `ApiClient`: retries of a cut-off stream, fallback and escalation, retraction of
   what was shown. Abstract specification: one answer or one error per request.
   Theorem: the number of attempts is bounded for any retry budget.
2. `KvCache`: store, evict and load around crashes; theorem: what is loaded is a
   prefix of the prompt. `ReplaceFile` fits its rename.
3. `MessageQueue` with the pump of `PromptHandshake`: no queued message is lost or sent
   twice at a turn boundary.

## 6. What is not modelled, and why

* Text: prompts, rendering, markdown, diffs, wording of results. No property here
  depends on it.
* Token estimates of real text: a message has one of a few costs.
* Hooks beyond their veto, sub-agents beyond being a tool that returns. A sub-agent
  has no cancellation flag and no ask callback, so a cancellation waits for it;
  `CancelBounded` counts it as one tool.
* Permission rules with patterns, and the parser that classifies shell commands: the
  model has a plan-safe kind and another kind of command.
* The numeric engine (`ds4.c`, Metal and CUDA kernels), HTTP and JSON parsing, the
  format adapters, configuration, import, installers, samples: sequential or pure
  I/O.
* The registry key of background shells (a salt and a counter in hexadecimal,
  without a separator): the model uses the task itself.
* The API client, model routing, the KV disk cache and the message queue: stateful
  and within reach, and the plan of section 5. Until then `AgentLoop` sees the final
  answer of the client or its error, and `Ds4Server` sees a job that is served.
* JavaScript outside `scripts/tide-local.mjs`. Nearly all of the repository's JavaScript
  lies in `samples/`: games the agent wrote, kept as a showcase, and a vendored
  three.js of 53 000 lines. None of it is part of the program, and nothing in the
  program calls it. The npm launcher (`bin.js`, `npm/deeptide-rs`) keeps no state
  between runs: it downloads a binary and starts it. So the models cover a small
  share of the repository's JavaScript by its nature; the program itself is Rust and
  C.
* In `scripts/tide-local.mjs`: the parsing of arguments, the text of the plist and of
  messages, the table of profiles and the read-only commands.
* A panic in the middle of a tool batch. `GuiSession` sees the turn end with an error,
  `AgentLoop` has no panics; the transcript it leaves has a call without a result.
