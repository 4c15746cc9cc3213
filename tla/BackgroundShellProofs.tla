------------------------ MODULE BackgroundShellProofs ------------------------
(***************************************************************************)
(* Proofs about BackgroundShell for any number of children, streams,       *)
(* callers and lines, and a buffer of any size: pages of output are        *)
(* faithful and complete, a task that is reported as stopped is dead, and  *)
(* the end of a task is recorded.                                          *)
(***************************************************************************)
EXTENDS BackgroundShell, SequenceTheorems, TLAPS

Buffers == [lines: Seq(Nat), total: Nat, truncated: BOOLEAN]

\* A buffer holds the last lines of its stream, and says so when it does not
\* hold all of them.
Oldest(b) == b.total - Len(b.lines)

Holds(b) ==
    /\ Len(b.lines) <= MaxBuffered /\ Len(b.lines) <= b.total
    /\ \A i \in 1..Len(b.lines) : b.lines[i] = Oldest(b) + i
    /\ b.total > 0 => Len(b.lines) > 0
    /\ b.total > Len(b.lines) => b.truncated

\* h is what an agent has pieced together that was given the cursor n.
Pieced(h, n, b) ==
    /\ Faithful(h, b)
    /\ n <= b.total
    /\ h # <<>> => h[Len(h)] = n
    /\ h = <<>> => n = 0
    /\ h # <<>> /\ h[1] # 1 => b.truncated

BuffersHold == \A t \in Tasks, s \in Streams : Holds(buffer[t][s])

PagesArePieced ==
    \A c \in Callers, t \in Tasks, s \in Streams :
        Pieced(heard[c][t][s], cursor[c][t][s], buffer[t][s])

\* What the reaper and a snapshot in progress say of a child is true.
FinishedIsDead == \A t \in finished : Dead(t)

SnapshotIsTrue ==
    \A c \in Callers :
        call[c].at = "exit" /\ ~call[c].running => call[c].task \in finished

IInv == /\ TypeOK
        /\ BuffersHold /\ PagesArePieced
        /\ FinishedIsDead /\ SnapshotIsTrue /\ StoppedIsDead
-----------------------------------------------------------------------------
LEMMA EmptyHolds == Holds(EmptyBuffer) /\ EmptyBuffer \in Buffers
BY BackgroundShellAssumption DEF Holds, EmptyBuffer, Buffers, Oldest

LEMMA PushedHolds ==
    ASSUME NEW b \in Buffers, Holds(b)
    PROVE  /\ Pushed(b) \in Buffers /\ Holds(Pushed(b))
           /\ Pushed(b).total = b.total + 1
           /\ b.truncated => Pushed(b).truncated
<1> DEFINE full == Len(b.lines) = MaxBuffered
           kept == IF full THEN Tail(b.lines) ELSE b.lines
           more == Append(kept, b.total + 1)
<1>1. b.lines \in Seq(Nat) /\ b.total \in Nat /\ b.truncated \in BOOLEAN
    BY DEF Buffers
<1>2. Pushed(b) = [lines |-> more, total |-> b.total + 1,
                   truncated |-> b.truncated \/ full]
    BY DEF Pushed
<1>3. /\ kept \in Seq(Nat) /\ Len(kept) <= b.total
      /\ Len(kept) = IF full THEN Len(b.lines) - 1 ELSE Len(b.lines)
      /\ \A i \in 1..Len(kept) : kept[i] = b.total - Len(kept) + i
    <2>1. CASE full
        <3>1. b.lines # <<>>
            BY <1>1, <2>1, BackgroundShellAssumption
        <3>2. /\ kept \in Seq(Nat) /\ Len(kept) = Len(b.lines) - 1
              /\ \A i \in 1..Len(kept) : kept[i] = b.lines[i + 1]
            BY <1>1, <2>1, <3>1
        <3>3. \A i \in 1..Len(kept) : kept[i] = b.total - Len(kept) + i
            <4> SUFFICES ASSUME NEW i \in 1..Len(kept)
                         PROVE  kept[i] = b.total - Len(kept) + i
                OBVIOUS
            <4> HIDE DEF kept
            <4>1. i + 1 \in 1..Len(b.lines)
                BY <1>1, <3>2
            <4>2. b.lines[i + 1] = Oldest(b) + (i + 1)
                BY <4>1 DEF Holds
            <4>3. kept[i] = b.lines[i + 1]
                BY <3>2
            <4>4. Len(kept) = Len(b.lines) - 1
                BY <3>2
            <4>5. Len(b.lines) \in Int /\ b.total \in Int /\ i \in Int
                BY <1>1
            <4>6. b.total - Len(b.lines) + (i + 1) = b.total - (Len(b.lines) - 1) + i
                BY <4>5
            <4> QED BY <4>2, <4>3, <4>4, <4>6 DEF Oldest
        <3>4. Len(kept) <= b.total
            <4> HIDE DEF kept
            <4> QED BY <1>1, <3>2 DEF Holds
        <3> HIDE DEF kept
        <3> QED BY <2>1, <3>2, <3>3, <3>4
    <2>2. CASE ~full
        BY <1>1, <2>2 DEF Holds, Oldest
    <2> QED BY <2>1, <2>2
<1> HIDE DEF kept
<1>4. /\ more \in Seq(Nat) /\ Len(more) = Len(kept) + 1
      /\ more[Len(kept) + 1] = b.total + 1
      /\ \A i \in 1..Len(kept) : more[i] = kept[i]
    BY <1>1, <1>3
<1> HIDE DEF more
<1>5. \A i \in 1..Len(more) : more[i] = (b.total + 1) - Len(more) + i
    <2> SUFFICES ASSUME NEW i \in 1..Len(more)
                 PROVE  more[i] = (b.total + 1) - Len(more) + i
        OBVIOUS
    <2>1. Len(kept) \in Nat
        BY <1>3
    <2>2. i = Len(kept) + 1 \/ i \in 1..Len(kept)
        BY <1>4, <2>1
    <2>3. CASE i = Len(kept) + 1
        BY <1>1, <1>4, <2>1, <2>3
    <2>4. CASE i \in 1..Len(kept)
        <3>1. more[i] = b.total - Len(kept) + i
            BY <1>3, <1>4, <2>4
        <3> QED BY <1>1, <1>4, <2>1, <2>4, <3>1
    <2> QED BY <2>2, <2>3, <2>4
<1>6. Len(more) <= MaxBuffered
    <2>1. Len(b.lines) \in Nat /\ Len(b.lines) <= MaxBuffered
        BY <1>1 DEF Holds
    <2> QED BY <1>3, <1>4, <2>1, BackgroundShellAssumption
<1>7. /\ b.total + 1 > Len(more) => b.truncated \/ full
      /\ Len(more) \in Nat \ {0} /\ Len(more) <= b.total + 1
    <2>1. Len(b.lines) \in Nat /\ Len(kept) \in Nat
        BY <1>1, <1>3
    <2>2. b.total > Len(b.lines) => b.truncated
        BY DEF Holds
    <2> QED BY <1>1, <1>3, <1>4, <2>1, <2>2
<1> HIDE DEF full
<1>8. (b.truncated \/ full) \in BOOLEAN
    BY <1>1
<1>9. Pushed(b) \in Buffers
    BY <1>1, <1>2, <1>4, <1>8 DEF Buffers
<1>10. /\ Pushed(b).lines = more /\ Pushed(b).total = b.total + 1
       /\ Pushed(b).truncated = (b.truncated \/ full)
    BY <1>2
<1>11. Holds(Pushed(b))
    <2> DEFINE p == Pushed(b)
    <2> HIDE DEF p
    <2>1. /\ p.lines = more /\ p.total = b.total + 1
          /\ p.truncated = (b.truncated \/ full)
        BY <1>10 DEF p
    <2>2. /\ Len(p.lines) <= MaxBuffered /\ Len(p.lines) <= p.total
          /\ p.total > 0 => Len(p.lines) > 0
          /\ p.total > Len(p.lines) => p.truncated
        <3>1. Len(more) <= MaxBuffered /\ Len(more) <= b.total + 1 /\ Len(more) > 0
            BY <1>6, <1>7
        <3>2. Len(p.lines) = Len(more)
            BY <2>1
        <3>3. p.total > Len(p.lines) => p.truncated
            BY <1>7, <2>1, <3>2
        <3> QED BY <2>1, <3>1, <3>2, <3>3
    <2>3. \A i \in 1..Len(p.lines) : p.lines[i] = Oldest(p) + i
        BY <1>5, <2>1 DEF Oldest
    <2>4. Holds(p)
        BY <2>2, <2>3 DEF Holds
    <2> QED BY <2>4 DEF p
<1> QED BY <1>9, <1>10, <1>11

\* What an agent pieced together stays so while the buffer moves on.
LEMMA PiecedStays ==
    ASSUME NEW h \in Seq(Nat), NEW n \in Nat, NEW b \in Buffers,
           NEW d \in Buffers, Pieced(h, n, b),
           b.total <= d.total, b.truncated => d.truncated
    PROVE  Pieced(h, n, d)
BY DEF Pieced, Faithful, Buffers

\* A page: the lines from start on, which is past the cursor only when lines
\* were dropped.
Page(d, n, b) ==
    /\ d \in Seq(Nat)
    /\ \E start \in Nat :
         /\ n <= start /\ start + Len(d) = b.total
         /\ start > n => b.truncated
         /\ \A i \in 1..Len(d) : d[i] = start + i
         /\ d = <<>> => b.total = n

LEMMA LinesSincePage ==
    ASSUME NEW b \in Buffers, Holds(b), NEW n \in Nat, n <= b.total
    PROVE  Page(LinesSince(b, n), n, b)
<1>1. /\ b.lines \in Seq(Nat) /\ b.total \in Nat /\ b.truncated \in BOOLEAN
      /\ Len(b.lines) \in Nat /\ Oldest(b) \in Nat
    BY DEF Buffers, Holds, Oldest
<1>2. CASE n = b.total
    <2>1. LinesSince(b, n) = <<>>
        BY <1>1, <1>2 DEF LinesSince
    <2> QED BY <1>1, <1>2, <2>1 DEF Page
<1>3. CASE n < Oldest(b)
    <2>1. LinesSince(b, n) = b.lines
        BY <1>1, <1>3 DEF LinesSince, Oldest
    <2>2. Oldest(b) + Len(b.lines) = b.total /\ b.truncated
        BY <1>1, <1>3 DEF Holds, Oldest
    <2>3. b.lines # <<>>
        BY <1>1, <1>3 DEF Holds, Oldest
    <2>4. \A i \in 1..Len(b.lines) : b.lines[i] = Oldest(b) + i
        BY DEF Holds
    <2> QED BY <1>1, <1>3, <2>1, <2>2, <2>3, <2>4 DEF Page
<1>4. CASE n < b.total /\ n >= Oldest(b)
    <2> DEFINE from == n - Oldest(b) + 1
               d == SubSeq(b.lines, from, Len(b.lines))
    <2>1. LinesSince(b, n) = d
        <3>1. ~(n >= b.total) /\ ~(n < b.total - Len(b.lines))
            BY <1>1, <1>4 DEF Oldest
        <3> QED BY <3>1 DEF LinesSince, Oldest
    <2>2. from \in 1..Len(b.lines) /\ from = n - Oldest(b) + 1
        BY <1>1, <1>4 DEF Oldest
    <2> HIDE DEF from
    <2>3. /\ d \in Seq(Nat) /\ Len(d) = Len(b.lines) - from + 1
          /\ \A i \in 1..Len(d) : d[i] = b.lines[from + i - 1]
        <3>1. from \in Int /\ Len(b.lines) \in Int /\ from <= Len(b.lines)
            BY <1>1, <2>2
        <3>2. \A i \in from..Len(b.lines) : b.lines[i] \in Nat
            BY <1>1, <2>2
        <3> QED BY <3>1, <3>2, SubSeqProperties
    <2> HIDE DEF d
    <2>4. /\ n + Len(d) = b.total /\ Len(d) \in Nat \ {0}
          /\ from - 1 + Len(d) = Len(b.lines)
        <3>1. Oldest(b) = b.total - Len(b.lines) /\ Len(d) = Len(b.lines) - from + 1
            BY <2>3 DEF Oldest
        <3>2. from \in Int /\ from <= Len(b.lines)
            BY <1>1, <2>2
        <3>3. /\ n \in Int /\ b.total \in Int /\ Len(b.lines) \in Int
              /\ Oldest(b) \in Int /\ from = n - Oldest(b) + 1
            BY <1>1, <2>2
        <3>4. from - 1 + (Len(b.lines) - from + 1) = Len(b.lines)
            BY <3>2, <3>3
        <3>5. n + (Len(b.lines) - from + 1) = b.total
            <4>1. n + (Len(b.lines) - (n - (b.total - Len(b.lines)) + 1) + 1)
                    = b.total
                BY <3>3
            <4> QED BY <3>1, <3>3, <4>1
        <3>6. Len(b.lines) - from + 1 \in Nat \ {0}
            BY <3>2, <3>3
        <3> QED BY <3>1, <3>4, <3>5, <3>6
    <2>5. \A i \in 1..Len(d) : d[i] = n + i
        <3> SUFFICES ASSUME NEW i \in 1..Len(d) PROVE d[i] = n + i
            OBVIOUS
        <3>1. from + i - 1 \in 1..Len(b.lines)
            <4>1. /\ from \in 1..Len(b.lines) /\ Len(b.lines) \in Int
                  /\ i \in 1..Len(d) /\ Len(d) \in Int
                  /\ from - 1 + Len(d) = Len(b.lines)
                BY <1>1, <2>2, <2>4
            <4> QED BY <4>1
        <3>2. b.lines[from + i - 1] = Oldest(b) + (from + i - 1)
            BY <3>1 DEF Holds
        <3>3. d[i] = b.lines[from + i - 1] /\ from \in Int /\ i \in Int
            BY <2>2, <2>3
        <3>4. Oldest(b) \in Int /\ n \in Int /\ from = n - Oldest(b) + 1
            BY <1>1, <2>2
        <3>5. Oldest(b) + (from + i - 1) = n + i
            BY <3>3, <3>4
        <3> QED BY <3>2, <3>3, <3>5
    <2>6. d # <<>> /\ n <= n /\ ~(n > n)
        BY <2>4
    <2>7. Page(d, n, b)
        BY <2>3, <2>4, <2>5, <2>6 DEF Page
    <2> QED BY <2>1, <2>7
<1> QED BY <1>1, <1>2, <1>3, <1>4

\* All that is kept is a page for an agent that has heard nothing.
LEMMA AllKeptPage ==
    ASSUME NEW b \in Buffers, Holds(b)
    PROVE  Page(b.lines, 0, b)
<1>1. /\ b.lines \in Seq(Nat) /\ b.total \in Nat
      /\ Len(b.lines) \in Nat /\ Oldest(b) \in Nat
    BY DEF Buffers, Holds, Oldest
<1>2. Oldest(b) + Len(b.lines) = b.total
    BY <1>1 DEF Oldest
<1>3. b.lines = <<>> => b.total = 0
    BY <1>1 DEF Holds
<1>4. Oldest(b) > 0 => b.truncated
    BY <1>1, <1>2 DEF Holds
<1>5. \A i \in 1..Len(b.lines) : b.lines[i] = Oldest(b) + i
    BY DEF Holds
<1>6. Oldest(b) >= 0
    BY <1>1
<1> QED BY <1>1, <1>2, <1>3, <1>4, <1>5, <1>6 DEF Page

LEMMA PagePieced ==
    ASSUME NEW h \in Seq(Nat), NEW n \in Nat, NEW b \in Buffers,
           Pieced(h, n, b), NEW d, Page(d, n, b)
    PROVE  h \o d \in Seq(Nat) /\ Pieced(h \o d, b.total, b)
<1>1. PICK start \in Nat :
         /\ n <= start /\ start + Len(d) = b.total
         /\ start > n => b.truncated
         /\ \A i \in 1..Len(d) : d[i] = start + i
         /\ d = <<>> => b.total = n
    BY DEF Page
<1>2. d \in Seq(Nat) /\ b.total \in Nat
    BY DEF Page, Buffers
<1> DEFINE g == h \o d
<1>3. /\ g \in Seq(Nat) /\ Len(g) = Len(h) + Len(d)
      /\ \A i \in 1..Len(h) : g[i] = h[i]
      /\ \A i \in (Len(h) + 1)..Len(g) : g[i] = d[i - Len(h)]
    <2>1. Len(h) \in Nat /\ Len(d) \in Nat
        BY <1>2
    <2> HIDE DEF g
    <2>2. /\ g \in Seq(Nat) /\ Len(g) = Len(h) + Len(d)
          /\ \A i \in 1..(Len(h) + Len(d)) :
               g[i] = IF i <= Len(h) THEN h[i] ELSE d[i - Len(h)]
        BY <1>2, ConcatProperties DEF g
    <2>3. \A i \in 1..Len(h) : g[i] = h[i]
        BY <2>1, <2>2
    <2>4. \A i \in (Len(h) + 1)..Len(g) : g[i] = d[i - Len(h)]
        BY <2>1, <2>2
    <2> QED BY <2>2, <2>3, <2>4
<1>4. CASE d = <<>>
    <2>1. g = h
        BY <1>4
    <2> QED BY <1>1, <1>4, <2>1 DEF Pieced
<1>5. CASE d # <<>>
    <2>1. Len(d) \in Nat \ {0} /\ Len(h) \in Nat
        BY <1>2, <1>5
    <2> HIDE DEF g
    <2>2. g # <<>> /\ g[Len(g)] = b.total
        <3>1. Len(g) \in (Len(h) + 1)..Len(g) /\ Len(g) - Len(h) = Len(d)
            BY <1>3, <2>1
        <3>2. g[Len(g)] = d[Len(d)]
            BY <1>3, <3>1
        <3>3. d[Len(d)] = start + Len(d)
            BY <1>1, <2>1
        <3> QED BY <1>1, <1>3, <2>1, <3>2, <3>3
    <2>3. Faithful(g, b)
        <3> SUFFICES ASSUME NEW i \in 1..(Len(g) - 1)
                     PROVE  \/ g[i + 1] = g[i] + 1
                            \/ g[i + 1] > g[i] /\ b.truncated
            BY DEF Faithful
        <3>1. CASE i < Len(h)
            <4>1. i \in 1..(Len(h) - 1) /\ i \in 1..Len(h) /\ i + 1 \in 1..Len(h)
                BY <2>1, <3>1
            <4>2. g[i] = h[i] /\ g[i + 1] = h[i + 1]
                BY <1>3, <4>1
            <4> QED BY <4>1, <4>2 DEF Pieced, Faithful
        <3>2. CASE i = Len(h)
            <4>1. /\ i \in 1..Len(h) /\ h # <<>>
                  /\ i + 1 \in (Len(h) + 1)..Len(g) /\ i + 1 - Len(h) = 1
                BY <1>3, <2>1, <3>2
            <4>2. g[i] = h[i] /\ g[i + 1] = d[i + 1 - Len(h)]
                BY <1>3, <4>1
            <4>3. g[i] = n /\ g[i + 1] = d[1]
                BY <3>2, <4>1, <4>2 DEF Pieced
            <4>4. d[1] = start + 1
                BY <1>1, <2>1
            <4> QED BY <1>1, <4>3, <4>4
        <3>3. CASE i > Len(h)
            <4>1. /\ i - Len(h) \in 1..Len(d) /\ i + 1 - Len(h) \in 1..Len(d)
                  /\ g[i] = d[i - Len(h)] /\ g[i + 1] = d[i + 1 - Len(h)]
                BY <1>3, <2>1, <3>3
            <4>2. g[i] = start + (i - Len(h)) /\ g[i + 1] = start + (i + 1 - Len(h))
                BY <1>1, <4>1
            <4> QED BY <2>1, <4>2
        <3> QED BY <2>1, <3>1, <3>2, <3>3
    <2>4. g[1] # 1 => b.truncated
        <3>1. CASE h = <<>>
            <4>1. g[1] = d[1] /\ n = 0
                BY <1>3, <2>1, <3>1 DEF Pieced
            <4>2. d[1] = start + 1
                BY <1>1, <2>1
            <4> QED BY <1>1, <4>1, <4>2
        <3>2. CASE h # <<>>
            <4>1. g[1] = h[1]
                BY <1>3, <3>2
            <4> QED BY <3>2, <4>1 DEF Pieced
        <3> QED BY <3>1, <3>2
    <2> QED BY <1>2, <1>3, <2>2, <2>3, <2>4 DEF Pieced, g
<1> QED BY <1>4, <1>5
-----------------------------------------------------------------------------
\* The two kinds of calls, and the actions whose effects are alike.
Snapshots == [at: {"running", "exit"}, task: Tasks, paging: SUBSET Streams,
              running: BOOLEAN]
Stops == [at: {"kill", "grace", "read"}, task: Tasks]

LEMMA CallKinds ==
    ASSUME NEW k \in Calls
    PROVE  /\ k.at \in {"running", "exit"} => k \in Snapshots
           /\ k.at \in {"kill", "grace", "read"} => k \in Stops
BY DEF Calls, Idle, Snapshots, Stops

LEMMA BufferType ==
    ASSUME TypeOK, NEW t \in Tasks, NEW s \in Streams
    PROVE  buffer[t][s] \in Buffers
BY DEF TypeOK, Buffers

Launches(c, t) == Spawn(c, t) \/ SpawnUnreaped(c, t)
Threads(t) == ReaperStep(t) \/ ChildStep(t)
CallMoves(c) == \/ Kill(c) \/ GraceOver(c) \/ StopRead(c) \/ ReadRunning(c)
                \/ \E t \in Tasks : BashOutput(c, t) \/ KillBash(c, t)

LEMMA NextCases ==
    ASSUME Next
    PROVE  \/ \E c \in Callers, t \in Tasks : Launches(c, t)
           \/ \E t \in Tasks : Threads(t)
           \/ \E t \in Tasks, s \in Streams : Push(t, s)
           \/ \E t \in Tasks, s \in Streams :
                EndOfStream(t, s) \/ InvalidLine(t, s)
           \/ \E c \in Callers : CallMoves(c)
           \/ \E c \in Callers : ReadExit(c)
BY DEF Next, ReaderStep, CallStep, CallBegins, Launches, Threads, CallMoves

\* Only Push changes a buffer.
LEMMA BufferChange ==
    ASSUME TypeOK, BuffersHold, [Next]_vars, NEW t \in Tasks, NEW s \in Streams
    PROVE  /\ buffer'[t][s] \in Buffers /\ Holds(buffer'[t][s])
           /\ buffer[t][s].total <= buffer'[t][s].total
           /\ buffer[t][s].truncated => buffer'[t][s].truncated
<1>1. buffer[t][s] \in Buffers /\ Holds(buffer[t][s])
    BY BufferType DEF BuffersHold
<1>2. buffer[t][s].total \in Nat
    BY <1>1 DEF Buffers
<1>3. CASE buffer' = buffer
    BY <1>1, <1>2, <1>3
<1>4. CASE \E u \in Tasks, r \in Streams : Push(u, r)
    <2> PICK u \in Tasks, r \in Streams : Push(u, r)
        BY <1>4
    <2>1. \/ buffer'[t][s] = buffer[t][s]
          \/ buffer'[t][s] = Pushed(buffer[t][s])
        BY DEF Push, TypeOK
    <2>2. CASE buffer'[t][s] = Pushed(buffer[t][s])
        BY <1>1, <1>2, <2>2, PushedHolds
    <2> QED BY <1>1, <1>2, <2>1, <2>2
<1>5. buffer' = buffer \/ \E u \in Tasks, r \in Streams : Push(u, r)
    <2>1. CASE UNCHANGED vars
        BY <2>1 DEF vars, threadVars
    <2>2. CASE Next
        BY <2>2, NextCases
        DEF Launches, Spawn, SpawnUnreaped, Launch, Threads, ReaperStep,
            ChildStep, ReaperWaits, ReaperFinishes, ReaperRecords, Write, Exit,
            LastWriterExits, EndOfStream, InvalidLine, ReaderStops, CallMoves,
            Kill, GraceOver, StopRead, ReadRunning, ReadExit, BashOutput,
            KillBash, Snapshot, threadVars
    <2> QED BY <2>1, <2>2
<1> QED BY <1>3, <1>4, <1>5

LEMMA DeliveredPieced ==
    ASSUME TypeOK, BuffersHold, PagesArePieced,
           NEW c \in Callers, NEW t \in Tasks, NEW s \in Streams
    PROVE  /\ Delivered(c, t)[s] \in Seq(Nat)
           /\ Pieced(Delivered(c, t)[s], buffer[t][s].total, buffer[t][s])
<1> DEFINE b == buffer[t][s]
           h == heard[c][t][s]
           n == cursor[c][t][s]
<1>1. b \in Buffers /\ Holds(b) /\ b.total \in Nat
    BY BufferType DEF BuffersHold, Buffers
<1>2. h \in Seq(Nat) /\ n \in Nat /\ Pieced(h, n, b)
    BY DEF TypeOK, PagesArePieced
<1>3. Delivered(c, t)[s] = IF s \in call[c].paging THEN h \o LinesSince(b, n)
                                                   ELSE b.lines
    BY DEF Delivered
<1> HIDE DEF b, h, n
<1>4. CASE s \in call[c].paging
    <2>1. Page(LinesSince(b, n), n, b)
        BY <1>1, <1>2, LinesSincePage DEF Pieced
    <2>2. h \o LinesSince(b, n) \in Seq(Nat)
          /\ Pieced(h \o LinesSince(b, n), b.total, b)
        BY <1>1, <1>2, <2>1, PagePieced
    <2> QED BY <1>3, <1>4, <2>2 DEF b
<1>5. CASE s \notin call[c].paging
    <2>1. Page(b.lines, 0, b) /\ b.lines \in Seq(Nat)
        BY <1>1, AllKeptPage DEF Buffers
    <2>2. <<>> \in Seq(Nat) /\ Pieced(<<>>, 0, b)
        BY <1>1 DEF Pieced, Faithful
    <2>3. <<>> \o b.lines \in Seq(Nat) /\ Pieced(<<>> \o b.lines, b.total, b)
        BY <1>1, <2>1, <2>2, PagePieced
    <2>4. <<>> \o b.lines = b.lines
        BY <2>1, ConcatEmptySeq
    <2> QED BY <1>3, <1>5, <2>3, <2>4 DEF b
<1> QED BY <1>4, <1>5
-----------------------------------------------------------------------------
LEMMA TypeInit == Init => TypeOK
<1>1. EmptyBuffer \in Buffers /\ Len(EmptyBuffer.lines) <= MaxBuffered
    BY EmptyHolds DEF Holds
<1>2. Init => buffer \in [Tasks -> [Streams -> Buffers]]
    BY <1>1 DEF Init
<1>3. Init => \A t \in Tasks, s \in Streams :
                 Len(buffer[t][s].lines) <= MaxBuffered
    BY <1>1 DEF Init
<1>4. Init => heard \in [Callers -> [Tasks -> [Streams -> Seq(Nat)]]]
    BY DEF Init
<1> QED BY <1>2, <1>3, <1>4 DEF Init, TypeOK, Buffers, Calls

LEMMA TypeStep ==
    ASSUME TypeOK, BuffersHold, PagesArePieced, Next PROVE TypeOK'
<1>1. /\ buffer' \in [Tasks -> [Streams -> Buffers]]
      /\ \A t \in Tasks, s \in Streams : Len(buffer'[t][s].lines) <= MaxBuffered
    <2>1. buffer' \in [Tasks -> [Streams -> Buffers]]
        <3>1. buffer \in [Tasks -> [Streams -> Buffers]]
            BY DEF TypeOK, Buffers
        <3>2. CASE \E t \in Tasks, s \in Streams : Push(t, s)
            BY <3>1, <3>2, BufferChange DEF Push
        <3> QED
            BY <3>1, <3>2, NextCases
            DEF Launches, Spawn, SpawnUnreaped, Launch, Threads, ReaperStep,
                ChildStep, ReaperWaits, ReaperFinishes, ReaperRecords, Write,
                Exit, LastWriterExits, EndOfStream, InvalidLine, ReaderStops,
                CallMoves, Kill, GraceOver, StopRead, ReadRunning, ReadExit,
                BashOutput, KillBash, Snapshot, threadVars
    <2> QED BY <2>1, BufferChange DEF Holds
<1> USE DEF TypeOK, osVars, threadVars, agentVars
<1>2. CASE \E c \in Callers, t \in Tasks : Launches(c, t)
    <2> PICK c \in Callers, t \in Tasks : Launches(c, t)
        BY <1>2
    <2>1. reader' \in [Tasks -> [Streams -> {"none", "reading", "eof", "broken"}]]
        <3> PICK started \in SUBSET Streams :
                reader' = [reader EXCEPT ![t] = [s \in Streams |->
                    IF s \in started THEN "reading" ELSE "broken"]]
            BY DEF Launches, Spawn, SpawnUnreaped, Launch
        <3> QED OBVIOUS
    <2>2. proc' \in [Tasks -> {"unborn", "live", "exited", "killed"}]
        BY DEF Launches, Spawn, SpawnUnreaped, Launch
    <2>3. reaper' \in [Tasks ->
              {"none", "started", "waiting", "finishing", "done"}]
        BY DEF Launches, Spawn, SpawnUnreaped
    <2>4. piped' \subseteq Tasks /\ registered' \subseteq Tasks
        BY DEF Launches, Spawn, SpawnUnreaped, Launch
    <2>5. UNCHANGED <<written, finished, exitCode, call, cursor, heard, told>>
        BY DEF Launches, Spawn, SpawnUnreaped, Launch
    <2> QED BY <1>1, <2>1, <2>2, <2>3, <2>4, <2>5 DEF Buffers
<1>3. CASE \E t \in Tasks : Threads(t)
    <2> PICK t \in Tasks : Threads(t)
        BY <1>3
    <2>1. CASE \E s \in Streams : Write(t, s)
        BY <1>1, <2>1 DEF Write, Buffers
    <2>2. CASE Exit(t) \/ LastWriterExits(t)
        BY <1>1, <2>2 DEF Exit, Dies, LastWriterExits, Buffers
    <2>3. CASE ReaperStep(t)
        BY <1>1, <2>3
        DEF ReaperStep, ReaperWaits, ReaperFinishes, ReaperRecords, Buffers
    <2> QED BY <2>1, <2>2, <2>3 DEF Threads, ChildStep
<1>4. CASE \E t \in Tasks, s \in Streams : Push(t, s)
    BY <1>1, <1>4 DEF Push, Buffers
<1>5. CASE \E t \in Tasks, s \in Streams : EndOfStream(t, s) \/ InvalidLine(t, s)
    <2> PICK t \in Tasks, s \in Streams : EndOfStream(t, s) \/ InvalidLine(t, s)
        BY <1>5
    <2>1. \E how \in {"eof", "broken"} : ReaderStops(t, s, how)
        BY DEF EndOfStream, InvalidLine
    <2>2. reader' \in [Tasks -> [Streams -> {"none", "reading", "eof", "broken"}]]
        BY <2>1 DEF ReaderStops
    <2> QED BY <1>1, <2>1, <2>2 DEF ReaderStops, Buffers
<1>6. CASE \E c \in Callers : CallMoves(c)
    <2> PICK c \in Callers : CallMoves(c)
        BY <1>6
    <2>1. call[c] \in Calls
        OBVIOUS
    <2>2. \E k \in Calls : call' = [call EXCEPT ![c] = k]
        BY <2>1, CallKinds
        DEF CallMoves, Kill, GraceOver, StopRead, ReadRunning, BashOutput,
            KillBash, Snapshot, Goto, Calls, Snapshots, Stops
    <2>3. /\ proc' \in [Tasks -> {"unborn", "live", "exited", "killed"}]
          /\ piped' \subseteq Tasks
        <3>1. CASE Kill(c)
            <4>1. call[c].task \in Tasks
                BY <2>1, <3>1, CallKinds DEF Kill, Stops
            <4> QED BY <3>1, <4>1 DEF Kill, Dies
        <3> QED
            BY <3>1 DEF CallMoves, GraceOver, StopRead, ReadRunning,
                BashOutput, KillBash, Snapshot
    <2> QED
        BY <1>1, <2>2, <2>3
        DEF CallMoves, Kill, GraceOver, StopRead, ReadRunning, BashOutput,
            KillBash, Snapshot, Buffers
<1>7. CASE \E c \in Callers : ReadExit(c)
    <2> PICK c \in Callers : ReadExit(c)
        BY <1>7
    <2> DEFINE t == call[c].task
    <2>1. t \in Tasks
        BY CallKinds DEF ReadExit, Snapshots
    <2> HIDE DEF t
    <2>2. heard' \in [Callers -> [Tasks -> [Streams -> Seq(Nat)]]]
        <3>1. heard' = [heard EXCEPT ![c][t] = Delivered(c, t)]
            BY DEF ReadExit, t
        <3>2. Delivered(c, t) \in [Streams -> Seq(Nat)]
            BY <2>1, DeliveredPieced DEF Delivered
        <3> HIDE DEF TypeOK
        <3>3. heard \in [Callers -> [Tasks -> [Streams -> Seq(Nat)]]]
            BY DEF TypeOK
        <3> QED BY <2>1, <3>1, <3>2, <3>3
    <2>3. cursor' \in [Callers -> [Tasks -> [Streams -> Nat]]]
        BY <2>1 DEF ReadExit, t
    <2>4. told' \in [Callers -> [Tasks -> {"nothing", "running", "stopped"}]]
        BY <2>1 DEF ReadExit, t
    <2>5. call' \in [Callers -> Calls]
        BY DEF ReadExit, Goto, Calls
    <2> QED BY <1>1, <2>2, <2>3, <2>4, <2>5 DEF ReadExit, Buffers
<1> QED BY <1>2, <1>3, <1>4, <1>5, <1>6, <1>7, NextCases

\* The part of the invariant about the output.
LEMMA OutputStep ==
    ASSUME TypeOK, BuffersHold, PagesArePieced, [Next]_vars
    PROVE  BuffersHold' /\ PagesArePieced'
<1>1. BuffersHold'
    BY BufferChange DEF BuffersHold
<1>2. ASSUME NEW c \in Callers, NEW t \in Tasks, NEW s \in Streams
      PROVE  Pieced(heard'[c][t][s], cursor'[c][t][s], buffer'[t][s])
    <2>1. /\ buffer[t][s] \in Buffers /\ buffer'[t][s] \in Buffers
          /\ buffer[t][s].total <= buffer'[t][s].total
          /\ buffer[t][s].truncated => buffer'[t][s].truncated
        BY BufferType, BufferChange
    <2>2. /\ heard[c][t][s] \in Seq(Nat) /\ cursor[c][t][s] \in Nat
          /\ Pieced(heard[c][t][s], cursor[c][t][s], buffer[t][s])
        BY DEF TypeOK, PagesArePieced
    <2>3. CASE /\ heard'[c][t][s] = heard[c][t][s]
               /\ cursor'[c][t][s] = cursor[c][t][s]
        BY <2>1, <2>2, <2>3, PiecedStays
    <2>4. CASE /\ heard'[c][t][s] = Delivered(c, t)[s]
               /\ cursor'[c][t][s] = buffer[t][s].total
        <3>1. /\ Delivered(c, t)[s] \in Seq(Nat)
              /\ Pieced(Delivered(c, t)[s], buffer[t][s].total, buffer[t][s])
            BY DeliveredPieced
        <3>2. buffer[t][s].total \in Nat
            BY <2>1 DEF Buffers
        <3> QED BY <2>1, <2>4, <3>1, <3>2, PiecedStays
    <2>5. CASE \E d \in Callers : ReadExit(d)
        <3> PICK d \in Callers : ReadExit(d)
            BY <2>5
        <3>1. CASE d = c /\ call[d].task = t
            BY <2>4, <3>1 DEF ReadExit, TypeOK
        <3>2. CASE ~(d = c /\ call[d].task = t)
            BY <2>3, <3>2 DEF ReadExit, TypeOK
        <3> QED BY <3>1, <3>2
    <2>6. CASE UNCHANGED vars
        BY <2>3, <2>6 DEF vars, agentVars
    <2>7. CASE Next /\ ~\E d \in Callers : ReadExit(d)
        <3>1. heard' = heard /\ cursor' = cursor
            BY <2>7, NextCases
            DEF Launches, Spawn, SpawnUnreaped, Launch, Threads, ReaperStep,
                ChildStep, ReaperWaits, ReaperFinishes, ReaperRecords, Write,
                Exit, LastWriterExits, Push, EndOfStream, InvalidLine,
                ReaderStops, CallMoves, Kill, GraceOver, StopRead, ReadRunning,
                BashOutput, KillBash, Snapshot, agentVars
        <3> QED BY <2>3, <3>1
    <2> QED BY <2>5, <2>6, <2>7
<1> QED BY <1>1, <1>2 DEF PagesArePieced

\* The dead stay dead and the finished stay finished.
LEMMA DeadStay ==
    ASSUME TypeOK, FinishedIsDead, Next
    PROVE  /\ finished \subseteq finished' /\ FinishedIsDead'
           /\ \A t \in Tasks : Dead(t) => Dead(t)'
<1>1. CASE \E c \in Callers, t \in Tasks : Launches(c, t)
    BY <1>1 DEF Launches, Spawn, SpawnUnreaped, Launch, TypeOK, Dead,
        FinishedIsDead
<1>2. CASE \E t \in Tasks : Threads(t)
    BY <1>2
    DEF Threads, ReaperStep, ChildStep, ReaperWaits, ReaperFinishes,
        ReaperRecords, Write, Exit, Dies, LastWriterExits, TypeOK, Dead,
        FinishedIsDead, osVars, threadVars
<1>3. CASE \E t \in Tasks, s \in Streams :
              Push(t, s) \/ EndOfStream(t, s) \/ InvalidLine(t, s)
    BY <1>3
    DEF Push, EndOfStream, InvalidLine, ReaderStops, Dead, FinishedIsDead,
        osVars
<1>4. CASE \E c \in Callers : CallMoves(c) \/ ReadExit(c)
    BY <1>4
    DEF CallMoves, Kill, Dies, GraceOver, StopRead, ReadRunning, ReadExit,
        BashOutput, KillBash, Snapshot, TypeOK, Dead, FinishedIsDead, osVars,
        threadVars
<1> QED BY <1>1, <1>2, <1>3, <1>4, NextCases

\* A call that is about to report a stopped child reports one.
Reports(k) == k.at = "exit" /\ ~k.running => k.task \in finished

\* The part of the invariant about what is said of the children.
LEMMA StateStep ==
    ASSUME TypeOK, FinishedIsDead, SnapshotIsTrue, StoppedIsDead, Next
    PROVE  SnapshotIsTrue' /\ StoppedIsDead'
<1>1. /\ finished \subseteq finished'
      /\ \A t \in Tasks : Dead(t) => Dead(t)'
    BY DeadStay
<1>2. CASE call' = call /\ told' = told
    BY <1>1, <1>2 DEF SnapshotIsTrue, StoppedIsDead
<1>3. CASE \E c \in Callers : CallMoves(c)
    <2> PICK c \in Callers : CallMoves(c)
        BY <1>3
    <2>1. told' = told
        BY DEF CallMoves, Kill, GraceOver, StopRead, ReadRunning, BashOutput,
            KillBash, Snapshot
    <2>2. call[c] \in Calls
        BY DEF TypeOK
    <2>3. \E k : Goto(c, k) /\ Reports(k)
        <3>1. CASE ReadRunning(c)
            <4>1. call[c] \in Snapshots
                BY <2>2, <3>1, CallKinds DEF ReadRunning
            <4> DEFINE k == [call[c] EXCEPT !.at = "exit",
                                 !.running = call[c].task \notin finished]
            <4>2. /\ k.running = (call[c].task \notin finished)
                  /\ k.task = call[c].task
                BY <4>1 DEF Snapshots
            <4>3. Goto(c, k)
                BY <3>1 DEF ReadRunning
            <4> HIDE DEF k
            <4>4. Reports(k)
                BY <4>2 DEF Reports
            <4> QED BY <4>3, <4>4
        <3>2. CASE Kill(c) \/ GraceOver(c)
            <4>1. call[c] \in Stops
                BY <2>2, <3>2, CallKinds DEF Kill, GraceOver
            <4>2. \E at \in {"grace", "read"} : Goto(c, [call[c] EXCEPT !.at = at])
                BY <3>2 DEF Kill, GraceOver
            <4>3. \A at \in {"grace", "read"} : Reports([call[c] EXCEPT !.at = at])
                BY <4>1 DEF Reports, Stops
            <4> QED BY <4>2, <4>3
        <3>3. CASE \E t \in Tasks, paging \in SUBSET Streams :
                      Snapshot(c, t, paging)
            <4> PICK t \in Tasks, paging \in SUBSET Streams :
                    Snapshot(c, t, paging)
                BY <3>3
            <4> DEFINE k == [at |-> "running", task |-> t, paging |-> paging,
                             running |-> FALSE]
            <4>1. Goto(c, k) /\ Reports(k)
                BY DEF Snapshot, Reports
            <4> QED BY <4>1
        <3>4. CASE \E t \in Tasks : KillBash(c, t)
            <4> PICK t \in Tasks : KillBash(c, t)
                BY <3>4
            <4> DEFINE k == [at |-> IF t \in finished THEN "read" ELSE "kill",
                             task |-> t]
            <4>1. Goto(c, k) /\ Reports(k)
                BY DEF KillBash, Reports
            <4> QED BY <4>1
        <3>5. StopRead(c) => \E t \in Tasks : Snapshot(c, t, {})
            BY <2>2, CallKinds DEF StopRead, Stops
        <3> QED BY <3>1, <3>2, <3>3, <3>4, <3>5 DEF CallMoves, BashOutput
    <2>4. SnapshotIsTrue'
        BY <1>1, <2>3 DEF SnapshotIsTrue, TypeOK, Goto, Reports
    <2> QED BY <1>1, <2>1, <2>4 DEF StoppedIsDead
<1>4. CASE \E c \in Callers : ReadExit(c)
    <2> PICK c \in Callers : ReadExit(c)
        BY <1>4
    <2>1. call[c] \in Snapshots /\ call[c].at = "exit"
        BY CallKinds DEF ReadExit, TypeOK
    <2>2. SnapshotIsTrue'
        BY <1>1 DEF ReadExit, Goto, Idle, SnapshotIsTrue, TypeOK
    <2>3. ~call[c].running => call[c].task \in finished /\ Dead(call[c].task)
        BY <2>1 DEF SnapshotIsTrue, FinishedIsDead
    <2>4. told' = [told EXCEPT ![c][call[c].task] =
                      IF call[c].running THEN "running" ELSE "stopped"]
        BY DEF ReadExit
    <2>5. StoppedIsDead'
        BY <1>1, <2>1, <2>3, <2>4 DEF StoppedIsDead, TypeOK, Snapshots
    <2> QED BY <2>2, <2>5
<1>5. CASE ~\E c \in Callers : CallMoves(c) \/ ReadExit(c)
    <2>1. call' = call /\ told' = told
        BY <1>5, NextCases
        DEF Launches, Spawn, SpawnUnreaped, Launch, Threads, ReaperStep,
            ChildStep, ReaperWaits, ReaperFinishes, ReaperRecords, Write, Exit,
            LastWriterExits, Push, EndOfStream, InvalidLine, ReaderStops,
            agentVars
    <2> QED BY <1>2, <2>1
<1> QED BY <1>3, <1>4, <1>5
-----------------------------------------------------------------------------
LEMMA InitInvariant == Init => IInv
<1> SUFFICES ASSUME Init PROVE IInv
    OBVIOUS
<1>1. TypeOK
    BY TypeInit
<1>2. BuffersHold
    BY EmptyHolds DEF Init, BuffersHold
<1>3. PagesArePieced
    <2>1. Pieced(<<>>, 0, EmptyBuffer)
        BY DEF Pieced, Faithful, EmptyBuffer
    <2> QED BY <2>1 DEF Init, PagesArePieced
<1>4. FinishedIsDead /\ SnapshotIsTrue /\ StoppedIsDead
    BY DEF Init, FinishedIsDead, SnapshotIsTrue, StoppedIsDead, Idle
<1> QED BY <1>1, <1>2, <1>3, <1>4 DEF IInv

LEMMA NextInvariant == IInv /\ [Next]_vars => IInv'
<1> SUFFICES ASSUME IInv, [Next]_vars PROVE IInv'
    OBVIOUS
<1>1. CASE Next
    BY <1>1, TypeStep, OutputStep, DeadStay, StateStep DEF IInv
<1>2. CASE UNCHANGED vars
    <2>1. BuffersHold' /\ PagesArePieced'
        BY <1>2, OutputStep DEF IInv
    <2>2. TypeOK'
        BY <1>2 DEF IInv, TypeOK, vars, osVars, threadVars, agentVars
    <2> QED
        BY <1>2, <2>1, <2>2
        DEF IInv, FinishedIsDead, SnapshotIsTrue, StoppedIsDead, Dead, vars,
            osVars, threadVars, agentVars
<1> QED BY <1>1, <1>2

LEMMA Invariance == Spec => []IInv
BY InitInvariant, NextInvariant, PTL DEF Spec

\* Every reachable state has its type, and no buffer holds more than
\* MAX_BUFFERED_LINES.
THEOREM TypeCorrect == Spec => []TypeOK
<1>1. IInv => TypeOK
    BY DEF IInv
<1> QED BY <1>1, Invariance, PTL

\* The promise of the cursors of read_output: an agent that passes them back
\* hears every line once and in order, or is told that lines were dropped.
THEOREM PagesStayFaithful == Spec => []PagesAreFaithful
<1>1. IInv => PagesAreFaithful
    BY DEF IInv, PagesArePieced, Pieced, PagesAreFaithful
<1> QED BY <1>1, Invariance, PTL

\* What BashOutput and KillBash report of a child is true.
THEOREM StoppedStaysDead == Spec => []StoppedIsDead
<1>1. IInv => StoppedIsDead
    BY DEF IInv
<1> QED BY <1>1, Invariance, PTL
-----------------------------------------------------------------------------
(***************************************************************************)
(* More about the output and the exit of a child than the runs' properties *)
(* say: nothing is skipped between the child and an agent, and the reaper  *)
(* tells the exit of every child an agent can name.                        *)
(***************************************************************************)
\* The buffer holds exactly the last MaxBuffered lines of its stream, or all of
\* them, and `truncated` tells which.
Exact(b) ==
    /\ b.total <= MaxBuffered => Len(b.lines) = b.total /\ ~b.truncated
    /\ b.total > MaxBuffered => Len(b.lines) = MaxBuffered /\ b.truncated

\* h is all of a stream up to line n.
AllUpTo(h, n) == Len(h) = n /\ \A i \in 1..n : h[i] = i

NothingSkipped ==
    \A t \in Tasks, s \in Streams :
        /\ Exact(buffer[t][s])
        /\ buffer[t][s].total <= written[t][s]
        /\ reader[t][s] = "eof" => buffer[t][s].total = written[t][s]

HeardIsAll ==
    \A c \in Callers, t \in Tasks, s \in Streams :
        ~buffer[t][s].truncated => AllUpTo(heard[c][t][s], cursor[c][t][s])

\* How far the reaper is says what it has recorded.
ReaperKeeps(t) ==
    /\ t \in registered => reaper[t] # "none"
    /\ reaper[t] # "none" => proc[t] # "unborn"
    /\ reaper[t] \in {"finishing", "done"} <=> t \in finished
    /\ reaper[t] = "done" => (t \in exitCode <=> proc[t] = "exited")
    /\ reaper[t] # "done" => t \notin exitCode

ReapersKeep == \A t \in Tasks : ReaperKeeps(t)

LEMMA PushedExact ==
    ASSUME NEW b \in Buffers, Holds(b), Exact(b)
    PROVE  Exact(Pushed(b))
<1> DEFINE full == Len(b.lines) = MaxBuffered
           kept == IF full THEN Tail(b.lines) ELSE b.lines
           more == Append(kept, b.total + 1)
<1>1. /\ b.lines \in Seq(Nat) /\ b.total \in Nat /\ b.truncated \in BOOLEAN
      /\ Len(b.lines) \in Nat /\ MaxBuffered \in Nat \ {0}
    BY BackgroundShellAssumption DEF Buffers
<1>2. /\ Pushed(b).lines = more /\ Pushed(b).total = b.total + 1
      /\ Pushed(b).truncated = (b.truncated \/ full)
    BY DEF Pushed
<1>3. kept \in Seq(Nat) /\ Len(kept) = IF full THEN MaxBuffered - 1 ELSE Len(b.lines)
    <2>1. CASE full
        <3>1. b.lines # <<>>
            BY <1>1, <2>1
        <3>2. Tail(b.lines) \in Seq(Nat) /\ Len(Tail(b.lines)) = Len(b.lines) - 1
            BY <1>1, <3>1
        <3> QED BY <2>1, <3>2
    <2> QED BY <1>1, <2>1
<1> HIDE DEF kept
<1>4. Len(more) = Len(kept) + 1
    BY <1>1, <1>3
<1> HIDE DEF more
<1>5. Len(b.lines) <= MaxBuffered /\ Len(b.lines) <= b.total
    BY DEF Holds
<1>6. CASE b.total < MaxBuffered
    <2>1. ~full /\ Len(b.lines) = b.total /\ ~b.truncated
        BY <1>1, <1>6 DEF Exact
    <2>2. Len(more) = b.total + 1 /\ ~Pushed(b).truncated
        BY <1>1, <1>2, <1>3, <1>4, <2>1
    <2>3. b.total + 1 <= MaxBuffered
        BY <1>1, <1>6
    <2> HIDE DEF full
    <2> QED BY <1>1, <1>2, <2>2, <2>3 DEF Exact
<1>7. CASE b.total >= MaxBuffered
    <2>1. full
        BY <1>1, <1>7 DEF Exact
    <2>2. Len(more) = MaxBuffered /\ Pushed(b).truncated
        <3>1. Len(kept) = MaxBuffered - 1
            BY <1>3, <2>1
        <3>2. Pushed(b).truncated
            BY <1>2, <2>1
        <3> QED BY <1>1, <1>4, <3>1, <3>2
    <2>3. ~(b.total + 1 <= MaxBuffered)
        BY <1>1, <1>7
    <2> HIDE DEF full
    <2> QED BY <1>1, <1>2, <2>2, <2>3 DEF Exact
<1> QED BY <1>1, <1>6, <1>7

\* A page of a buffer that dropped nothing goes on where the agent stopped.
LEMMA PageIsAll ==
    ASSUME NEW h \in Seq(Nat), NEW n \in Nat, NEW b \in Buffers, AllUpTo(h, n),
           ~b.truncated, NEW d, Page(d, n, b)
    PROVE  AllUpTo(h \o d, b.total)
<1>1. d \in Seq(Nat) /\ n + Len(d) = b.total /\ \A i \in 1..Len(d) : d[i] = n + i
    <2>1. d \in Seq(Nat)
        BY DEF Page
    <2>2. PICK start \in Nat :
             /\ n <= start /\ start + Len(d) = b.total
             /\ start > n => b.truncated
             /\ \A i \in 1..Len(d) : d[i] = start + i
        BY DEF Page
    <2>3. start = n
        BY <2>2
    <2> QED BY <2>1, <2>2, <2>3
<1> DEFINE g == h \o d
<1>2. /\ Len(g) = Len(h) + Len(d)
      /\ \A i \in 1..(Len(h) + Len(d)) :
           g[i] = IF i <= Len(h) THEN h[i] ELSE d[i - Len(h)]
    BY <1>1, ConcatProperties
<1> HIDE DEF g
<1>3. Len(h) = n /\ Len(d) \in Nat /\ \A i \in 1..n : h[i] = i
    BY <1>1 DEF AllUpTo
<1>4. ASSUME NEW i \in 1..b.total PROVE g[i] = i
    <2>1. CASE i <= n
        BY <1>1, <1>2, <1>3, <2>1
    <2>2. CASE i > n
        <3>1. i - n \in 1..Len(d) /\ ~(i <= Len(h)) /\ i \in 1..(Len(h) + Len(d))
            BY <1>1, <1>3, <2>2
        <3>2. g[i] = d[i - n] /\ d[i - n] = n + (i - n)
            BY <1>1, <1>2, <1>3, <3>1
        <3> QED BY <1>3, <3>2
    <2> QED BY <2>1, <2>2
<1>5. AllUpTo(g, b.total)
    BY <1>1, <1>2, <1>3, <1>4 DEF AllUpTo
<1> QED BY <1>5 DEF g

LEMMA DeliveredIsAll ==
    ASSUME TypeOK, BuffersHold, PagesArePieced, HeardIsAll,
           NEW c \in Callers, NEW t \in Tasks, NEW s \in Streams,
           ~buffer[t][s].truncated
    PROVE  AllUpTo(Delivered(c, t)[s], buffer[t][s].total)
<1> DEFINE b == buffer[t][s]
           h == heard[c][t][s]
           n == cursor[c][t][s]
<1>1. b \in Buffers /\ Holds(b) /\ ~b.truncated
    BY BufferType DEF BuffersHold
<1>2. h \in Seq(Nat) /\ n \in Nat /\ Pieced(h, n, b) /\ AllUpTo(h, n)
    BY DEF TypeOK, PagesArePieced, HeardIsAll
<1>3. Delivered(c, t)[s] = IF s \in call[c].paging THEN h \o LinesSince(b, n)
                                                   ELSE b.lines
    BY DEF Delivered
<1> HIDE DEF b, h, n
<1>4. CASE s \in call[c].paging
    <2>1. Page(LinesSince(b, n), n, b)
        BY <1>1, <1>2, LinesSincePage DEF Pieced
    <2> QED BY <1>1, <1>2, <1>3, <1>4, <2>1, PageIsAll DEF b
<1>5. CASE s \notin call[c].paging
    <2>1. Page(b.lines, 0, b) /\ b.lines \in Seq(Nat)
        BY <1>1, AllKeptPage DEF Buffers
    <2>2. <<>> \in Seq(Nat) /\ AllUpTo(<<>>, 0)
        BY DEF AllUpTo
    <2>3. AllUpTo(<<>> \o b.lines, b.total)
        BY <1>1, <2>1, <2>2, PageIsAll
    <2>4. <<>> \o b.lines = b.lines
        BY <2>1, ConcatEmptySeq
    <2> QED BY <1>3, <1>5, <2>3, <2>4 DEF b
<1> QED BY <1>4, <1>5

\* The reader pushes what the child wrote, and leaves at the end of it.
LEMMA SkipStep ==
    ASSUME TypeOK, BuffersHold, NothingSkipped, ReapersKeep, [Next]_vars
    PROVE  NothingSkipped'
<1> SUFFICES ASSUME NEW t \in Tasks, NEW s \in Streams
             PROVE  /\ Exact(buffer'[t][s])
                    /\ buffer'[t][s].total <= written'[t][s]
                    /\ reader'[t][s] = "eof"
                         => buffer'[t][s].total = written'[t][s]
    BY DEF NothingSkipped
<1>1. /\ buffer[t][s] \in Buffers /\ Holds(buffer[t][s]) /\ Exact(buffer[t][s])
      /\ buffer[t][s].total <= written[t][s]
      /\ reader[t][s] = "eof" => buffer[t][s].total = written[t][s]
    BY BufferType DEF BuffersHold, NothingSkipped
<1>2. buffer[t][s].total \in Nat /\ written[t][s] \in Nat
    BY <1>1 DEF TypeOK, Buffers
<1>3. CASE \E u \in Tasks, r \in Streams : Push(u, r)
    <2> PICK u \in Tasks, r \in Streams : Push(u, r)
        BY <1>3
    <2>1. CASE u = t /\ r = s
        <3>1. /\ buffer'[t][s] = Pushed(buffer[t][s]) /\ reader' = reader
              /\ written' = written /\ reader[t][s] = "reading"
              /\ buffer[t][s].total < written[t][s]
            BY <2>1 DEF Push, Unread, TypeOK, osVars
        <3>2. Exact(buffer'[t][s]) /\ buffer'[t][s].total = buffer[t][s].total + 1
            BY <1>1, <3>1, PushedExact, PushedHolds
        <3> QED BY <1>2, <3>1, <3>2
    <2>2. CASE ~(u = t /\ r = s)
        <3>1. buffer'[t][s] = buffer[t][s] /\ reader' = reader /\ written' = written
            BY <2>2 DEF Push, TypeOK, osVars
        <3> QED BY <1>1, <3>1
    <2> QED BY <2>1, <2>2
<1>4. CASE \E u \in Tasks, r \in Streams : Write(u, r)
    <2> PICK u \in Tasks, r \in Streams : Write(u, r)
        BY <1>4
    <2>1. buffer' = buffer /\ reader' = reader
        BY DEF Write, threadVars
    <2>2. CASE u = t /\ r = s
        <3>1. written'[t][s] = written[t][s] + 1 /\ reader[t][s] = "reading"
            BY <2>2 DEF Write, TypeOK
        <3> QED BY <1>1, <1>2, <2>1, <3>1
    <2>3. CASE ~(u = t /\ r = s)
        <3>1. written'[t][s] = written[t][s]
            BY <2>3 DEF Write, TypeOK
        <3> QED BY <1>1, <2>1, <3>1
    <2> QED BY <2>2, <2>3
<1>5. CASE \E u \in Tasks, r \in Streams : EndOfStream(u, r) \/ InvalidLine(u, r)
    <2> PICK u \in Tasks, r \in Streams : EndOfStream(u, r) \/ InvalidLine(u, r)
        BY <1>5
    <2>1. buffer' = buffer /\ written' = written
        BY DEF EndOfStream, InvalidLine, ReaderStops, osVars
    <2>2. reader'[t][s] = "eof" => reader[t][s] = "eof" \/ ~Unread(t, s)
        <3>1. reader \in [Tasks -> [Streams -> {"none", "reading", "eof", "broken"}]]
            BY DEF TypeOK
        <3>2. PICK how \in {"eof", "broken"} :
                 /\ how = "eof" => ~Unread(u, r)
                 /\ reader' = [reader EXCEPT ![u][r] = how]
            BY DEF EndOfStream, InvalidLine, ReaderStops
        <3>3. CASE u = t /\ r = s
            BY <3>1, <3>2, <3>3
        <3>4. CASE ~(u = t /\ r = s)
            <4>1. reader'[t][s] = reader[t][s]
                BY <3>1, <3>2, <3>4
            <4> QED BY <4>1
        <3> QED BY <3>3, <3>4
    <2> QED BY <1>1, <1>2, <2>1, <2>2 DEF Unread
<1>6. CASE \E c \in Callers, u \in Tasks : Launches(c, u)
    <2> PICK c \in Callers, u \in Tasks : Launches(c, u)
        BY <1>6
    <2>1. buffer' = buffer /\ written' = written
        BY DEF Launches, Spawn, SpawnUnreaped, Launch
    <2>2. reader'[t][s] = "eof" => reader[t][s] = "eof"
        <3> PICK started \in SUBSET Streams :
                reader' = [reader EXCEPT ![u] = [r \in Streams |->
                    IF r \in started THEN "reading" ELSE "broken"]]
            BY DEF Launches, Spawn, SpawnUnreaped, Launch
        <3>1. CASE u = t
            <4>1. reader'[t][s] = IF s \in started THEN "reading" ELSE "broken"
                BY <3>1 DEF TypeOK
            <4> QED BY <4>1
        <3>2. CASE u # t
            BY <3>2 DEF TypeOK
        <3> QED BY <3>1, <3>2
    <2> QED BY <1>1, <2>1, <2>2
<1>7. CASE UNCHANGED <<buffer, written, reader>>
    BY <1>1, <1>7
<1>8. ASSUME Next,
             ~\E u \in Tasks, r \in Streams : Push(u, r) \/ Write(u, r),
             ~\E u \in Tasks, r \in Streams :
                 EndOfStream(u, r) \/ InvalidLine(u, r),
             ~\E c \in Callers, u \in Tasks : Launches(c, u)
      PROVE  UNCHANGED <<buffer, written, reader>>
    BY <1>8, NextCases
    DEF Threads, ReaperStep, ChildStep, ReaperWaits, ReaperFinishes,
        ReaperRecords, Exit, LastWriterExits, CallMoves, Kill, GraceOver,
        StopRead, ReadRunning, ReadExit, BashOutput, KillBash, Snapshot,
        threadVars, osVars
<1>9. CASE UNCHANGED vars
    BY <1>7, <1>9 DEF vars, osVars, threadVars
<1> QED BY <1>3, <1>4, <1>5, <1>6, <1>7, <1>8, <1>9

LEMMA HeardStep ==
    ASSUME TypeOK, BuffersHold, PagesArePieced, HeardIsAll, [Next]_vars
    PROVE  HeardIsAll'
<1> SUFFICES ASSUME NEW c \in Callers, NEW t \in Tasks, NEW s \in Streams,
                    ~buffer'[t][s].truncated
             PROVE  AllUpTo(heard'[c][t][s], cursor'[c][t][s])
    BY DEF HeardIsAll
<1>1. ~buffer[t][s].truncated /\ AllUpTo(heard[c][t][s], cursor[c][t][s])
    BY BufferChange DEF HeardIsAll
<1>2. CASE \E d \in Callers : ReadExit(d)
    <2> PICK d \in Callers : ReadExit(d)
        BY <1>2
    <2>1. CASE d = c /\ call[d].task = t
        <3>1. /\ heard'[c][t][s] = Delivered(c, t)[s]
              /\ cursor'[c][t][s] = buffer[t][s].total
            BY <2>1 DEF ReadExit, TypeOK
        <3> QED BY <1>1, <3>1, DeliveredIsAll
    <2>2. CASE ~(d = c /\ call[d].task = t)
        <3>1. /\ heard'[c][t][s] = heard[c][t][s]
              /\ cursor'[c][t][s] = cursor[c][t][s]
            BY <2>2 DEF ReadExit, TypeOK
        <3> QED BY <1>1, <3>1
    <2> QED BY <2>1, <2>2
<1>3. CASE UNCHANGED vars
    BY <1>1, <1>3 DEF vars, agentVars
<1>4. CASE Next /\ ~\E d \in Callers : ReadExit(d)
    <2>1. heard' = heard /\ cursor' = cursor
        BY <1>4, NextCases
        DEF Launches, Spawn, SpawnUnreaped, Launch, Threads, ReaperStep,
            ChildStep, ReaperWaits, ReaperFinishes, ReaperRecords, Write,
            Exit, LastWriterExits, Push, EndOfStream, InvalidLine,
            ReaderStops, CallMoves, Kill, GraceOver, StopRead, ReadRunning,
            BashOutput, KillBash, Snapshot, agentVars
    <2> QED BY <1>1, <2>1
<1> QED BY <1>2, <1>3, <1>4

\* The reaper's steps, and those that spawn or kill the child.
LEMMA ReaperStepKeeps ==
    ASSUME TypeOK, FinishedIsDead, ReapersKeep, [Next]_vars
    PROVE  ReapersKeep'
<1> SUFFICES ASSUME NEW t \in Tasks PROVE ReaperKeeps(t)'
    BY DEF ReapersKeep
<1>1. ReaperKeeps(t) /\ (t \in finished => Dead(t))
    BY DEF ReapersKeep, FinishedIsDead
<1> USE <1>1 DEF ReaperKeeps, TypeOK
<1>2. CASE \E c \in Callers, u \in Tasks : Launches(c, u)
    <2> PICK c \in Callers, u \in Tasks : Launches(c, u)
        BY <1>2
    <2>1. CASE Spawn(c, u)
        BY <2>1 DEF Spawn, Launch
    <2>2. CASE SpawnUnreaped(c, u)
        BY <2>2 DEF SpawnUnreaped, Launch
    <2> QED BY <2>1, <2>2 DEF Launches
<1>3. CASE \E u \in Tasks : ReaperStep(u)
    <2> PICK u \in Tasks : ReaperStep(u)
        BY <1>3
    <2>1. CASE ReaperWaits(u)
        BY <2>1 DEF ReaperWaits, osVars
    <2>2. CASE ReaperFinishes(u)
        BY <2>2 DEF ReaperFinishes, osVars
    <2>3. CASE ReaperRecords(u)
        BY <2>3 DEF ReaperRecords, osVars
    <2> QED BY <2>1, <2>2, <2>3 DEF ReaperStep
<1>4. CASE \E u \in Tasks : ChildStep(u)
    BY <1>4 DEF ChildStep, Write, Exit, Dies, LastWriterExits, threadVars, Dead
<1>5. CASE \E c \in Callers : Kill(c)
    BY <1>5 DEF Kill, Dies, threadVars, Dead
<1>6. CASE UNCHANGED <<proc, reaper, finished, exitCode, registered>>
    BY <1>6
<1>7. ASSUME Next, ~\E c \in Callers, u \in Tasks : Launches(c, u),
             ~\E u \in Tasks : ReaperStep(u) \/ ChildStep(u),
             ~\E c \in Callers : Kill(c)
      PROVE  UNCHANGED <<proc, reaper, finished, exitCode, registered>>
    BY <1>7, NextCases
    DEF Threads, Push, EndOfStream, InvalidLine, ReaderStops, CallMoves,
        GraceOver, StopRead, ReadRunning, ReadExit, BashOutput, KillBash,
        Snapshot, threadVars, osVars
<1>8. CASE UNCHANGED vars
    BY <1>6, <1>8 DEF vars, osVars, threadVars
<1> QED BY <1>2, <1>3, <1>4, <1>5, <1>6, <1>7, <1>8

LEMMA WholeInvariance == Spec => [](NothingSkipped /\ HeardIsAll /\ ReapersKeep)
<1>1. Init => NothingSkipped /\ HeardIsAll /\ ReapersKeep
    <2> SUFFICES ASSUME Init PROVE NothingSkipped /\ HeardIsAll /\ ReapersKeep
        OBVIOUS
    <2>1. Exact(EmptyBuffer) /\ EmptyBuffer.total = 0
        BY BackgroundShellAssumption DEF Exact, EmptyBuffer
    <2>2. AllUpTo(<<>>, 0)
        BY DEF AllUpTo
    <2> QED BY <2>1, <2>2 DEF Init, NothingSkipped, HeardIsAll, ReapersKeep,
        ReaperKeeps
<1>2. IInv /\ NothingSkipped /\ HeardIsAll /\ ReapersKeep /\ [Next]_vars
        => (NothingSkipped /\ HeardIsAll /\ ReapersKeep)'
    BY SkipStep, HeardStep, ReaperStepKeeps DEF IInv
<1> QED BY <1>1, <1>2, Invariance, PTL DEF Spec

\* A buffer holds exactly the last MAX_BUFFERED_LINES lines of its stream, or
\* all of them, and says which.
THEOREM BuffersKeepTheTail ==
    Spec => [](\A t \in Tasks, s \in Streams :
                 LET b == buffer[t][s]
                 IN  /\ b.truncated <=> b.total > MaxBuffered
                     /\ Len(b.lines) = IF b.truncated THEN MaxBuffered ELSE b.total
                     /\ \A i \in 1..Len(b.lines) :
                          b.lines[i] = b.total - Len(b.lines) + i)
<1> DEFINE KeepsTail(t, s) ==
        LET b == buffer[t][s]
        IN  /\ b.truncated <=> b.total > MaxBuffered
            /\ Len(b.lines) = IF b.truncated THEN MaxBuffered ELSE b.total
            /\ \A i \in 1..Len(b.lines) :
                 b.lines[i] = b.total - Len(b.lines) + i
<1>1. IInv /\ NothingSkipped => \A t \in Tasks, s \in Streams : KeepsTail(t, s)
    <2> SUFFICES ASSUME IInv, NothingSkipped, NEW t \in Tasks, NEW s \in Streams
                 PROVE  KeepsTail(t, s)
        OBVIOUS
    <2> DEFINE b == buffer[t][s]
    <2>1. b \in Buffers /\ Holds(b) /\ Exact(b)
        BY BufferType DEF IInv, BuffersHold, NothingSkipped
    <2> HIDE DEF b
    <2>2. b.total \in Nat /\ MaxBuffered \in Nat /\ b.truncated \in BOOLEAN
        BY <2>1, BackgroundShellAssumption DEF Buffers
    <2>3. /\ b.truncated <=> b.total > MaxBuffered
          /\ Len(b.lines) = IF b.truncated THEN MaxBuffered ELSE b.total
        BY <2>1, <2>2 DEF Exact
    <2>4. \A i \in 1..Len(b.lines) : b.lines[i] = b.total - Len(b.lines) + i
        BY <2>1 DEF Holds, Oldest
    <2> QED BY <2>3, <2>4 DEF b
<1> QED BY <1>1, Invariance, WholeInvariance, PTL

\* Nothing is skipped between the child and the agent: a reader that reached
\* the end of its stream has pushed every line that was written, and an agent
\* whose buffer never rolled over has heard every line up to its cursor.
THEOREM OutputIsComplete ==
    Spec => [](\A t \in Tasks, s \in Streams :
                 /\ reader[t][s] = "eof" => buffer[t][s].total = written[t][s]
                 /\ ~buffer[t][s].truncated =>
                      \A c \in Callers :
                        /\ Len(heard[c][t][s]) = cursor[c][t][s]
                        /\ \A i \in 1..cursor[c][t][s] : heard[c][t][s][i] = i)
<1>1. NothingSkipped /\ HeardIsAll =>
        \A t \in Tasks, s \in Streams :
          /\ reader[t][s] = "eof" => buffer[t][s].total = written[t][s]
          /\ ~buffer[t][s].truncated =>
               \A c \in Callers :
                 /\ Len(heard[c][t][s]) = cursor[c][t][s]
                 /\ \A i \in 1..cursor[c][t][s] : heard[c][t][s][i] = i
    BY DEF NothingSkipped, HeardIsAll, AllUpTo
<1> QED BY <1>1, WholeInvariance, PTL

\* Every child an agent can name has a reaper, and a reaper that is done has
\* recorded its end, with the exit code of a child that was not killed.
THEOREM ExitIsTold ==
    Spec => [](\A t \in Tasks :
                 /\ t \in registered => reaper[t] # "none"
                 /\ reaper[t] = "done" =>
                      /\ Dead(t) /\ t \in finished
                      /\ t \in exitCode <=> proc[t] = "exited")
<1>1. IInv /\ ReapersKeep =>
        \A t \in Tasks :
          /\ t \in registered => reaper[t] # "none"
          /\ reaper[t] = "done" => /\ Dead(t) /\ t \in finished
                                   /\ t \in exitCode <=> proc[t] = "exited"
    BY DEF IInv, ReapersKeep, ReaperKeeps, FinishedIsDead
<1> QED BY <1>1, Invariance, WholeInvariance, PTL
=============================================================================
