--------------------------- MODULE Ds4ServerProofs ---------------------------
(***************************************************************************)
(* Proofs about Ds4Server for any finite set of connections: the server    *)
(* counts its clients exactly, jobs outlive every use of them and are      *)
(* served in order, no wakeup is lost, and the server implements           *)
(* GracefulService.                                                        *)
(***************************************************************************)
EXTENDS Ds4Server, FiniteSetTheorems, TLAPS

\* s->clients counts the connections whose thread may still use the server.
Exact == clients = Cardinality(Counted)

\* Jobs that are served are never queued again.
ServedOnce ==
    \A c \in Connections :
        c \in done => client[c] \in {"woken", "closing", "gone"}

\* How far the shutdown has come.
ShutdownOrder ==
    /\ stopping => ~Serving
    /\ worker = "gone" => stopping
    /\ main \in {"leaving", "asleep", "persist", "closed"} => worker = "gone"
    /\ main \in {"persist", "closed"} => Counted = {}

IInv == TypeOK /\ Exact /\ ServedOnce /\ ShutdownOrder /\ JobsAreAlive
-----------------------------------------------------------------------------
\* What a step of one client thread does to the set of counted connections.
LEMMA CountedFinite == IsFiniteSet(Counted) /\ Cardinality(Counted) \in Nat
<1>1. Counted \subseteq Connections BY DEF Counted
<1> QED BY <1>1, Ds4ServerAssumption, FS_Subset, FS_CardinalityType

LEMMA CountMoves ==
    ASSUME TypeOK, NEW c \in Connections, NEW to,
           client' = [client EXCEPT ![c] = to]
    PROVE  Counted' = IF to \in {"none", "gone"} THEN Counted \ {c}
                                               ELSE Counted \cup {c}
BY DEF Counted, TypeOK

LEMMA CountSame == ASSUME client' = client PROVE Counted' = Counted
BY DEF Counted

LEMMA EmptyQueue == <<>> \in Seq(Connections)
OBVIOUS
-----------------------------------------------------------------------------
\* The actions, with the quantified ones under one name.
MainMoves == Listen \/ StopAccepting \/ Join \/ AwaitClients \/ Close
                \/ SecondSignal
ClientMoves(c) == ReadRequest(c) \/ AnswerDirectly(c) \/ Refuse(c)
                     \/ Sleep(c) \/ LeaveJob(c)

LEMMA TypeStep == TypeOK /\ Exact /\ Next => TypeOK'
<1> SUFFICES ASSUME TypeOK, Exact, Next PROVE TypeOK'
    OBVIOUS
<1> USE DEF TypeOK
<1>1. CASE MainMoves
    BY <1>1 DEF MainMoves, Listen, StopAccepting, Join, AwaitClients, Close,
        SecondSignal, Main
<1>2. CASE Drain
    BY <1>2 DEF Drain, Main, Woken
<1>3. CASE \E c \in Connections :
              Accept(c) \/ ThreadStarts(c) \/ ThreadFails(c)
    <2> PICK c \in Connections :
            Accept(c) \/ ThreadStarts(c) \/ ThreadFails(c)
        BY <1>3
    <2>1. ThreadFails(c) => clients - 1 \in Nat
        <3> SUFFICES ASSUME ThreadFails(c) PROVE clients # 0
            OBVIOUS
        <3>1. c \in Counted
            BY DEF ThreadFails, Client, Counted
        <3> QED BY <3>1, CountedFinite, FS_EmptySet DEF Exact
    <2> QED BY <2>1 DEF Accept, ThreadStarts, ThreadFails, Client, Main
<1>4. CASE \E c \in Connections : ClientMoves(c)
    BY <1>4 DEF ClientMoves, ReadRequest, AnswerDirectly, Refuse, Sleep,
        LeaveJob, Client
<1>5. CASE \E c \in Connections : Enqueue(c) \/ ClientDone(c)
    BY <1>5 DEF Enqueue, ClientDone, Client, Woken
<1>6. CASE WorkerStep
    BY <1>6 DEF WorkerStep, Dequeue, NothingQueued, GenerateJob, FinishJob,
        Worker
<1>7. CASE Signal \/ SpuriousWakeup
    BY <1>7 DEF Signal, SpuriousWakeup, Worker, Main, Client
<1> QED BY <1>1, <1>2, <1>3, <1>4, <1>5, <1>6, <1>7
        DEF Next, MainStep, ClientStep, Environment, MainMoves, ClientMoves

\* Accept counts a connection, ThreadFails and ClientDone drop one, and every
\* other step leaves the counted connections as they are.
LEMMA ExactStep == TypeOK /\ Exact /\ Next => Exact'
<1> SUFFICES ASSUME TypeOK, Exact, Next PROVE Exact'
    OBVIOUS
<1>1. CASE \E c \in Connections : Accept(c)
    <2> PICK c \in Connections : Accept(c)
        BY <1>1
    <2>1. c \notin Counted /\ Counted' = Counted \cup {c}
        BY CountMoves DEF Accept, Client, Counted
    <2> QED BY <2>1, CountedFinite, FS_AddElement DEF Exact, Accept
<1>2. CASE \E c \in Connections : ThreadFails(c) \/ ClientDone(c)
    <2> PICK c \in Connections : ThreadFails(c) \/ ClientDone(c)
        BY <1>2
    <2>1. c \in Counted /\ Counted' = Counted \ {c}
        BY CountMoves DEF ThreadFails, ClientDone, Client, Counted
    <2>2. Cardinality(Counted') = Cardinality(Counted) - 1
        BY <2>1, CountedFinite, FS_RemoveElement
    <2>3. Cardinality(Counted) # 0
        BY <2>1, CountedFinite, FS_EmptySet
    <2> QED BY <2>2, <2>3, CountedFinite
            DEF Exact, ThreadFails, ClientDone
<1>3. CASE \E c \in Connections :
              ClientMoves(c) \/ Enqueue(c) \/ ThreadStarts(c)
    <2> PICK c \in Connections :
            ClientMoves(c) \/ Enqueue(c) \/ ThreadStarts(c)
        BY <1>3
    <2>1. c \in Counted /\ Counted' = Counted \cup {c}
        BY CountMoves
        DEF ClientMoves, ReadRequest, AnswerDirectly, Refuse, Sleep,
            LeaveJob, Enqueue, ThreadStarts, Client, Counted
    <2>2. Counted' = Counted
        BY <2>1
    <2> QED BY <2>2 DEF Exact, ClientMoves, ReadRequest, AnswerDirectly,
            Refuse, Sleep, LeaveJob, Enqueue, ThreadStarts
<1>4. CASE FinishJob \/ SpuriousWakeup
    <2>1. Counted' = Counted
        BY <1>4 DEF FinishJob, SpuriousWakeup, Counted, Client, TypeOK
    <2> QED BY <1>4, <2>1 DEF Exact, FinishJob, SpuriousWakeup
<1>5. CASE MainMoves \/ Drain \/ Dequeue \/ NothingQueued \/ GenerateJob
              \/ Signal
    <2>1. client' = client /\ clients' = clients
        BY <1>5 DEF MainMoves, Listen, StopAccepting, Drain, Join,
            AwaitClients, Close, SecondSignal, Dequeue, NothingQueued,
            GenerateJob, Signal
    <2> QED BY <2>1, CountSame DEF Exact
<1> QED BY <1>1, <1>2, <1>3, <1>4, <1>5
        DEF Next, MainStep, ClientStep, WorkerStep, Environment, MainMoves,
            ClientMoves

LEMMA ServedStep ==
    TypeOK /\ JobsAreAlive /\ ServedOnce /\ Next => ServedOnce'
<1> SUFFICES ASSUME TypeOK, JobsAreAlive, ServedOnce, Next PROVE ServedOnce'
    OBVIOUS
<1> USE DEF ServedOnce, TypeOK
<1>1. CASE MainMoves \/ Drain \/ Dequeue \/ NothingQueued \/ GenerateJob
              \/ Signal
    BY <1>1 DEF MainMoves, Listen, StopAccepting, Drain, Join,
        AwaitClients, Close, SecondSignal, Dequeue, NothingQueued,
        GenerateJob, Signal
<1>2. CASE \E c \in Connections : Accept(c) \/ ThreadStarts(c)
              \/ ThreadFails(c) \/ Enqueue(c) \/ ClientDone(c)
    BY <1>2 DEF Accept, ThreadStarts, ThreadFails, Enqueue, ClientDone, Client
<1>3. CASE \E c \in Connections : ClientMoves(c)
    BY <1>3 DEF ClientMoves, ReadRequest, AnswerDirectly, Refuse, Sleep,
        LeaveJob, Client
<1>4. CASE FinishJob
    BY <1>4 DEF FinishJob, HasJob, Worker, JobsAreAlive
<1>5. CASE SpuriousWakeup
    BY <1>5 DEF SpuriousWakeup, Client
<1> QED BY <1>1, <1>2, <1>3, <1>4, <1>5
        DEF Next, MainStep, ClientStep, WorkerStep, Environment, MainMoves,
            ClientMoves

LEMMA OrderStep == TypeOK /\ Exact /\ ShutdownOrder /\ Next => ShutdownOrder'
<1> SUFFICES ASSUME TypeOK, Exact, ShutdownOrder, Next PROVE ShutdownOrder'
    OBVIOUS
<1> USE DEF ShutdownOrder, Serving
<1>1. CASE AwaitClients
    <2>1. clients = 0 => Counted = {}
        BY CountedFinite, FS_EmptySet DEF Exact
    <2>2. Counted' = Counted
        BY <1>1, CountSame DEF AwaitClients
    <2> QED BY <1>1, <2>1, <2>2 DEF AwaitClients, Main, TypeOK
<1>2. CASE Listen \/ StopAccepting \/ Drain \/ Join \/ Close \/ SecondSignal
              \/ Dequeue \/ NothingQueued \/ GenerateJob \/ Signal
    <2>1. Counted' = Counted
        BY <1>2, CountSame DEF Listen, StopAccepting, Drain, Join, Close,
            SecondSignal, Dequeue, NothingQueued, GenerateJob, Signal
    <2> QED BY <1>2, <2>1 DEF Listen, StopAccepting, Drain, Join, Close,
            SecondSignal, Dequeue, NothingQueued, GenerateJob, Signal, Main,
            Worker, Woken
<1>3. CASE \E c \in Connections :
              Accept(c) \/ ThreadStarts(c) \/ ThreadFails(c)
    BY <1>3 DEF Accept, ThreadStarts, ThreadFails, Main
<1>4. CASE \E c \in Connections :
              ClientMoves(c) \/ Enqueue(c) \/ ClientDone(c)
    <2> PICK c \in Connections :
            ClientMoves(c) \/ Enqueue(c) \/ ClientDone(c)
        BY <1>4
    <2>1. c \in Counted
        BY DEF ClientMoves, ReadRequest, AnswerDirectly, Refuse, Sleep,
            LeaveJob, Enqueue, ClientDone, Client, Counted
    <2> QED BY <2>1 DEF ClientMoves, ReadRequest, AnswerDirectly, Refuse,
            Sleep, LeaveJob, Enqueue, ClientDone, Woken
<1>5. CASE FinishJob \/ SpuriousWakeup
    <2>1. Counted' = Counted
        BY <1>5 DEF FinishJob, SpuriousWakeup, Counted, Client, TypeOK
    <2> QED BY <1>5, <2>1 DEF FinishJob, SpuriousWakeup, Main, Worker
<1> QED BY <1>1, <1>2, <1>3, <1>4, <1>5
        DEF Next, MainStep, ClientStep, WorkerStep, Environment, MainMoves,
            ClientMoves
-----------------------------------------------------------------------------
(***************************************************************************)
(* Jobs.  A step that leaves the queue alone and takes no job from a       *)
(* client cannot hurt; what is left is Enqueue, Dequeue and FinishJob.     *)
(***************************************************************************)
LEMMA JobsKept ==
    ASSUME TypeOK, JobsAreAlive,
           queue' = queue, current' = current, done' = done,
           worker' = "gone" => worker = "gone" \/ queue = <<>>,
           worker' \in {"busy", "serving"} => worker \in {"busy", "serving"},
           \A c \in Connections : HasJob(c) /\ c \notin done => HasJob(c)'
    PROVE  JobsAreAlive'
BY DEF JobsAreAlive, TypeOK

LEMMA JobsStep ==
    TypeOK /\ ServedOnce /\ ShutdownOrder /\ JobsAreAlive /\ Next
        => JobsAreAlive'
<1> SUFFICES ASSUME TypeOK, ServedOnce, ShutdownOrder, JobsAreAlive, Next
             PROVE  JobsAreAlive'
    OBVIOUS
<1>1. CASE MainMoves \/ Drain \/ NothingQueued \/ GenerateJob \/ Signal
    <2>1. client' = client
        BY <1>1 DEF MainMoves, Listen, StopAccepting, Drain, Join,
            AwaitClients, Close, SecondSignal, NothingQueued, GenerateJob,
            Signal
    <2>2. \A c \in Connections : HasJob(c) => HasJob(c)'
        BY <2>1 DEF HasJob
    <2> QED BY <1>1, <2>2, JobsKept DEF MainMoves, Listen, StopAccepting,
            Drain, Join, AwaitClients, Close, SecondSignal, NothingQueued,
            GenerateJob, Signal, Worker, Woken
<1>2. CASE \E c \in Connections : Accept(c) \/ ThreadStarts(c)
              \/ ThreadFails(c) \/ ClientMoves(c) \/ ClientDone(c)
    <2>1. \A d \in Connections : HasJob(d) /\ d \notin done => HasJob(d)'
        BY <1>2 DEF HasJob, Accept, ThreadStarts, ThreadFails, ClientDone,
            ClientMoves, ReadRequest, AnswerDirectly, Refuse, Sleep,
            LeaveJob, Client, TypeOK
    <2> QED BY <1>2, <2>1, JobsKept DEF Accept, ThreadStarts, ThreadFails,
            ClientDone, ClientMoves, ReadRequest, AnswerDirectly, Refuse,
            Sleep, LeaveJob
<1>3. CASE SpuriousWakeup
    <2>1. \A d \in Connections : HasJob(d) => HasJob(d)'
        BY <1>3 DEF SpuriousWakeup, HasJob, Client, TypeOK
    <2> QED BY <1>3, <2>1, JobsKept DEF SpuriousWakeup, Worker
<1>4. CASE \E c \in Connections : Enqueue(c)
    <2> PICK c \in Connections : Enqueue(c)
        BY <1>4
    <2>1. /\ \A i \in 1..Len(queue) : queue[i] # c
          /\ worker \in {"busy", "serving"} => current # c
          /\ c \notin done
        BY DEF Enqueue, Client, JobsAreAlive, HasJob, ServedOnce
    <2>2. \A d \in Connections : HasJob(d) \/ d = c => HasJob(d)'
        BY DEF Enqueue, Client, HasJob, TypeOK
    <2>3. /\ Len(queue') = Len(queue) + 1
          /\ queue'[Len(queue) + 1] = c
          /\ \A i \in 1..Len(queue) : queue'[i] = queue[i]
        BY DEF Enqueue, TypeOK
    <2>4. worker # "gone" /\ worker' # "gone"
        BY DEF Enqueue, ShutdownOrder, Woken
    <2>5. worker' \in {"busy", "serving"} => worker \in {"busy", "serving"}
        BY DEF Enqueue, Woken
    <2> QED BY <2>1, <2>2, <2>3, <2>4, <2>5
            DEF Enqueue, JobsAreAlive, TypeOK
<1>5. CASE Dequeue
    <2>1. /\ Len(queue') = Len(queue) - 1
          /\ current' = queue[1]
          /\ \A i \in 1..Len(queue') : queue'[i] = queue[i + 1]
        BY <1>5 DEF Dequeue, TypeOK
    <2>2. Len(queue) \in Nat \ {0}
        BY <1>5 DEF Dequeue, TypeOK
    <2>3. \A i \in 1..Len(queue') : i + 1 \in 1..Len(queue) /\ i + 1 # 1
        BY <2>1, <2>2
    <2>4. \A d : HasJob(d)' = HasJob(d)
        BY <1>5 DEF Dequeue, HasJob
    <2> QED BY <1>5, <2>1, <2>2, <2>3, <2>4
            DEF Dequeue, Worker, JobsAreAlive
<1>6. CASE FinishJob
    <2>1. \A i \in 1..Len(queue) : queue[i] # current
        BY <1>6 DEF FinishJob, Worker, JobsAreAlive
    <2>2. \A d \in Connections : HasJob(d) => HasJob(d)'
        BY <1>6 DEF FinishJob, HasJob, TypeOK
    <2>3. \A i \in 1..Len(queue) : queue[i] \in Connections
        BY DEF TypeOK
    <2> QED BY <1>6, <2>1, <2>2, <2>3 DEF FinishJob, Worker, JobsAreAlive
<1> QED BY <1>1, <1>2, <1>3, <1>4, <1>5, <1>6
        DEF Next, MainStep, ClientStep, WorkerStep, Environment, MainMoves,
            ClientMoves
-----------------------------------------------------------------------------
LEMMA Inductive == Init => IInv
<1> SUFFICES ASSUME Init PROVE IInv
    OBVIOUS
<1>1. TypeOK
    BY EmptyQueue DEF Init, TypeOK
<1>2. Counted = {}
    BY DEF Init, Counted
<1>3. Exact
    BY <1>2, FS_EmptySet DEF Init, Exact
<1> QED BY <1>1, <1>2, <1>3
        DEF Init, IInv, ServedOnce, ShutdownOrder, JobsAreAlive, Serving

LEMMA InvStep == IInv /\ [Next]_vars => IInv'
<1> SUFFICES ASSUME IInv, [Next]_vars PROVE IInv'
    OBVIOUS
<1>1. CASE Next
    BY <1>1, TypeStep, ExactStep, ServedStep, OrderStep, JobsStep DEF IInv
<1>2. CASE UNCHANGED vars
    BY <1>2 DEF vars, IInv, TypeOK, Exact, ServedOnce, ShutdownOrder,
        JobsAreAlive, HasJob, Counted, Serving
<1> QED BY <1>1, <1>2

\* Every reachable state satisfies the inductive invariant.
THEOREM Invariant == Spec => []IInv
<1>1. Init => IInv
    BY Inductive
<1>2. IInv /\ [Next]_vars => IInv'
    BY InvStep
<1> QED BY <1>1, <1>2, PTL DEF Spec

\* Every reachable state of the server has its type; in particular the count
\* of clients never falls below zero.
THEOREM TypeCorrect == Spec => []TypeOK
<1>1. IInv => TypeOK
    BY DEF IInv
<1> QED BY <1>1, Invariant, PTL

(***************************************************************************)
(* The stack-allocated jobs of client_main are safe: the worker and the    *)
(* queue only ever hold jobs whose client thread still waits for them.     *)
(***************************************************************************)
THEOREM JobsStayAlive == Spec => []JobsAreAlive
<1>1. IInv => JobsAreAlive
    BY DEF IInv
<1> QED BY <1>1, Invariant, PTL
-----------------------------------------------------------------------------
(***************************************************************************)
(* Wakeups.  A thread goes to sleep in the step that finds nothing to do,  *)
(* and the step that gives it something to do wakes it.                    *)
(***************************************************************************)
AtWork(c) ==
    \/ worker \in {"busy", "serving"} /\ current = c
    \/ \E i \in 1..Len(queue) : queue[i] = c

\* A step that neither touches the queue nor puts anyone to sleep.
LEMMA NobodyFallsAsleep ==
    ASSUME NoLostWakeup,
           queue' = queue, current' = current, done' = done,
           stopping' = stopping, clients' = clients,
           worker' = "asleep" => worker = "asleep",
           worker \in {"busy", "serving"} => worker' \in {"busy", "serving"},
           main' = "asleep" => main = "asleep",
           \A c \in Connections :
              /\ client'[c] = "asleep" => client[c] = "asleep" \/ c \notin done
              /\ HasJob(c)' /\ c \notin done => HasJob(c)
    PROVE  NoLostWakeup'
BY DEF NoLostWakeup

LEMMA WakeupStep == IInv /\ NoLostWakeup /\ Next => NoLostWakeup'
<1> SUFFICES ASSUME IInv, NoLostWakeup, Next PROVE NoLostWakeup'
    OBVIOUS
<1>t. TypeOK /\ Exact /\ ServedOnce /\ ShutdownOrder /\ JobsAreAlive
    BY DEF IInv
<1>1. CASE Listen \/ StopAccepting \/ Join \/ Close \/ SecondSignal \/ Signal
              \/ GenerateJob
    BY <1>1, NobodyFallsAsleep DEF Listen, StopAccepting, Join, Close,
        SecondSignal, Signal, GenerateJob, Main, Worker, HasJob
<1>2. CASE AwaitClients
    BY <1>2 DEF AwaitClients, Main, NoLostWakeup, HasJob
<1>3. CASE Drain
    BY <1>3 DEF Drain, Main, Woken, NoLostWakeup, HasJob
<1>4. CASE \E c \in Connections :
              Accept(c) \/ ThreadStarts(c) \/ ThreadFails(c)
    <2> PICK c \in Connections :
            Accept(c) \/ ThreadStarts(c) \/ ThreadFails(c)
        BY <1>4
    <2>1. /\ main' \in {"creating", "accept"}
          /\ client' = [client EXCEPT ![c] = client'[c]]
          /\ client'[c] \in {"pending", "reading", "gone"}
          /\ UNCHANGED <<queue, worker, current, done, stopping>>
        BY <1>t DEF Accept, ThreadStarts, ThreadFails, Main, Client, TypeOK
    <2> QED BY <2>1, <1>t DEF NoLostWakeup, HasJob, TypeOK
<1>5. CASE \E c \in Connections : ClientMoves(c)
    <2> PICK c \in Connections : ClientMoves(c)
        BY <1>5
    <2>1. /\ UNCHANGED <<main, clients, queue, worker, current, done, stopping>>
          /\ client' = [client EXCEPT ![c] = client'[c]]
          /\ client'[c] = "asleep" => c \notin done
          /\ HasJob(c)' /\ c \notin done => HasJob(c)
        BY <1>t DEF ClientMoves, ReadRequest, AnswerDirectly, Refuse, Sleep,
            LeaveJob, Client, HasJob, TypeOK
    <2>2. \A d \in Connections : d # c => client'[d] = client[d]
        BY <2>1, <1>t DEF TypeOK
    <2> QED BY <2>1, <2>2, NobodyFallsAsleep DEF HasJob
<1>6. CASE \E c \in Connections : ClientDone(c)
    <2> PICK c \in Connections : ClientDone(c)
        BY <1>6
    <2>1. /\ main' # "asleep"
          /\ client' = [client EXCEPT ![c] = "gone"]
          /\ UNCHANGED <<queue, worker, current, done, stopping>>
        BY DEF ClientDone, Client
    <2> QED BY <2>1, <1>t DEF NoLostWakeup, HasJob, TypeOK
<1>7. CASE \E c \in Connections : Enqueue(c)
    <2> PICK c \in Connections : Enqueue(c)
        BY <1>7
    <2>1. /\ queue' = Append(queue, c)
          /\ worker' # "asleep"
          /\ worker \in {"busy", "serving"} => worker' = worker
          /\ client' = [client EXCEPT ![c] = "holding"]
          /\ UNCHANGED <<main, clients, current, done, stopping>>
        BY DEF Enqueue, Client, Woken
    <2>2. /\ Len(queue') = Len(queue) + 1 /\ Len(queue) \in Nat
          /\ queue'[Len(queue) + 1] = c
          /\ \A i \in 1..Len(queue) : queue'[i] = queue[i]
        BY <2>1, <1>t DEF TypeOK
    <2>3. /\ \A i \in 1..Len(queue) : i \in 1..Len(queue')
          /\ Len(queue) + 1 \in 1..Len(queue')
        BY <2>2
    <2>4. AtWork(c)'
        BY <2>2, <2>3 DEF AtWork
    <2>5. \A d \in Connections : AtWork(d) => AtWork(d)'
        BY <2>1, <2>2, <2>3 DEF AtWork
    <2>6. \A d \in Connections :
             d # c => client'[d] = client[d] /\ HasJob(d)' = HasJob(d)
        BY <2>1, <1>t DEF TypeOK, HasJob
    <2>7. client'[c] = "holding"
        BY <2>1, <1>t DEF TypeOK
    <2> QED BY <2>1, <2>4, <2>5, <2>6, <2>7 DEF NoLostWakeup, AtWork
<1>8. CASE Dequeue
    <2>1. /\ queue # <<>> /\ current' = queue[1] /\ worker' = "busy"
          /\ worker = "looking"
          /\ Len(queue') = Len(queue) - 1
          /\ \A i \in 1..Len(queue') : queue'[i] = queue[i + 1]
          /\ UNCHANGED <<main, clients, client, done, stopping>>
        BY <1>8, <1>t DEF Dequeue, Worker, TypeOK
    <2>2. ASSUME NEW c \in Connections, AtWork(c)
          PROVE  AtWork(c)'
        <3>1. PICK i \in 1..Len(queue) : queue[i] = c
            BY <2>1, <2>2 DEF AtWork
        <3>2. CASE i = 1
            BY <2>1, <3>1, <3>2 DEF AtWork
        <3>3. CASE i # 1
            <4>1. i - 1 \in 1..Len(queue') /\ (i - 1) + 1 = i
                BY <2>1, <3>3, <1>t DEF TypeOK
            <4>2. queue'[i - 1] = c
                BY <2>1, <3>1, <4>1
            <4> QED BY <4>1, <4>2 DEF AtWork
        <3> QED BY <3>2, <3>3
    <2> QED BY <2>1, <2>2 DEF NoLostWakeup, AtWork, HasJob
<1>9. CASE NothingQueued
    BY <1>9 DEF NothingQueued, Worker, NoLostWakeup, HasJob
<1>10. CASE FinishJob
    <2>1. /\ done' = done \cup {current} /\ worker' = "looking"
          /\ UNCHANGED <<main, clients, queue, current, stopping>>
          /\ \A c \in Connections :
                /\ c # current => client'[c] = client[c]
                /\ c = current => client'[c] # "asleep"
        BY <1>10, <1>t DEF FinishJob, Worker, TypeOK
    <2> QED BY <2>1 DEF NoLostWakeup, HasJob
<1>11. CASE SpuriousWakeup
    <2>1. /\ UNCHANGED <<clients, queue, current, done, stopping>>
          /\ worker' = "asleep" => worker = "asleep"
          /\ worker \in {"busy", "serving"} => worker' = worker
          /\ main' = "asleep" => main = "asleep"
          /\ \A c \in Connections :
                /\ client'[c] = "asleep" => client[c] = "asleep"
                /\ HasJob(c)' => HasJob(c)
        BY <1>11, <1>t DEF SpuriousWakeup, Worker, Main, Client, HasJob, TypeOK
    <2> QED BY <2>1, NobodyFallsAsleep
<1> QED BY <1>1, <1>2, <1>3, <1>4, <1>5, <1>6, <1>7, <1>8, <1>9, <1>10, <1>11
        DEF Next, MainStep, ClientStep, WorkerStep, Environment, ClientMoves

(***************************************************************************)
(* No wakeup is lost, for any number of connections and any interleaving   *)
(* of clients, worker, main and signal.                                    *)
(***************************************************************************)
THEOREM WakeupsAreNeverLost == Spec => []NoLostWakeup
<1>1. Init => NoLostWakeup
    BY DEF Init, NoLostWakeup, HasJob
<1>2. IInv /\ NoLostWakeup /\ [Next]_vars => NoLostWakeup'
    <2>1. CASE Next
        BY <2>1, WakeupStep
    <2>2. CASE UNCHANGED vars
        BY <2>2 DEF vars, NoLostWakeup, HasJob
    <2> QED BY <2>1, <2>2
<1> QED BY <1>1, <1>2, Invariant, PTL DEF Spec

(***************************************************************************)
(* What RequestsAreServed rests on besides the wakeups: the worker takes   *)
(* the jobs in the order in which they were queued.                        *)
(***************************************************************************)
AheadOf(c, d) ==
    \E j \in 1..Len(queue) :
        /\ queue[j] = d
        /\ \/ \E i \in 1..(j - 1) : queue[i] = c
           \/ worker \in {"busy", "serving"} /\ current = c

NobodyOvertakes ==
    \A c, d \in Connections : AheadOf(c, d) => AheadOf(c, d)' \/ c \in done'

LEMMA OvertakingStep == TypeOK /\ [Next]_vars => NobodyOvertakes
<1> SUFFICES ASSUME TypeOK, [Next]_vars, NEW c \in Connections,
                    NEW d \in Connections, AheadOf(c, d)
             PROVE  AheadOf(c, d)' \/ c \in done'
    BY DEF NobodyOvertakes
<1>q. queue \in Seq(Connections)
    BY DEF TypeOK
<1>0. PICK j \in 1..Len(queue) :
          /\ queue[j] = d
          /\ \/ \E i \in 1..(j - 1) : queue[i] = c
             \/ worker \in {"busy", "serving"} /\ current = c
    BY DEF AheadOf
<1>1. CASE /\ UNCHANGED <<queue, current>>
           /\ worker \in {"busy", "serving"} => worker' \in {"busy", "serving"}
    BY <1>0, <1>1 DEF AheadOf
<1>2. CASE \E b \in Connections : Enqueue(b)
    <2> PICK b \in Connections : Enqueue(b)
        BY <1>2
    <2>1. /\ Len(queue') = Len(queue) + 1 /\ current' = current
          /\ \A i \in 1..Len(queue) : queue'[i] = queue[i]
          /\ worker \in {"busy", "serving"} => worker' = worker
        BY <1>q DEF Enqueue, Woken
    <2>2. j \in 1..Len(queue') /\ queue'[j] = d
        BY <1>q, <1>0, <2>1
    <2>3. \A i \in 1..(j - 1) : queue'[i] = queue[i]
        BY <1>q, <1>0, <2>1
    <2> QED BY <1>0, <2>1, <2>2, <2>3 DEF AheadOf
<1>3. CASE Dequeue
    <2>1. /\ queue # <<>> /\ queue' = Tail(queue) /\ current' = Head(queue)
          /\ worker = "looking" /\ worker' = "busy"
        BY <1>3 DEF Dequeue, Worker
    <2>2. PICK i \in 1..(j - 1) : queue[i] = c
        BY <1>0, <2>1
    <2>3. /\ Len(queue') = Len(queue) - 1
          /\ \A k \in 1..Len(queue') : queue'[k] = queue[k + 1]
        BY <1>q, <2>1
    <2>4. j - 1 \in 1..Len(queue') /\ queue'[j - 1] = d
        BY <1>q, <1>0, <2>2, <2>3
    <2>5. CASE i = 1
        <3>1. current' = c
            BY <1>q, <2>1, <2>2, <2>5
        <3> QED BY <2>1, <2>4, <3>1 DEF AheadOf
    <2>6. CASE i # 1
        <3>1. i - 1 \in 1..(j - 1 - 1) /\ queue'[i - 1] = c
            BY <1>q, <1>0, <2>2, <2>3, <2>6
        <3> QED BY <2>4, <3>1 DEF AheadOf
    <2> QED BY <2>5, <2>6
<1>4. CASE FinishJob
    BY <1>0, <1>4 DEF FinishJob, Worker, AheadOf
<1>5. CASE MainMoves \/ Drain \/ NothingQueued \/ GenerateJob \/ Signal
              \/ SpuriousWakeup
    BY <1>1, <1>5 DEF MainMoves, Listen, StopAccepting, Join, AwaitClients, Close,
        SecondSignal, Drain, NothingQueued, GenerateJob, Signal, SpuriousWakeup,
        Worker, Woken
<1>6. CASE \E b \in Connections :
              \/ Accept(b) \/ ThreadStarts(b) \/ ThreadFails(b)
              \/ ClientMoves(b) \/ ClientDone(b)
    BY <1>1, <1>6 DEF Accept, ThreadStarts, ThreadFails, ClientMoves, ReadRequest,
        AnswerDirectly, Refuse, Sleep, LeaveJob, ClientDone
<1>7. CASE UNCHANGED vars
    BY <1>1, <1>7 DEF vars
<1> QED BY <1>2, <1>3, <1>4, <1>5, <1>6, <1>7
        DEF Next, MainStep, ClientStep, WorkerStep, Environment, MainMoves,
            ClientMoves

\* A job is never overtaken by one that was queued after it: whoever is ahead of
\* a request stays ahead of it until its own job is done.
FirstComeFirstServed == [][NobodyOvertakes]_vars
THEOREM ServedInOrder == Spec => FirstComeFirstServed
<1>1. IInv => TypeOK
    BY DEF IInv
<1>2. TypeOK /\ [Next]_vars => [NobodyOvertakes]_vars
    BY OvertakingStep
<1> QED BY <1>1, <1>2, Invariant, PTL DEF Spec, FirstComeFirstServed

\* The guards of the steps of main, of the worker and of a client thread.
MainCanMove ==
    \/ main \in {"listen", "creating", "drain", "leaving", "persist"}
    \/ main = "accept" /\ stop
    \/ main = "join" /\ worker = "gone"

WorkerCanMove ==
    \/ worker \in {"looking", "busy"}
    \/ worker = "serving" /\ client[current] # "holding"

ClientCanMove(c) ==
    client[c] \in {"reading", "parsed", "holding", "woken", "closing"}

\* Once main has begun to join the worker, the flag is up; a thread that is
\* being created is the one main is creating.
DrainInv ==
    /\ main \in {"join", "leaving", "asleep", "persist"} => stopping
    /\ \A c \in Connections : client[c] = "pending" =>
          /\ main \in {"creating", "killed"}
          /\ \A d \in Connections : client[d] = "pending" => d = c

LEMMA DrainInvStep == TypeOK /\ DrainInv /\ [Next]_vars => DrainInv'
<1> SUFFICES ASSUME TypeOK, DrainInv, [Next]_vars PROVE DrainInv'
    OBVIOUS
<1> USE DEF DrainInv
<1>1. CASE Listen \/ StopAccepting \/ Drain \/ Join \/ AwaitClients \/ Close
              \/ SecondSignal \/ Signal \/ Dequeue \/ NothingQueued
              \/ GenerateJob
    BY <1>1 DEF Listen, StopAccepting, Drain, Join, AwaitClients, Close,
        SecondSignal, Signal, Dequeue, NothingQueued, GenerateJob, Main
<1>2. CASE \E c \in Connections :
              Accept(c) \/ ThreadStarts(c) \/ ThreadFails(c)
    BY <1>2 DEF Accept, ThreadStarts, ThreadFails, Main, Client, TypeOK
<1>3. CASE \E c \in Connections :
              ClientMoves(c) \/ Enqueue(c) \/ ClientDone(c)
    BY <1>3 DEF ClientMoves, ReadRequest, AnswerDirectly, Refuse, Sleep,
        LeaveJob, Enqueue, ClientDone, Client, TypeOK
<1>4. CASE FinishJob \/ SpuriousWakeup
    BY <1>4 DEF FinishJob, SpuriousWakeup, Client, Main, TypeOK
<1>5. CASE UNCHANGED vars
    BY <1>5 DEF vars
<1> QED BY <1>1, <1>2, <1>3, <1>4, <1>5
        DEF Next, MainStep, ClientStep, WorkerStep, Environment, ClientMoves

(***************************************************************************)
(* The shutdown never gets stuck: from the signal to the end there is a    *)
(* thread that can take a step, without a new connection, a second signal  *)
(* or a spurious wakeup coming to its help.                                *)
(***************************************************************************)
THEOREM ShutdownNeverStuck ==
    Spec => [](stop /\ Running =>
                  \/ MainCanMove \/ WorkerCanMove
                  \/ \E c \in Connections : ClientCanMove(c))
<1> DEFINE SomeoneMoves == \/ MainCanMove \/ WorkerCanMove
                          \/ \E c \in Connections : ClientCanMove(c)
<1>1. Init => DrainInv
    BY DEF Init, DrainInv
<1>2. IInv /\ NoLostWakeup /\ DrainInv /\ stop /\ Running => SomeoneMoves
    <2> SUFFICES ASSUME IInv, NoLostWakeup, DrainInv, stop, Running,
                        ~MainCanMove
                 PROVE  \/ WorkerCanMove
                        \/ \E c \in Connections : ClientCanMove(c)
        OBVIOUS
    <2>t. TypeOK /\ Exact /\ ShutdownOrder /\ JobsAreAlive
        BY DEF IInv
    <2>1. main = "join" \/ main = "asleep"
        BY <2>t DEF TypeOK, MainCanMove, Running
    <2>2. stopping /\ worker # "asleep"
        BY <2>1 DEF DrainInv, NoLostWakeup
    <2>3. CASE main = "join"
        <3>1. worker \in {"looking", "busy", "serving"}
            BY <2>t, <2>2, <2>3 DEF TypeOK, MainCanMove
        <3> QED BY <2>t, <3>1 DEF TypeOK, WorkerCanMove, ClientCanMove
    <2>4. CASE main = "asleep"
        <3>1. worker = "gone" /\ queue = <<>> /\ Counted # {}
            BY <2>t, <2>4, FS_EmptySet
            DEF ShutdownOrder, JobsAreAlive, NoLostWakeup, Exact
        <3>2. PICK c \in Connections : client[c] \notin {"none", "gone"}
            BY <3>1 DEF Counted
        <3>3. client[c] # "asleep"
            BY <2>t, <3>1 DEF NoLostWakeup, HasJob
        <3>4. client[c] # "pending"
            BY <2>4 DEF DrainInv
        <3> QED BY <2>t, <3>2, <3>3, <3>4 DEF TypeOK, ClientCanMove
    <2> QED BY <2>1, <2>3, <2>4
<1>3. IInv => TypeOK
    BY DEF IInv
<1> QED BY <1>1, <1>2, <1>3, DrainInvStep, Invariant, WakeupsAreNeverLost, PTL
        DEF Spec
-----------------------------------------------------------------------------
(***************************************************************************)
(* The refinement.  Only Accept opens a connection, ThreadFails and        *)
(* ClientDone close one, Listen and StopAccepting begin to drain, Close    *)
(* releases and SecondSignal aborts; every other step stutters.            *)
(***************************************************************************)
Finished == {c \in Connections : client[c] = "gone"}

LEMMA RefinesInit == Init => Service!Init
BY DEF Init, Service!Init, Phase, Serving, Counted

LEMMA RefinesStep ==
    IInv /\ [Next]_vars => [Service!Next]_<<Phase, Counted, Finished>>
<1> SUFFICES ASSUME IInv, [Next]_vars
             PROVE  \/ Service!Next
                    \/ UNCHANGED <<Phase, Counted, Finished>>
    OBVIOUS
<1> USE DEF Phase, Serving, Counted, Finished
<1>t. TypeOK /\ ShutdownOrder
    BY DEF IInv
<1>1. CASE Running /\ \E c \in Connections : Accept(c)
    <2> PICK c \in Connections : Accept(c)
        BY <1>1
    <2>1. Service!Open(c)
        BY <1>t DEF Accept, Main, Client, TypeOK, Service!Open
    <2> QED BY <2>1 DEF Service!Next
<1>2. CASE Running /\ \E c \in Connections : ThreadFails(c) \/ ClientDone(c)
    <2> PICK c \in Connections : ThreadFails(c) \/ ClientDone(c)
        BY <1>2
    <2>1. Service!Close(c)
        BY <1>2, <1>t DEF ThreadFails, ClientDone, Main, Client, TypeOK,
            Running, Service!Close
    <2> QED BY <2>1 DEF Service!Next
<1>3. CASE Running /\ (Listen \/ StopAccepting)
    <2>1. Service!BeginStop \/ UNCHANGED <<Phase, Counted, Finished>>
        BY <1>3 DEF Listen, StopAccepting, Main, Service!BeginStop
    <2> QED BY <2>1 DEF Service!Next
<1>4. CASE Running /\ Close
    <2>1. Service!Release
        BY <1>4, <1>t DEF Close, Main, ShutdownOrder, Service!Release
    <2> QED BY <2>1 DEF Service!Next
<1>5. CASE Running /\ SecondSignal
    <2>1. Service!Abort
        BY <1>5 DEF SecondSignal, Running, Service!Abort
    <2> QED BY <2>1 DEF Service!Next
<1>6. CASE Drain \/ Join \/ AwaitClients
    BY <1>6 DEF Drain, Join, AwaitClients, Main
<1>7. CASE Dequeue \/ NothingQueued \/ GenerateJob \/ Signal
    BY <1>7 DEF Dequeue, NothingQueued, GenerateJob, Signal
<1>8. CASE FinishJob \/ SpuriousWakeup
    BY <1>8, <1>t DEF FinishJob, SpuriousWakeup, Worker, Main, Client, TypeOK
<1>9. CASE \E c \in Connections :
              ClientMoves(c) \/ Enqueue(c) \/ ThreadStarts(c)
    BY <1>9, <1>t DEF ClientMoves, ReadRequest, AnswerDirectly, Refuse, Sleep,
        LeaveJob, Enqueue, ThreadStarts, Main, Client, TypeOK
<1>10. CASE UNCHANGED vars
    BY <1>10 DEF vars
<1> QED BY <1>1, <1>2, <1>3, <1>4, <1>5, <1>6, <1>7, <1>8, <1>9, <1>10
        DEF Next, MainStep, ClientStep, WorkerStep, Environment, ClientMoves

(***************************************************************************)
(* The server implements GracefulService: it takes no connection once it   *)
(* drains, and frees nothing before the last connection is closed.         *)
(***************************************************************************)
THEOREM DrainsProperly == Spec => DrainsBeforeStop
<1>1. Init => Service!Init
    BY RefinesInit
<1>2. IInv /\ [Next]_vars => [Service!Next]_<<Phase, Counted, Finished>>
    BY RefinesStep
<1> QED BY <1>1, <1>2, Invariant, PTL
        DEF Spec, Service!Spec, DrainsBeforeStop, Finished
=============================================================================
