------------------------------ MODULE Ds4Server ------------------------------
(***************************************************************************)
(* The threads of the local inference server, native/ds4/ds4_server.c:     *)
(* main accepts connections and starts a client thread for each; a client  *)
(* thread queues a job that lives on its own stack and sleeps until the    *)
(* single worker has served it; a signal makes main drain and stop.        *)
(* What a thread does while it holds the server's mutex s->mu is one step; *)
(* the mutex of a job is explicit.                                         *)
(***************************************************************************)
EXTENDS Integers, Sequences, FiniteSets

CONSTANT Connections      \* the connections clients may open

ASSUME Ds4ServerAssumption == IsFiniteSet(Connections)

VARIABLES
    stop,           \* g_stop_requested
    stopping,       \* s->stopping
    main,           \* where main is
    clients,        \* s->clients
    client,         \* where the thread of each connection is
    queue,          \* s->head ... s->tail
    worker,         \* where the worker is
    current,        \* the job it serves
    done            \* jobs whose done flag is set

vars == <<stop, stopping, main, clients, client, queue, worker, current, done>>

\* A client thread holds the mutex of its job while it is "holding"; it
\* sleeps on the job's condition variable in "asleep" and has been woken,
\* but has not yet the mutex again, in "woken".
HasJob(c) == client[c] \in {"holding", "asleep", "woken"}

\* Connections that count in s->clients.
Counted == {c \in Connections : client[c] \notin {"none", "gone"}}

Serving == main \in {"listen", "accept", "creating"}
Running == main \notin {"closed", "killed"}

Init ==
    /\ stop = FALSE /\ stopping = FALSE
    /\ main = "listen" /\ clients = 0
    /\ client = [c \in Connections |-> "none"]
    /\ queue = <<>> /\ worker = "looking"
    /\ current \in Connections /\ done = {}

Client(c, from, to) ==
    /\ client[c] \in from
    /\ client' = [client EXCEPT ![c] = to]
-----------------------------------------------------------------------------
(***************************************************************************)
(* main                                                                    *)
(***************************************************************************)
Main(from, to) == main = from /\ main' = to

\* A socket that cannot be opened ends the server the way a signal does.
Listen ==
    /\ Main("listen", "accept") \/ Main("listen", "drain")
    /\ UNCHANGED <<stop, stopping, clients, client, queue, worker, current,
                   done>>

\* A count left to the new thread.
AcceptUncounted(c) ==
    /\ Main("accept", "creating") /\ ~stop
    /\ Client(c, {"none"}, "pending")
    /\ UNCHANGED <<stop, stopping, clients, queue, worker, current, done>>

Accept(c) ==
    /\ Main("accept", "creating") /\ ~stop
    /\ Client(c, {"none"}, "pending")
    /\ clients' = clients + 1
    /\ UNCHANGED <<stop, stopping, queue, worker, current, done>>

ThreadStarts(c) ==
    /\ Main("creating", "accept")
    /\ Client(c, {"pending"}, "reading")
    /\ UNCHANGED <<stop, stopping, clients, queue, worker, current, done>>

ThreadFails(c) ==
    /\ Main("creating", "accept")
    /\ Client(c, {"pending"}, "gone")
    /\ clients' = clients - 1
    /\ UNCHANGED <<stop, stopping, queue, worker, current, done>>

\* accept() returns an error because of the signal, or one last connection
\* that is closed at once.
StopAccepting ==
    /\ Main("accept", "drain") /\ stop
    /\ UNCHANGED <<stop, stopping, clients, client, queue, worker, current,
                   done>>

\* A drain that signals the wrong condition variable.
DrainSilently ==
    /\ Main("drain", "join")
    /\ stopping' = TRUE
    /\ UNCHANGED <<stop, clients, client, queue, worker, current, done>>

Woken(w) == IF w = "asleep" THEN "looking" ELSE w

Drain ==
    /\ Main("drain", "join")
    /\ stopping' = TRUE
    /\ worker' = Woken(worker)
    /\ UNCHANGED <<stop, clients, client, queue, current, done>>

Join ==
    /\ Main("join", "leaving") /\ worker = "gone"
    /\ UNCHANGED <<stop, stopping, clients, client, queue, worker, current,
                   done>>

\* A main that leaves when the worker has.
AwaitNobody ==
    /\ Main("leaving", "persist")
    /\ UNCHANGED <<stop, stopping, clients, client, queue, worker, current,
                   done>>

AwaitClients ==
    /\ IF clients > 0 THEN Main("leaving", "asleep")
                      ELSE Main("leaving", "persist")
    /\ UNCHANGED <<stop, stopping, clients, client, queue, worker, current,
                   done>>

\* Store the session in the disk cache and free everything.
Close ==
    /\ Main("persist", "closed")
    /\ UNCHANGED <<stop, stopping, clients, client, queue, worker, current,
                   done>>
-----------------------------------------------------------------------------
(***************************************************************************)
(* client_main                                                             *)
(***************************************************************************)
ReadRequest(c) ==
    /\ Client(c, {"reading"}, "parsed")
    /\ UNCHANGED <<stop, stopping, main, clients, queue, worker, current,
                   done>>

\* A request that needs no job: /v1/models, an unknown path, a bad request.
AnswerDirectly(c) ==
    /\ Client(c, {"reading"}, "closing")
    /\ UNCHANGED <<stop, stopping, main, clients, queue, worker, current,
                   done>>

\* An enqueue that does not look at the flag.
EnqueueAlways(c) ==
    /\ Client(c, {"parsed"}, "holding")
    /\ queue' = Append(queue, c)
    /\ worker' = Woken(worker)
    /\ UNCHANGED <<stop, stopping, main, clients, current, done>>

Enqueue(c) ==
    /\ ~stopping
    /\ Client(c, {"parsed"}, "holding")
    /\ queue' = Append(queue, c)
    /\ worker' = Woken(worker)
    /\ UNCHANGED <<stop, stopping, main, clients, current, done>>

Refuse(c) ==
    /\ stopping
    /\ Client(c, {"parsed"}, "closing")
    /\ UNCHANGED <<stop, stopping, main, clients, queue, worker, current,
                   done>>

Sleep(c) ==
    /\ c \notin done
    /\ Client(c, {"holding", "woken"}, "asleep")
    /\ UNCHANGED <<stop, stopping, main, clients, queue, worker, current,
                   done>>

\* A client that takes any return of pthread_cond_wait for its answer.
LeaveJobOnWakeup(c) ==
    /\ Client(c, {"holding", "woken"}, "closing")
    /\ client[c] = "woken" \/ c \in done
    /\ UNCHANGED <<stop, stopping, main, clients, queue, worker, current,
                   done>>

\* The job has been served; its mutex and its memory go away.
LeaveJob(c) ==
    /\ c \in done
    /\ Client(c, {"holding", "woken"}, "closing")
    /\ UNCHANGED <<stop, stopping, main, clients, queue, worker, current,
                   done>>

ClientDone(c) ==
    /\ Client(c, {"closing"}, "gone")
    /\ clients' = IF clients > 0 THEN clients - 1 ELSE 0
    /\ main' = IF main = "asleep" THEN "leaving" ELSE main
    /\ UNCHANGED <<stop, stopping, queue, worker, current, done>>
-----------------------------------------------------------------------------
(***************************************************************************)
(* worker_main                                                             *)
(***************************************************************************)
Worker(from, to) == worker = from /\ worker' = to

Dequeue ==
    /\ queue # <<>>
    /\ Worker("looking", "busy")
    /\ current' = Head(queue) /\ queue' = Tail(queue)
    /\ UNCHANGED <<stop, stopping, main, clients, client, done>>

NothingQueued ==
    /\ queue = <<>>
    /\ Worker("looking", IF stopping THEN "gone" ELSE "asleep")
    /\ UNCHANGED <<stop, stopping, main, clients, client, queue, current,
                   done>>

\* generate_job reads the request and writes the response.
GenerateJob ==
    /\ Worker("busy", "serving")
    /\ UNCHANGED <<stop, stopping, main, clients, client, queue, current,
                   done>>

FinishJob ==
    /\ client[current] # "holding"
    /\ Worker("serving", "looking")
    /\ done' = done \cup {current}
    /\ client' = [client EXCEPT ![current] =
                      IF @ = "asleep" THEN "woken" ELSE @]
    /\ UNCHANGED <<stop, stopping, main, clients, queue, current>>
-----------------------------------------------------------------------------
(***************************************************************************)
(* The signal handler and the operating system: a second signal exits at   *)
(* once; pthread_cond_wait may return without a signal.                    *)
(***************************************************************************)
Signal ==
    /\ ~stop /\ stop' = TRUE
    /\ UNCHANGED <<stopping, main, clients, client, queue, worker, current,
                   done>>

SecondSignal ==
    /\ stop /\ main' = "killed"
    /\ UNCHANGED <<stop, stopping, clients, client, queue, worker, current,
                   done>>

SpuriousWakeup ==
    /\ \/ /\ Worker("asleep", "looking")
          /\ UNCHANGED <<main, client>>
       \/ /\ Main("asleep", "leaving")
          /\ UNCHANGED <<worker, client>>
       \/ /\ \E c \in Connections : Client(c, {"asleep"}, "woken")
          /\ UNCHANGED <<main, worker>>
    /\ UNCHANGED <<stop, stopping, clients, queue, current, done>>
-----------------------------------------------------------------------------
MainStep ==
    \/ Listen \/ StopAccepting \/ Drain \/ Join \/ AwaitClients \/ Close
    \/ \E c \in Connections : ThreadStarts(c) \/ ThreadFails(c)

ClientStep(c) ==
    \/ ReadRequest(c) \/ AnswerDirectly(c) \/ Enqueue(c) \/ Refuse(c)
    \/ Sleep(c) \/ LeaveJob(c) \/ ClientDone(c)

WorkerStep == Dequeue \/ NothingQueued \/ GenerateJob \/ FinishJob

Environment ==
    \/ Signal \/ SecondSignal \/ SpuriousWakeup
    \/ \E c \in Connections : Accept(c)

Next ==
    /\ Running
    /\ \/ MainStep \/ WorkerStep \/ Environment
       \/ \E c \in Connections : ClientStep(c)

Spec == Init /\ [][Next]_vars

(***************************************************************************)
(* Threads are scheduled, sockets have timeouts and generation is bounded; *)
(* connections, signals and spurious wakeups may or may not come.          *)
(***************************************************************************)
Fairness ==
    /\ WF_vars(Running /\ MainStep)
    /\ WF_vars(Running /\ WorkerStep)
    /\ \A c \in Connections : WF_vars(Running /\ ClientStep(c))

FairSpec == Spec /\ Fairness
-----------------------------------------------------------------------------
\* The variables have their types.
TypeOK ==
    /\ stop \in BOOLEAN /\ stopping \in BOOLEAN
    /\ main \in {"listen", "accept", "creating", "drain", "join", "leaving",
                 "asleep", "persist", "closed", "killed"}
    /\ clients \in Nat
    /\ client \in [Connections ->
           {"none", "pending", "reading", "parsed", "holding", "asleep",
            "woken", "closing", "gone"}]
    /\ queue \in Seq(Connections)
    /\ worker \in {"looking", "asleep", "busy", "serving", "gone"}
    /\ current \in Connections
    /\ done \subseteq Connections

(***************************************************************************)
(* "Jobs are stack-owned by the client thread" (line 3983): a job the      *)
(* worker holds or may still reach through the queue belongs to a client   *)
(* thread that is still in the block that declares it, once, and has not   *)
(* been served; and a worker that has gone leaves no job behind.           *)
(***************************************************************************)
JobsAreAlive ==
    /\ worker \in {"busy", "serving"} =>
          /\ HasJob(current) /\ current \notin done
          /\ \A i \in 1..Len(queue) : queue[i] # current
    /\ \A i \in 1..Len(queue) :
          /\ HasJob(queue[i]) /\ queue[i] \notin done
          /\ \A j \in 1..Len(queue) : i # j => queue[i] # queue[j]
    /\ worker = "gone" => queue = <<>>

(***************************************************************************)
(* Nobody sleeps through the event it waits for: the worker sleeps only    *)
(* while there is nothing to do, main only while a client is left, and a   *)
(* client only while its job is queued or being served, which is what      *)
(* every job is until it has been served.                                  *)
(***************************************************************************)
NoLostWakeup ==
    /\ worker = "asleep" => queue = <<>> /\ ~stopping
    /\ main = "asleep" => clients > 0
    /\ \A c \in Connections :
          /\ client[c] = "asleep" => c \notin done
          /\ HasJob(c) /\ c \notin done =>
                \/ worker \in {"busy", "serving"} /\ current = c
                \/ \E i \in 1..Len(queue) : queue[i] = c

(***************************************************************************)
(* The server drains before it stops: no resource is freed under a client  *)
(* thread, and no connection is taken after main began to drain.           *)
(***************************************************************************)
Phase ==
    IF Serving THEN "serving"
    ELSE IF main = "closed" THEN "stopped"
    ELSE IF main = "killed" THEN "aborted" ELSE "draining"

Service == INSTANCE GracefulService WITH
    phase <- Phase, open <- Counted,
    finished <- {c \in Connections : client[c] = "gone"}

DrainsBeforeStop == Service!Spec

\* After one signal the server stops, whatever its clients were doing.
ShutdownCompletes == stop ~> ~Running

(***************************************************************************)
(* No wakeup is lost: every request that was queued is served, and its     *)
(* client thread ends, also while the server shuts down.                   *)
(***************************************************************************)
RequestsAreServed ==
    \A c \in Connections :
        (client[c] = "holding") ~> (client[c] = "gone" \/ ~Running)
=============================================================================
