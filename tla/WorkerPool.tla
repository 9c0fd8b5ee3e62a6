------------------------------ MODULE WorkerPool ------------------------------
(***************************************************************************)
(* The part that the HTTP server and the binary and JSON RPC servers have  *)
(* in common: listening sockets and connections travel through a Queue to  *)
(* worker threads, workers report to the event loop by events, the event   *)
(* loop starts and joins workers, and terminate() brings everything down.  *)
(* HttpServer and RpcServer add what happens to idle connections.          *)
(*                                                                         *)
(* Actors: the thread of the event loop, the workers and the clients.  A   *)
(* socket is an address; an address is taken again only when nothing       *)
(* refers to it any more, so that a dangling pointer stays visible.  The   *)
(* queue is the fifo channel that module Queue implements, its numWaiting  *)
(* the number of threads inside get (theorems RefinesFifo, WaitingCounted).*)
(***************************************************************************)
EXTENDS Naturals, Sequences, FiniteSets, Functions

CONSTANTS
  Workers,    \* addresses of Worker objects
  Sockets,    \* addresses of Socket objects
  Listeners,  \* the TcpServers the server listens on
  MinThreads, \* minThreads()
  MaxThreads, \* maxThreads()
  Ssl,        \* TRUE if the listeners use an SslCtx
  SpawnFails, \* TRUE if the creation of a thread may fail
  FirstFit,   \* TRUE if new returns one particular free address, FALSE if any
  MaxEvents,  \* bound: clients are quiet while so many events are queued
  Null        \* the null pointer that terminate() puts into the queue

ASSUME PoolAssumption ==
  /\ MinThreads \in Nat \ {0} /\ MaxThreads \in Nat /\ MaxEvents \in Nat
  /\ Ssl \in BOOLEAN /\ SpawnFails \in BOOLEAN /\ FirstFit \in BOOLEAN
  /\ Null \notin Sockets

\* There are enough addresses for the listening sockets, which are made before
\* the loop runs, and for the first threads.
ASSUME ResourceAssumption ==
  /\ IsFiniteSet(Workers) /\ MinThreads <= Cardinality(Workers)
  /\ IsFiniteSet(Sockets) /\ Listeners # {} /\ Injection(Listeners, Sockets) # {}

VARIABLES
  runmode,    \* _runmode
  loop,       \* where the event loop's thread is: "run", or inside terminate()
  events,     \* the event queue of the event loop
  queue,      \* _queue
  idle,       \* _idleSockets: the connections the event loop watches
  threads,    \* _threads
  terminated, \* _terminatedThreads
  pc,         \* pc[w]: where worker w is in Worker::run, "none" if there is no w
  sock,       \* sock[w]: the local variable socket of Worker::run
  alive,      \* the sockets that exist
  accepted,   \* the sockets whose _accepted is true
  connected,  \* the sockets that are connected to a client
  home,       \* home[s]: _tcpServer, the listener that s belongs to
  wake,       \* wake[l]: bytes in the wake pipe of listener l
  backlog,    \* backlog[l]: connections that wait to be accepted on l
  input,      \* the connections with unread input, end of file included
  writing     \* the connections with a reply that is not sent completely

objects == <<alive, accepted, connected, input, writing, home>>
net == <<wake, backlog>>
pool == <<runmode, loop, threads, terminated>>
poolVars == <<runmode, loop, events, queue, idle, threads, terminated, pc, sock,
              alive, accepted, connected, home, wake, backlog, input, writing>>

-----------------------------------------------------------------------------
(* Events, sockets, the queue.                                             *)

SocketEvent(t, s) == [type |-> t, socket |-> s]

WorkerEvent(w) == [type |-> "ThreadTerminated", worker |-> w]

NoWaitingThreadsEvent == [type |-> "NoWaitingThreads"]

ServerStartEvent == [type |-> "ServerStart"]

\* The socket that an event carries from one owner to the next.  A
\* KeepAliveTimeout only points at a socket.
EventSockets(types) ==
  {events[i].socket : i \in {j \in DOMAIN events : events[j].type \in types}}

CarryingEvents == {"IdleSocket", "ActiveSocket"}

Holding(w) == pc[w] \in {"got", "starve", "tell", "serve", "accept", "accepted",
                         "post", "io", "commit"}

Referenced ==
  Range(queue) \cup idle \cup {sock[w] : w \in {v \in Workers : Holding(v)}}
    \cup EventSockets(CarryingEvents \cup {"KeepAliveTimeout"})

\* Addresses that no socket has and nothing refers to.
Free == Sockets \ (alive \cup Referenced)

\* What new returns if the addresses of set free are.
Allocate(free) ==
  IF FirstFit /\ free # {} THEN {CHOOSE x \in free : TRUE} ELSE free

\* Threads that wait inside _queue.get().
NumWaiting == Cardinality({w \in Workers : pc[w] = "waiting"})

isTerminating == runmode = "Terminating"

\* _queue.put(new Socket(*s)) followed by gone being deleted: a new socket n
\* that listens where s does.
PutAcceptSocket(s, gone) ==
  \E n \in Allocate(Free) :
    /\ queue' = Append(queue, n)
    /\ alive' = (alive \cup {n}) \ gone
    /\ connected' = connected \ gone
    /\ home' = [home EXCEPT ![n] = home[s]]
    /\ UNCHANGED <<accepted, input, writing>>

\* The destructor closes the connection.
Delete(gone) ==
  /\ alive' = alive \ gone
  /\ accepted' = accepted \ gone
  /\ connected' = connected \ gone
  /\ input' = input \ gone
  /\ writing' = writing \ gone
  /\ UNCHANGED home

\* close(): the socket object stays.
Close(s) ==
  /\ connected' = connected \ {s}
  /\ input' = input \ {s}
  /\ writing' = writing \ {s}
  /\ UNCHANGED <<alive, accepted, home>>

Goto(w, l) == pc' = [pc EXCEPT ![w] = l] /\ UNCHANGED sock

\* w goes on without the socket it had.
Leave(w, l) == pc' = [pc EXCEPT ![w] = l] /\ sock' = [sock EXCEPT ![w] = Null]

-----------------------------------------------------------------------------
(* Worker::run.                                                            *)

\* The loop condition, left operand.
WorkerLoop(w) ==
  /\ pc[w] = "loop"
  /\ Goto(w, IF isTerminating THEN "end" ELSE "count")
  /\ UNCHANGED <<pool, events, queue, idle, objects, net>>

\* The loop condition, right operand: enough threads wait already.
WorkerCount(w) ==
  /\ pc[w] = "count"
  /\ Goto(w, IF NumWaiting < MinThreads THEN "get" ELSE "end")
  /\ UNCHANGED <<pool, events, queue, idle, objects, net>>

\* _queue.get() of an empty queue.
WorkerWaits(w) ==
  /\ pc[w] = "get" /\ queue = <<>>
  /\ Goto(w, "waiting")
  /\ UNCHANGED <<pool, events, queue, idle, objects, net>>

\* _queue.get() returns.
WorkerGets(w) ==
  /\ pc[w] \in {"get", "waiting"} /\ queue # <<>>
  /\ sock' = [sock EXCEPT ![w] = Head(queue)]
  /\ queue' = Tail(queue)
  /\ pc' = [pc EXCEPT ![w] = "got"]
  /\ UNCHANGED <<pool, events, idle, objects, net>>

\* Back into the queue with what is not for us when the server goes down;
\* otherwise see whether anybody is left for the next socket.
WorkerGot(w) ==
  /\ pc[w] = "got"
  /\ \/ /\ isTerminating
        /\ queue' = Append(queue, sock[w])
        /\ Leave(w, "end")
     \/ /\ ~isTerminating
        /\ Goto(w, IF NumWaiting = 0 THEN "starve" ELSE "serve")
        /\ UNCHANGED queue
  /\ UNCHANGED <<pool, events, idle, objects, net>>

\* Deviation: without the mutex.
NoWaitingThreadsUnlocked(w, locks) ==
  /\ pc[w] = "starve"
  /\ events' = IF locks /\ runmode = "Running" THEN Append(events, NoWaitingThreadsEvent)
                                                ELSE events
  /\ Goto(w, IF ~locks /\ runmode = "Running" THEN "tell" ELSE "serve")
  /\ UNCHANGED <<pool, queue, idle, objects, net>>

\* noWaitingThreads().  The HTTP server takes _threadMutex, which start() and
\* terminate() hold; the RPC servers do not, and the run mode may change before
\* the event is committed.
NoWaitingThreads(w, locks) ==
  /\ pc[w] = "starve"
  /\ locks => runmode # "Starting"
  /\ events' = IF locks /\ runmode = "Running" THEN Append(events, NoWaitingThreadsEvent)
                                                ELSE events
  /\ Goto(w, IF ~locks /\ runmode = "Running" THEN "tell" ELSE "serve")
  /\ UNCHANGED <<pool, queue, idle, objects, net>>

CommitNoWaitingThreads(w) ==
  /\ pc[w] = "tell"
  /\ events' = Append(events, NoWaitingThreadsEvent)
  /\ Goto(w, "serve")
  /\ UNCHANGED <<pool, queue, idle, objects, net>>

\* A listening socket is to accept, a connection to be served; a connection
\* that is closed is deleted.
WorkerServe(w) ==
  /\ pc[w] = "serve"
  /\ UNCHANGED <<pool, events, queue, idle, net>>
  /\ \/ /\ sock[w] \notin accepted
        /\ Goto(w, "accept") /\ UNCHANGED objects
     \/ /\ sock[w] \in accepted \cap connected
        /\ Goto(w, "io") /\ UNCHANGED objects
     \/ /\ sock[w] \in accepted \ connected
        /\ Leave(w, "loop") /\ Delete({sock[w]})

\* accept() finds a byte in the wake pipe and throws AcceptTerminated: a new
\* listening socket is queued for the others, this one is deleted.
AcceptTerminated(w) ==
  LET s == sock[w] IN
  /\ pc[w] = "accept" /\ wake[home[s]] > 0
  /\ wake' = [wake EXCEPT ![home[s]] = @ - 1]
  /\ PutAcceptSocket(s, {s})
  /\ Leave(w, "loop")
  /\ UNCHANGED <<pool, events, idle, backlog>>

\* accept() returns a connection.
AcceptConnection(w) ==
  LET s == sock[w] IN
  /\ pc[w] = "accept" /\ wake[home[s]] = 0 /\ backlog[home[s]] > 0
  /\ backlog' = [backlog EXCEPT ![home[s]] = @ - 1]
  /\ connected' = connected \cup {s}
  /\ Goto(w, "accepted")
  /\ UNCHANGED <<pool, events, queue, idle, alive, accepted, input, writing, home, wake>>

\* accept() or beginSslAccept() throws.
AcceptFails(w) ==
  LET s == sock[w] IN
  /\ pc[w] = "accept" /\ wake[home[s]] = 0 /\ backlog[home[s]] > 0
  /\ backlog' = [backlog EXCEPT ![home[s]] = @ - 1]
  /\ PutAcceptSocket(s, {s})
  /\ Leave(w, "loop")
  /\ UNCHANGED <<pool, events, idle, wake>>

\* Deviation: nobody accepts the next connection.
WorkerAcceptedAlone(w) ==
  /\ pc[w] = "accepted"
  /\ \/ /\ isTerminating
        /\ queue' = Append(queue, sock[w])
        /\ Leave(w, "end")
     \/ /\ ~isTerminating
        /\ Goto(w, "post")
        /\ UNCHANGED queue
  /\ UNCHANGED <<pool, events, idle, objects, net>>

\* With a connection at hand the listener needs another accept socket.
WorkerAccepted(w) ==
  /\ pc[w] = "accepted"
  /\ \/ /\ isTerminating
        /\ queue' = Append(queue, sock[w])
        /\ Leave(w, "end")
        /\ UNCHANGED objects
     \/ /\ ~isTerminating
        /\ PutAcceptSocket(sock[w], {})
        /\ Goto(w, "post")
  /\ UNCHANGED <<pool, events, idle, net>>

\* postAccept().  The handshake of SSL may fail or time out: then the handler
\* of accept errors queues an accept socket, again.
PostAccept(w) ==
  LET s == sock[w] IN
  /\ pc[w] = "post"
  /\ UNCHANGED <<pool, events, idle, net>>
  /\ \/ /\ accepted' = accepted \cup {s}
        /\ Goto(w, "io")
        /\ UNCHANGED <<queue, alive, connected, input, writing, home>>
     \/ /\ Ssl
        /\ PutAcceptSocket(s, {s})
        /\ Leave(w, "loop")

\* Input is read and answered, by onInput() or within wait(10).  The reply is
\* sent, or its rest waits for the client; the connection stays open or is
\* closed.
WorkerReads(w) ==
  LET s == sock[w] IN
  /\ pc[w] = "io" /\ s \in (connected \cap input) \ writing
  /\ \/ /\ input' = input \ {s}
        /\ writing' \in {writing, writing \cup {s}}
        /\ UNCHANGED <<alive, accepted, connected, home>>
     \/ Close(s)
  /\ UNCHANGED <<pool, events, queue, idle, pc, sock, net>>

\* onOutput() within wait(10): the rest of the reply is sent, or that fails.
WorkerWrites(w) ==
  LET s == sock[w] IN
  /\ pc[w] = "io" /\ s \in writing
  /\ \/ /\ writing' = writing \ {s}
        /\ UNCHANGED <<alive, accepted, connected, input, home>>
     \/ Close(s)
  /\ UNCHANGED <<pool, events, queue, idle, pc, sock, net>>

\* Reading throws, or the service does.
WorkerFails(w) ==
  /\ pc[w] = "io" /\ sock[w] \in input \ writing
  /\ Delete({sock[w]})
  /\ Leave(w, "loop")
  /\ UNCHANGED <<pool, events, queue, idle, net>>

\* addIdleSocket(): nothing to do for 10 ms, the event loop takes over, if the
\* server runs.
AddIdleSocket(w) ==
  LET s == sock[w] IN
  /\ pc[w] = "io" /\ s \in connected /\ (s \in writing \/ s \notin input)
  /\ \/ /\ runmode = "Running"
        /\ Goto(w, "commit")
        /\ UNCHANGED objects
     \/ /\ runmode # "Running"
        /\ Delete({s})
        /\ Leave(w, "loop")
  /\ UNCHANGED <<pool, events, queue, idle, net>>

\* Its commitEvent(), without a look at the run mode, which may have changed.
CommitIdleSocket(w) ==
  /\ pc[w] = "commit"
  /\ events' = Append(events, SocketEvent("IdleSocket", sock[w]))
  /\ Leave(w, "loop")
  /\ UNCHANGED <<pool, queue, idle, objects, net>>

\* The connection was closed.
WorkerClosed(w) ==
  LET s == sock[w] IN
  /\ pc[w] = "io" /\ s \notin connected
  /\ Leave(w, "loop")
  /\ \/ /\ isTerminating
        /\ queue' = Append(queue, s)
        /\ UNCHANGED objects
     \/ /\ ~isTerminating
        /\ Delete({s})
        /\ UNCHANGED queue
  /\ UNCHANGED <<pool, events, idle, net>>

\* Deviation: the worker stays in _threads while its end is reported.
ThreadTerminatedStays(w) ==
  /\ pc[w] = "end" /\ runmode # "Starting"
  /\ \/ /\ runmode = "Running"
        /\ events' = Append(events, WorkerEvent(w))
        /\ UNCHANGED <<threads, terminated>>
     \/ /\ runmode # "Running"
        /\ threads' = threads \ {w}
        /\ terminated' = terminated \cup {w}
        /\ UNCHANGED events
  /\ Goto(w, "done")
  /\ UNCHANGED <<runmode, loop, queue, idle, objects, net>>

\* threadTerminated(), under _threadMutex.
ThreadTerminated(w) ==
  /\ pc[w] = "end" /\ runmode # "Starting"
  /\ threads' = threads \ {w}
  /\ \/ /\ runmode = "Running"
        /\ events' = Append(events, WorkerEvent(w))
        /\ UNCHANGED terminated
     \/ /\ runmode # "Running"
        /\ terminated' = terminated \cup {w}
        /\ UNCHANGED events
  /\ Goto(w, "done")
  /\ UNCHANGED <<runmode, loop, queue, idle, objects, net>>

-----------------------------------------------------------------------------
(* Events that the event loop's thread handles.                            *)

\* The loop handles events while it runs and from within terminate().
Handles(type) ==
  /\ loop \in {"run", "drain"}
  /\ events # <<>> /\ Head(events).type = type
  /\ runmode # "Starting"

\* onServerStart(): start() creates the first workers ...
OnServerStart ==
  /\ Handles("ServerStart")
  /\ events' = Tail(events)
  /\ runmode' = "Starting"
  /\ LET new == CHOOSE n \in SUBSET Workers : Cardinality(n) = MinThreads IN
       /\ threads' = threads \cup new
       /\ pc' = [w \in Workers |-> IF w \in new THEN "loop" ELSE pc[w]]
  /\ UNCHANGED <<loop, terminated, queue, idle, sock, objects, net>>

\* ... which run already when the run mode changes.
Running ==
  /\ runmode = "Starting"
  /\ runmode' = "Running"
  /\ UNCHANGED <<loop, threads, terminated, events, queue, idle, pc, sock, objects, net>>

\* onNoWaitingThreads(): one more thread, unless there are enough.
OnNoWaitingThreads ==
  /\ Handles("NoWaitingThreads")
  /\ events' = Tail(events)
  /\ \/ /\ Cardinality(threads) < MaxThreads
        /\ \E w \in Allocate({v \in Workers : pc[v] = "none"}) :
             /\ threads' = threads \cup {w}
             /\ Goto(w, "loop")
     \/ /\ Cardinality(threads) >= MaxThreads \/ SpawnFails
        /\ UNCHANGED <<threads, pc, sock>>
  /\ UNCHANGED <<runmode, loop, terminated, queue, idle, objects, net>>

\* onThreadTerminated(): join and delete the worker.
OnThreadTerminated ==
  /\ Handles("ThreadTerminated")
  /\ events' = Tail(events)
  /\ Goto(Head(events).worker, "none")
  /\ UNCHANGED <<pool, queue, idle, objects, net>>

\* onIdleSocket(): the event loop watches the connection.
OnIdleSocket ==
  /\ Handles("IdleSocket")
  /\ events' = Tail(events)
  /\ idle' = idle \cup {Head(events).socket}
  /\ UNCHANGED <<pool, queue, pc, sock, objects, net>>

-----------------------------------------------------------------------------
(* terminate(), called by the event loop's thread when the loop has ended. *)

\* exit() was called: the loop ends and terminate() processes events.
Exit ==
  /\ loop = "run" /\ runmode # "Starting"
  /\ loop' = "drain"
  /\ UNCHANGED <<runmode, threads, terminated, events, queue, idle, pc, sock, objects, net>>

\* processEvents() has found the event queue empty.
Drained ==
  /\ loop = "drain" /\ events = <<>> /\ runmode # "Starting"
  /\ loop' = "lock"
  /\ UNCHANGED <<runmode, threads, terminated, events, queue, idle, pc, sock, objects, net>>

\* With _threadMutex locked: no new work from here on.
Terminating ==
  /\ loop = "lock"
  /\ runmode' = "Terminating"
  /\ loop' = "wake"
  /\ UNCHANGED <<threads, terminated, events, queue, idle, pc, sock, objects, net>>

\* Deviation: threads in accept() are not woken.
WakeQueueOnly ==
  /\ loop = "wake"
  /\ queue' = Append(queue, Null)
  /\ loop' = "join"
  /\ UNCHANGED <<runmode, threads, terminated, events, idle, pc, sock, objects, net>>

\* Wake the threads that accept and those that wait for a socket.
WakeThreads ==
  /\ loop = "wake"
  /\ wake' = [l \in Listeners |-> wake[l] + 1]
  /\ queue' = Append(queue, Null)
  /\ loop' = "join"
  /\ UNCHANGED <<runmode, threads, terminated, events, idle, pc, sock, objects, backlog>>

\* Woken by _threadTerminated: join and delete the threads that have ended.
JoinThreads ==
  /\ loop = "join" /\ terminated # {}
  /\ pc' = [w \in Workers |-> IF w \in terminated THEN "none" ELSE pc[w]]
  /\ terminated' = {}
  /\ UNCHANGED <<runmode, loop, threads, events, queue, idle, sock, objects, net>>

\* All threads are gone: delete the listeners, the sockets in the queue and
\* the idle sockets.
Stopped ==
  /\ loop = "join" /\ threads = {} /\ terminated = {}
  /\ Delete(idle \cup Range(queue))
  /\ queue' = <<>>
  /\ idle' = {}
  /\ wake' = [l \in Listeners |-> 0]
  /\ backlog' = [l \in Listeners |-> 0]
  /\ runmode' = "Stopped"
  /\ loop' = "done"
  /\ UNCHANGED <<threads, terminated, events, pc, sock>>

-----------------------------------------------------------------------------
(* Clients.  They act while the event queue is short and addresses for the *)
(* sockets they need are left: bounds of the model.                        *)

Listening == loop # "done"

ClientConnects(l) ==
  /\ Listening /\ Len(events) < MaxEvents /\ backlog[l] = 0
  /\ Cardinality(Free) > 1 + Cardinality({w \in Workers : pc[w] = "accepted"})
                           + Cardinality({k \in Listeners : backlog[k] = 1})
  /\ backlog' = [backlog EXCEPT ![l] = 1]
  /\ UNCHANGED <<pool, events, queue, idle, pc, sock, objects, wake>>

\* A request, a part of one, or the end of the connection.
ClientSends(s) ==
  /\ Len(events) < MaxEvents
  /\ s \in (alive \cap accepted \cap connected) \ input
  /\ input' = input \cup {s}
  /\ UNCHANGED <<pool, events, queue, idle, pc, sock, alive, accepted, connected,
                 writing, home, net>>

-----------------------------------------------------------------------------

\* The constructor and one listen() per listener, before the loop runs.
PoolInit ==
  /\ runmode = "Stopped"
  /\ loop = "run"
  /\ events = <<ServerStartEvent>>
  /\ idle = {}
  /\ threads = {}
  /\ terminated = {}
  /\ pc = [w \in Workers |-> "none"]
  /\ sock = [w \in Workers |-> Null]
  /\ LET at == CHOOSE f \in Injection(Listeners, Sockets) : TRUE IN
       /\ alive = Range(at)
       /\ home = [s \in Sockets |-> IF s \in alive THEN Inverse(at, Listeners, alive)[s]
                                   ELSE CHOOSE l \in Listeners : TRUE]
  /\ queue = CHOOSE q \in [1..Cardinality(Listeners) -> alive] : Range(q) = alive
  /\ accepted = {}
  /\ connected = {}
  /\ wake = [l \in Listeners |-> 0]
  /\ backlog = [l \in Listeners |-> 0]
  /\ input = {}
  /\ writing = {}

\* Steps of a worker that do not depend on its clients.
WorkerStep(w, locks) ==
  \/ WorkerLoop(w) \/ WorkerCount(w) \/ WorkerWaits(w) \/ WorkerGets(w)
  \/ WorkerGot(w) \/ NoWaitingThreads(w, locks) \/ WorkerServe(w)
  \/ AcceptTerminated(w) \/ AcceptConnection(w) \/ AcceptFails(w)
  \/ WorkerAccepted(w) \/ PostAccept(w)
  \/ WorkerReads(w) \/ WorkerFails(w) \/ WorkerClosed(w)
  \/ CommitNoWaitingThreads(w) \/ CommitIdleSocket(w) \/ ThreadTerminated(w)

\* Steps of the event loop's thread, exit() aside.
LoopStep ==
  \/ OnServerStart \/ Running \/ OnNoWaitingThreads \/ OnThreadTerminated
  \/ OnIdleSocket
  \/ Drained \/ Terminating \/ WakeThreads \/ JoinThreads \/ Stopped

ClientStep ==
  \/ \E l \in Listeners : ClientConnects(l)
  \/ \E s \in Sockets : ClientSends(s)

-----------------------------------------------------------------------------
(* Properties that every server has.                                       *)

PoolTypeOK ==
  /\ runmode \in {"Stopped", "Starting", "Running", "Terminating"}
  /\ loop \in {"run", "drain", "lock", "wake", "join", "done"}
  /\ queue \in Seq(Sockets \cup {Null})
  /\ idle \subseteq Sockets
  /\ threads \subseteq Workers /\ terminated \subseteq Workers
  /\ sock \in [Workers -> Sockets \cup {Null}]
  /\ accepted \subseteq alive /\ connected \subseteq alive /\ alive \subseteq Sockets
  /\ input \subseteq alive /\ writing \subseteq alive
  /\ home \in [Sockets -> Listeners]
  /\ wake \in [Listeners -> Nat] /\ backlog \in [Listeners -> 0..1]
  /\ pc \in [Workers -> {"none", "loop", "count", "get", "waiting", "got", "starve",
                         "tell", "serve", "accept", "accepted", "post", "io", "commit", "end", "done"}]

\* The places that hold s: positions in the queue, events that carry it,
\* workers, the set of idle sockets.
Owners(s) ==
  {<<"queue", i>> : i \in {j \in DOMAIN queue : queue[j] = s}}
    \cup {<<"event", i>> : i \in {j \in DOMAIN events :
             events[j].type \in CarryingEvents /\ events[j].socket = s}}
    \cup {<<"worker", w>> : w \in {v \in Workers : Holding(v) /\ sock[v] = s}}
    \cup {<<"idle", s>> : x \in idle \cap {s}}

\* A socket has exactly one owner at a time: it is never processed by two
\* threads at once and never lost, whatever way it takes between the queue,
\* the workers and the event loop.
OwnedOnce == \A s \in alive : Cardinality(Owners(s)) = 1

\* No pointer to a deleted socket is kept anywhere.
NoDanglingSocket == Referenced \subseteq alive \cup {Null}

\* The sockets that listen for connections on l.
Acceptors(l) == {s \in alive \ (accepted \cup connected) : home[s] = l}

\* A listener always has its one accept socket, from the moment it listens
\* until the server is told to terminate, except while a worker that has just
\* accepted a connection is about to queue the next one.
OneAcceptor ==
  runmode # "Terminating" /\ loop # "done" =>
    \A l \in Listeners :
      Cardinality(Acceptors(l))
        + Cardinality({w \in Workers : pc[w] = "accepted" /\ home[sock[w]] = l}) = 1

\* With SSL a failed handshake leaves a listener with one more accept socket
\* (OneAcceptor does not hold), but never without one.
ListenerServed ==
  runmode # "Terminating" /\ loop # "done" =>
    \A l \in Listeners :
      Acceptors(l) # {} \/ \E w \in Workers : pc[w] = "accepted" /\ home[sock[w]] = l

\* The bookkeeping of threads: every worker is registered until it reports its
\* end, and then is joined by terminate() or by a pending event, never both.
ThreadsAccounted ==
  /\ threads = {w \in Workers : pc[w] \notin {"none", "done"}}
  /\ \A w \in Workers : pc[w] = "done" =>
       (w \in terminated) # (\E i \in DOMAIN events : events[i] = WorkerEvent(w))

\* The limits of the thread pool: start() makes MinThreads threads, events add
\* threads below MaxThreads.
ThreadLimit ==
  Cardinality(threads) <= IF MaxThreads > MinThreads THEN MaxThreads ELSE MinThreads

\* When terminate() has finished, every socket is deleted and every worker
\* joined, except those whose event came between the last processEvents() and
\* the change of the run mode.
StoppedClean ==
  loop = "done" =>
    /\ alive = EventSockets(CarryingEvents)
    /\ \A w \in Workers : pc[w] = "none" \/ WorkerEvent(w) \in Range(events)

\* If the limit of threads is out of reach, a socket in the queue has a worker
\* on its way to the queue, or a thread is about to be created: workers that
\* have a socket (noWaitingThreads() behind them) may be busy for ever.
SocketFindsThread ==
  runmode = "Running" /\ loop = "run" /\ queue # <<>> =>
    \/ \E w \in Workers : pc[w] \in {"loop", "count", "get", "waiting", "got", "starve"}
    \/ NoWaitingThreadsEvent \in Range(events)

\* terminateAccept() breaks a blocking accept (tcpserver.h:84), so terminate()
\* comes to its end: no worker stays in accept or in get.
\* The code does not keep it: README, section 6.
Terminates == loop = "drain" ~> loop = "done"

\* Several sockets accept on one listener, whose wake pipe gets one byte.
Crowded == \E l \in Listeners : Cardinality(Acceptors(l)) > 1

\* That is so unless a failed SSL handshake has left a listener with several
\* accept sockets: workers that wait for the queue, serve a connection, are
\* about to accept or do so come to their end and are joined.
TerminatesUnlessCrowded == loop = "drain" ~> loop = "done" \/ Crowded

\* Workers are registered, limited in number, and joined by one thread; when
\* terminate() has finished none is left and no socket.
ThreadsSound == ThreadsAccounted /\ ThreadLimit /\ StoppedClean
=============================================================================
