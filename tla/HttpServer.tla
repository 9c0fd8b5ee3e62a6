------------------------------ MODULE HttpServer ------------------------------
(***************************************************************************)
(* http::ServerImpl and http::Socket on top of the worker pool: idle       *)
(* connections are watched by the event loop, which hands them back to the *)
(* workers when there is input and drops them when their timer expires.    *)
(* Both are done by events that the loop commits to itself.                *)
(***************************************************************************)
EXTENDS WorkerPool, TLC

VARIABLE
  overtaken  \* history: TRUE if the selector has reported a socket, for input or
             \* another timeout, before its KeepAliveTimeoutEvent was processed

vars == <<poolVars, overtaken>>

TimeoutPending(s) == s \in EventSockets({"KeepAliveTimeout"})

\* Deviation: the connection is not taken out of the idle ones.
InputReadyStaysIdle(s) ==
  /\ loop = "run" /\ runmode # "Starting"
  /\ s \in (idle \cap connected \cap input) \ writing
  /\ s \notin EventSockets({"ActiveSocket"})
  /\ events' = Append(events, SocketEvent("ActiveSocket", s))
  /\ overtaken' = (overtaken \/ TimeoutPending(s))
  /\ UNCHANGED <<pool, queue, idle, pc, sock, objects, net>>

\* ServerImpl::onInput(): the selector reports input on an idle connection.
InputReady(s) ==
  /\ loop = "run" /\ runmode # "Starting"
  /\ s \in (idle \cap connected \cap input) \ writing
  /\ idle' = idle \ {s}
  /\ events' = Append(events, SocketEvent("ActiveSocket", s))
  /\ overtaken' = (overtaken \/ TimeoutPending(s))
  /\ UNCHANGED <<pool, queue, pc, sock, objects, net>>

\* Socket::onOutput() in the event loop: the rest of a reply is sent.  The
\* connection is kept, or closed and left to its timer, or an exception
\* closes it and reports a timeout.
OutputReady(s) ==
  /\ loop = "run" /\ runmode # "Starting"
  /\ s \in idle \cap writing
  /\ \/ /\ writing' = writing \ {s}
        /\ UNCHANGED <<events, alive, accepted, connected, input, home, overtaken>>
     \/ Close(s) /\ UNCHANGED <<events, overtaken>>
     \/ /\ Close(s)
        /\ events' = Append(events, SocketEvent("KeepAliveTimeout", s))
        /\ overtaken' = (overtaken \/ TimeoutPending(s))
  /\ UNCHANGED <<pool, queue, idle, pc, sock, net>>

\* ServerImpl::onTimeout(): the read, write or keep-alive timer of an idle
\* connection expires.  It is an interval timer, which may expire again.
TimerExpires(s) ==
  /\ loop = "run" /\ runmode # "Starting"
  /\ s \in idle /\ Len(events) < MaxEvents
  /\ events' = Append(events, SocketEvent("KeepAliveTimeout", s))
  /\ overtaken' = (overtaken \/ TimeoutPending(s))
  /\ UNCHANGED <<pool, queue, idle, pc, sock, objects, net>>

\* onActiveSocket(): a worker shall go on with the connection.
OnActiveSocket ==
  /\ Handles("ActiveSocket")
  /\ events' = Tail(events)
  /\ queue' = Append(queue, Head(events).socket)
  /\ UNCHANGED <<pool, idle, pc, sock, objects, net, overtaken>>

\* onKeepAliveTimeout(): the connection is dropped.
OnKeepAliveTimeout ==
  /\ Handles("KeepAliveTimeout")
  /\ events' = Tail(events)
  /\ idle' = idle \ {Head(events).socket}
  /\ Delete({Head(events).socket})
  /\ UNCHANGED <<pool, queue, pc, sock, net, overtaken>>

-----------------------------------------------------------------------------

Init == PoolInit /\ overtaken = FALSE

Work(w) == WorkerStep(w, TRUE) /\ UNCHANGED overtaken

Loop ==
  \/ LoopStep /\ UNCHANGED overtaken
  \/ OnActiveSocket \/ OnKeepAliveTimeout
  \/ \E s \in Sockets : InputReady(s)

\* What clients and the user of the server do, and who wait for clients.
Others ==
  /\ (\E w \in Workers : WorkerWrites(w) \/ AddIdleSocket(w)) \/ ClientStep \/ Exit
  /\ UNCHANGED overtaken

Next ==
  \/ \E w \in Workers : Work(w)
  \/ Loop
  \/ \E s \in Sockets : TimerExpires(s) \/ OutputReady(s)
  \/ Others

\* Every thread that can run does so.  A worker gets rid of a connection that
\* is quiet again and again: no client keeps one busy for ever.
Fairness ==
  /\ WF_vars(Loop) /\ SF_vars(Drained /\ UNCHANGED overtaken)
  /\ \A w \in Workers :
       WF_vars(Work(w)) /\ SF_vars(AddIdleSocket(w) /\ UNCHANGED overtaken)

Spec == Init /\ [][Next]_vars /\ Fairness

-----------------------------------------------------------------------------
(* Properties.                                                             *)

TypeOK ==
  /\ PoolTypeOK
  /\ \A i \in DOMAIN events :
       events[i] \in {ServerStartEvent, NoWaitingThreadsEvent}
                      \cup {WorkerEvent(w) : w \in Workers}
                      \cup {SocketEvent(t, s) : t \in CarryingEvents \cup {"KeepAliveTimeout"},
                                                s \in Sockets}

\* Sockets on their way between event loop, queue and workers: of the right
\* type, with one owner each, none that is deleted, and, without SSL, just
\* one that listens for each listener.  A socket that is reported while its
\* KeepAliveTimeoutEvent waits is deleted and used afterwards (README, section
\* 6), whereupon anything may happen: all is sound until then.
SocketsSound ==
  /\ overtaken \in BOOLEAN
  /\ overtaken \/ (TypeOK /\ OwnedOnce /\ NoDanglingSocket /\ (Ssl \/ OneAcceptor))

\* Workers are registered, limited in number and joined by one thread, and
\* terminate() leaves none and no socket, until a socket is overtaken.
HttpThreadsSound == overtaken \/ ThreadsSound

\* A socket in the queue finds a thread, until a socket is overtaken.
HttpSocketFindsThread == overtaken \/ SocketFindsThread

\* Addresses of workers and sockets are only compared for equality.
Symmetry == Permutations(Workers) \cup Permutations(Sockets)
=============================================================================
