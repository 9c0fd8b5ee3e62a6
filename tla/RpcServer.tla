------------------------------ MODULE RpcServer -------------------------------
(***************************************************************************)
(* bin::RpcServerImpl and json::RpcServerImpl, which differ in nothing but *)
(* the format of requests, on top of the worker pool.  The event loop puts *)
(* an idle connection with input into the queue at once, there are no      *)
(* timers, and noWaitingThreads() does not take the mutex.                 *)
(***************************************************************************)
EXTENDS WorkerPool

\* Deviation: the connection is not taken out of the idle ones.
InputReadyStaysIdle(s) ==
  /\ loop = "run" /\ runmode # "Starting"
  /\ s \in (idle \cap connected \cap input) \ (writing \cup Range(queue))
  /\ queue' = Append(queue, s)
  /\ UNCHANGED <<pool, events, idle, pc, sock, objects, net>>

\* RpcServerImpl::onInput().
InputReady(s) ==
  /\ loop = "run" /\ runmode # "Starting"
  /\ s \in (idle \cap connected \cap input) \ writing
  /\ idle' = idle \ {s}
  /\ queue' = Append(queue, s)
  /\ UNCHANGED <<pool, events, pc, sock, objects, net>>

\* Socket::onOutput() in the event loop: the rest of the reply is sent, or
\* that fails and the connection is closed.
OutputReady(s) ==
  /\ loop = "run" /\ runmode # "Starting"
  /\ s \in idle \cap writing
  /\ \/ /\ writing' = writing \ {s}
        /\ UNCHANGED <<alive, accepted, connected, input, home>>
     \/ Close(s)
  /\ UNCHANGED <<pool, events, queue, idle, pc, sock, net>>

-----------------------------------------------------------------------------

Init == PoolInit

Work(w) == WorkerStep(w, FALSE)

Loop == LoopStep \/ \E s \in Sockets : InputReady(s)

Next ==
  \/ \E w \in Workers : Work(w) \/ WorkerWrites(w) \/ AddIdleSocket(w)
  \/ Loop
  \/ \E s \in Sockets : OutputReady(s)
  \/ ClientStep
  \/ Exit

vars == poolVars

\* Every thread that can run does so; no client keeps a worker busy for ever.
Fairness ==
  /\ WF_vars(Loop) /\ SF_vars(Drained)
  /\ \A w \in Workers : WF_vars(Work(w)) /\ SF_vars(AddIdleSocket(w))

Spec == Init /\ [][Next]_vars /\ Fairness

-----------------------------------------------------------------------------
(* Properties.                                                             *)

TypeOK ==
  /\ PoolTypeOK
  /\ \A i \in DOMAIN events :
       events[i] \in {ServerStartEvent, NoWaitingThreadsEvent}
                      \cup {WorkerEvent(w) : w \in Workers}
                      \cup {SocketEvent("IdleSocket", s) : s \in Sockets}

\* Sockets on their way between event loop, queue and workers: of the right
\* type, with one owner each, and none that is deleted.
SocketsSound == TypeOK /\ OwnedOnce /\ NoDanglingSocket
=============================================================================
