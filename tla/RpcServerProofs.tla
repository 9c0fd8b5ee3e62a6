---------------------------- MODULE RpcServerProofs ----------------------------
(***************************************************************************)
(* Proofs about the binary and JSON RPC servers: the invariant of the      *)
(* worker pool is kept by the steps that they add.  They have no timers,   *)
(* so nothing is assumed of the order of events.                           *)
(***************************************************************************)
EXTENDS RpcServer, WorkerPoolProofs

\* The only events about sockets are those of addIdleSocket().
OnlyIdleIsTold == \A s \in Sockets : ~Told("ActiveSocket", s) /\ ~Told("KeepAliveTimeout", s)

RpcInv == PoolInv /\ OnlyIdleIsTold

-----------------------------------------------------------------------------
(* The steps of the servers preserve the invariant.                        *)

\* What the steps of the pool tell the event loop.
LEMMA PoolTells ==
  ASSUME PoolInv, PoolNext, NEW s \in Sockets, NEW t \in {"ActiveSocket", "KeepAliveTimeout"}, Told(t, s)'
  PROVE  Told(t, s)
  <1>0. /\ Typed /\ NullInTheEnd /\ t \in SocketEvents
        /\ SocketEvent(t, s) # NoWaitingThreadsEvent
        /\ \A w : SocketEvent(t, s) # WorkerEvent(w)
        /\ \A r : SocketEvent(t, s) # SocketEvent("IdleSocket", r)
    BY EventsDiffer DEF PoolInv, Control, SocketEvents
  <1>1. ASSUME NEW w \in Workers, NEW locks \in BOOLEAN, WorkerStep(w, locks), ~CommitIdleSocket(w)
        PROVE  \/ events' = events
               \/ events' = Append(events, NoWaitingThreadsEvent)
               \/ events' = Append(events, WorkerEvent(w))
    BY <1>1
    DEF WorkerStep, WorkerLoop, WorkerCount, WorkerWaits, WorkerGets, WorkerGot, NoWaitingThreads,
        WorkerServe, AcceptTerminated, AcceptConnection, AcceptFails, WorkerAccepted, PostAccept,
        WorkerReads, WorkerFails, WorkerClosed, CommitNoWaitingThreads, ThreadTerminated
  <1>2. ASSUME NEW w \in Workers, WorkerWrites(w) \/ AddIdleSocket(w) \/ CommitIdleSocket(w)
        PROVE  \/ events' = events
               \/ sock[w] \in Sockets /\ events' = Append(events, SocketEvent("IdleSocket", sock[w]))
    <2>1. CommitIdleSocket(w) => sock[w] \in Sockets
      BY <1>0, NotNull DEF CommitIdleSocket, Typed, PoolTypeOK
    <2> QED
      BY <1>2, <2>1 DEF WorkerWrites, AddIdleSocket, CommitIdleSocket
  <1>3. ASSUME LoopStep \/ ClientStep \/ Exit
        PROVE  events' = events \/ (events # <<>> /\ events' = Tail(events))
    BY <1>3
    DEF LoopStep, OnServerStart, Running, OnNoWaitingThreads, OnThreadTerminated, OnIdleSocket, Drained,
        Terminating, WakeThreads, JoinThreads, Stopped, ClientStep, ClientConnects, ClientSends, Exit, Handles
  <1>4. \/ events' = events
        \/ events # <<>> /\ events' = Tail(events)
        \/ \E e \in EventSet : e # SocketEvent(t, s) /\ events' = Append(events, e)
    <2>1. ASSUME NEW w \in Workers, events' = Append(events, WorkerEvent(w))
          PROVE  \E e \in EventSet : e # SocketEvent(t, s) /\ events' = Append(events, e)
      BY <1>0, <2>1, EventsTyped
    <2>2. ASSUME events' = Append(events, NoWaitingThreadsEvent)
          PROVE  \E e \in EventSet : e # SocketEvent(t, s) /\ events' = Append(events, e)
      BY <1>0, <2>2, EventsTyped
    <2>3. ASSUME NEW r \in Sockets, events' = Append(events, SocketEvent("IdleSocket", r))
          PROVE  \E e \in EventSet : e # SocketEvent(t, s) /\ events' = Append(events, e)
      BY <1>0, <2>3, EventsTyped DEF SocketEvents
    <2> QED
      BY <1>1, <1>2, <1>3, <2>1, <2>2, <2>3 DEF PoolNext
  <1>5. CASE events' = events
    BY <1>5 DEF Told
  <1>6. CASE events # <<>> /\ events' = Tail(events)
    BY <1>0, <1>6, EventGet DEF Told
  <1>7. CASE \E e \in EventSet : e # SocketEvent(t, s) /\ events' = Append(events, e)
    BY <1>0, <1>7, EventPut DEF Told
  <1> QED
    BY <1>4, <1>5, <1>6, <1>7

LEMMA InputReadyKeeps ==
  ASSUME RpcInv, NEW s \in Sockets, InputReady(s)
  PROVE  RpcInv'
  <1>1. /\ s \in idle /\ idle' = idle \ {s} /\ queue' = Append(queue, s) /\ loop = "run"
        /\ UNCHANGED <<runmode, loop, threads, terminated, events, pc, sock, alive, accepted,
                       connected, input, writing, home, wake, backlog>>
    BY DEF InputReady, pool, objects, net
  <1>2. PoolInv /\ OnlyIdleIsTold
    BY DEF RpcInv
  <1>3. /\ s \in alive /\ s \in accepted /\ ~Queued(s) /\ ~Held(s) /\ ~Told("IdleSocket", s)
    BY <1>1, <1>2, IdleSocket
  <1>4. (\A x : Queued(x)' <=> Queued(x) \/ x = s) /\ QueuedOnce'
    BY <1>1, <1>2, <1>3, QueuePut DEF PoolInv, SocketPlaces
  <1>5. \A t, x : Told(t, x)' <=> Told(t, x)
    BY <1>1 DEF Told
  <1>6. Typed'
    BY <1>1, <1>2, QueueTyped DEF PoolInv, Typed, PoolTypeOK
  <1>7. Control'
    <2>1. Phases' /\ NotStarted' /\ Registered'
      BY <1>1, <1>2, <1>5 DEF PoolInv, Control, Phases, NotStarted, Registered
    <2>2. NullInTheEnd'
      BY <1>1, <1>2, <1>4, PoolAssumption DEF PoolInv, Control, NullInTheEnd, Holding
    <2> QED
      BY <2>1, <2>2 DEF Control
  <1>8. SocketPlaces'
    BY <1>1, <1>2, <1>3, <1>4, <1>5
    DEF PoolInv, OnlyIdleIsTold, SocketPlaces, ToldOnce, HeldOnce, OnePlace, AliveIsSomewhere, Held, Holding
  <1>9. Kinds'
    BY <1>1, <1>2, <1>3, <1>4, <1>5 DEF PoolInv, Kinds, Serving
  <1>10. Accepting'
    BY <1>1, <1>2, <1>3, AcceptingIsNotConcerned
  <1> QED
    BY <1>2, <1>5, <1>6, <1>7, <1>8, <1>9, <1>10 DEF RpcInv, PoolInv, OnlyIdleIsTold

LEMMA OutputReadyKeeps ==
  ASSUME RpcInv, NEW s \in Sockets, OutputReady(s)
  PROVE  RpcInv'
  BY IdleWrites DEF OutputReady, RpcInv, OnlyIdleIsTold, Told

-----------------------------------------------------------------------------
(* Every step is one of the pool or one of the server.                     *)

LEMMA StepOfPoolOrServer ==
  ASSUME Next
  PROVE  PoolNext \/ \E s \in Sockets : InputReady(s) \/ OutputReady(s)
  BY DEF Next, Work, Loop, PoolNext

LEMMA InvBegins ==
  ASSUME Init
  PROVE  RpcInv
  <1>1. \A s \in Sockets, t \in SocketEvents : ~Told(t, s)
    <2>1. Range(events) = {ServerStartEvent}
      BY DEF Init, PoolInit, Range
    <2> QED
      BY <2>1, EventsDiffer DEF Told
  <1> QED
    BY <1>1, PoolBegins DEF Init, RpcInv, OnlyIdleIsTold, SocketEvents

LEMMA InvGoesOn ==
  ASSUME RpcInv, [Next]_vars
  PROVE  RpcInv'
  <1>1. CASE PoolNext
    BY <1>1, PoolGoesOn, PoolTells DEF RpcInv, OnlyIdleIsTold
  <1>2. CASE UNCHANGED vars
    BY <1>2, PoolStutters DEF RpcInv, OnlyIdleIsTold, Told, vars, poolVars
  <1> QED
    BY <1>1, <1>2, StepOfPoolOrServer, InputReadyKeeps, OutputReadyKeeps

LEMMA LimitKept ==
  ASSUME PoolInv, ThreadLimit, [Next]_vars
  PROVE  ThreadLimit'
  <1>1. CASE threads' = threads
    BY <1>1 DEF ThreadLimit
  <1>2. CASE PoolNext
    BY <1>2, LimitGoesOn
  <1>3. threads' = threads \/ PoolNext
    BY StepOfPoolOrServer DEF vars, poolVars, InputReady, OutputReady, pool
  <1> QED
    BY <1>1, <1>2, <1>3

LEMMA SocketsFollow ==
  ASSUME RpcInv
  PROVE  SocketsSound
  <1>1. PoolInv /\ OnlyIdleIsTold /\ PoolTypeOK
    BY DEF RpcInv, PoolInv, Typed
  <1>2. \A i \in DOMAIN events : events[i] \in EventSet /\ events[i] \in Range(events)
    BY <1>1 DEF PoolInv, Typed, Range
  <1>3. \A i \in DOMAIN events, s \in Sockets :
          events[i] # SocketEvent("ActiveSocket", s) /\ events[i] # SocketEvent("KeepAliveTimeout", s)
    BY <1>1, <1>2 DEF OnlyIdleIsTold, Told
  <1>4. TypeOK
    BY <1>1, <1>2, <1>3 DEF TypeOK, EventSet, SocketEvents
  <1> QED
    BY <1>1, <1>4, PoolOwnedOnce, PoolNoDangling DEF SocketsSound

\* RpcServerImpl hands connections around without losing, deleting or sharing
\* one: between queue, workers, idle connections and events each socket has
\* one owner, and nothing refers to a deleted one.
THEOREM RpcSocketsAreSound == Spec => []SocketsSound
  <1>1. RpcInv /\ [Next]_vars => RpcInv'
    BY InvGoesOn
  <1>2. Init => RpcInv
    BY InvBegins
  <1>3. RpcInv => SocketsSound
    BY SocketsFollow
  <1> QED
    BY <1>1, <1>2, <1>3, PTL DEF Spec

\* AcceptError, SSL or not: until terminate() a listener is never without a
\* socket that accepts, whatever accept() and the handshake come to.
THEOREM RpcListenersAreServed == Spec => []ListenerServed
  <1>1. RpcInv /\ [Next]_vars => RpcInv'
    BY InvGoesOn
  <1>2. Init => RpcInv
    BY InvBegins
  <1>3. RpcInv => ListenerServed
    BY PoolListenerServed DEF RpcInv
  <1> QED
    BY <1>1, <1>2, <1>3, PTL DEF Spec

\* Without SSL the listener's accept socket is just one.
THEOREM RpcHasOneAcceptor ==
  ASSUME ~Ssl
  PROVE  Spec => []OneAcceptor
  <1>1. RpcInv /\ [Next]_vars => RpcInv'
    BY InvGoesOn
  <1>2. Init => RpcInv
    BY InvBegins
  <1>3. RpcInv => OneAcceptor
    BY PoolOneAcceptor DEF RpcInv
  <1> QED
    BY <1>1, <1>2, <1>3, PTL DEF Spec

\* The bookkeeping of threads and the end of terminate(), as in the HTTP
\* server although noWaitingThreads() does not lock.
THEOREM RpcThreadsAreSound == Spec => []ThreadsSound
  <1>1. RpcInv /\ ThreadLimit /\ [Next]_vars => (RpcInv /\ ThreadLimit)'
    BY InvGoesOn, LimitKept DEF RpcInv
  <1>2. Init => RpcInv /\ ThreadLimit
    BY InvBegins, LimitBegins DEF Init
  <1>3. RpcInv /\ ThreadLimit => ThreadsSound
    BY PoolThreadsAccounted, PoolStoppedClean DEF ThreadsSound, RpcInv
  <1> QED
    BY <1>1, <1>2, <1>3, PTL DEF Spec
=============================================================================
