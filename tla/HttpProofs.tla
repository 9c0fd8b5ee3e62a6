------------------------------ MODULE HttpProofs ------------------------------
(***************************************************************************)
(* Proofs about HTTP.  The server: the invariant of the worker pool is kept*)
(* by the steps that the server adds, until the selector reports a socket  *)
(* whose KeepAliveTimeoutEvent is not processed yet (overtaken).  The      *)
(* client: what it takes off the connection is the reply to its request,   *)
(* whatever the server closes and when (the invariant HcInv below).        *)
(***************************************************************************)
EXTENDS HttpServer, HttpClient, WorkerPoolProofs, WellFoundedInduction

\* A worker that is still to look into the queue or into the number of
\* waiting threads.
OnTheWay(w) == pc[w] \in {"loop", "count", "get", "waiting", "got", "starve"}

\* Somebody is on the way to the queue or will be created.
Staffed == (\E w \in Workers : OnTheWay(w)) \/ NoWaitingThreadsEvent \in Range(events)

\* That is so from the moment start() has created the first threads.
StaysStaffed == runmode \in {"Starting", "Running"} /\ loop = "run" => Staffed

-----------------------------------------------------------------------------
(* The steps of the server preserve the invariant of the pool.             *)

LEMMA PendingIsTold ==
  ASSUME Typed, NEW s \in Sockets
  PROVE  TimeoutPending(s) <=> Told("KeepAliveTimeout", s)
  BY CarriedIsTold DEF TimeoutPending, SocketEvents

LEMMA InputReadyKeeps ==
  ASSUME PoolInv, NEW s \in Sockets, InputReady(s), ~TimeoutPending(s)
  PROVE  PoolInv'
  <1>1. /\ s \in idle /\ idle' = idle \ {s} /\ loop = "run"
        /\ events' = Append(events, SocketEvent("ActiveSocket", s))
        /\ ~Told("KeepAliveTimeout", s)
        /\ UNCHANGED <<runmode, loop, threads, terminated, queue, pc, sock, alive, accepted,
                       connected, input, writing, home, wake, backlog>>
    BY PendingIsTold DEF InputReady, pool, objects, net, PoolInv
  <1>2. /\ s \in alive /\ s \in accepted /\ ~Queued(s) /\ ~Held(s)
        /\ ~Told("IdleSocket", s) /\ ~Told("ActiveSocket", s)
        /\ ServerStartEvent \notin Range(events)
    BY <1>1, IdleSocket
  <1>3. /\ \A t \in SocketEvents, x \in Sockets :
             Told(t, x)' <=> Told(t, x) \/ (t = "ActiveSocket" /\ x = s)
        /\ ToldOnce'
    BY <1>1, <1>2, ToldPut DEF PoolInv, SocketPlaces, SocketEvents
  <1>4. Typed'
    BY <1>1, EventsTyped DEF PoolInv, Typed, PoolTypeOK, SocketEvents
  <1>5. Control'
    BY <1>1, <1>2, ControlToldMore DEF SocketEvents
  <1>6. SocketPlaces'
    BY <1>1, <1>2, <1>3
    DEF PoolInv, SocketPlaces, QueuedOnce, HeldOnce, OnePlace, AliveIsSomewhere, Queued, Held,
        Holding, SocketEvents
  <1>7. Kinds'
    BY <1>1, <1>2, <1>3 DEF PoolInv, Kinds, Serving, Queued, SocketEvents
  <1>8. Accepting'
    BY <1>1, <1>2, AcceptingIsNotConcerned
  <1> QED
    BY <1>4, <1>5, <1>6, <1>7, <1>8 DEF PoolInv

\* A timeout of an idle connection is told, the connection may be closed.
LEMMA TimeoutToldKeeps ==
  ASSUME PoolInv, NEW s \in Sockets, s \in idle, loop = "run", ~TimeoutPending(s),
         events' = Append(events, SocketEvent("KeepAliveTimeout", s)),
         Close(s) \/ UNCHANGED objects,
         UNCHANGED <<pool, queue, idle, pc, sock, net>>
  PROVE  PoolInv'
  <1>1. /\ writing' \in {writing, writing \ {s}} /\ input' \in {input, input \ {s}}
        /\ connected' \in {connected, connected \ {s}}
        /\ ~Told("KeepAliveTimeout", s)
        /\ UNCHANGED <<alive, accepted, home, runmode, loop, threads, terminated, wake, backlog>>
    BY PendingIsTold DEF Close, pool, net, objects, PoolInv
  <1>2. s \in alive /\ s \in accepted /\ ServerStartEvent \notin Range(events)
    BY IdleSocket
  <1>3. /\ \A t \in SocketEvents, x \in Sockets :
             Told(t, x)' <=> Told(t, x) \/ (t = "KeepAliveTimeout" /\ x = s)
        /\ ToldOnce'
    BY <1>1, <1>2, ToldPut DEF PoolInv, SocketPlaces, SocketEvents
  <1>4. Typed'
    BY <1>1, EventsTyped DEF PoolInv, Typed, PoolTypeOK, SocketEvents
  <1>5. Control'
    BY <1>1, <1>2, ControlToldMore DEF SocketEvents
  <1>6. SocketPlaces'
    BY <1>1, <1>2, <1>3
    DEF PoolInv, SocketPlaces, QueuedOnce, HeldOnce, OnePlace, AliveIsSomewhere, Queued, Held,
        Holding, SocketEvents
  <1>7. Kinds'
    <2>1. \A w \in Workers : Holding(w) => sock[w] # s
      BY IdleSocket DEF Held
    <2>2. ~Queued(s)
      BY IdleSocket
    <2> QED
      BY <1>1, <1>2, <1>3, <2>1, <2>2 DEF PoolInv, Kinds, Serving, Queued, SocketEvents, Holding
  <1>8. Accepting'
    BY <1>1, <1>2, AcceptingIsNotConcerned
  <1> QED
    BY <1>4, <1>5, <1>6, <1>7, <1>8 DEF PoolInv

LEMMA OutputReadyKeeps ==
  ASSUME PoolInv, NEW s \in Sockets, OutputReady(s), UNCHANGED events \/ ~TimeoutPending(s)
  PROVE  PoolInv'
  <1>1. s \in idle /\ loop = "run"
    BY DEF OutputReady
  <1>2. CASE UNCHANGED events
    BY <1>1, <1>2, IdleWrites DEF OutputReady
  <1>3. CASE ~TimeoutPending(s) /\ events' = Append(events, SocketEvent("KeepAliveTimeout", s)) /\ Close(s)
    BY <1>1, <1>3, TimeoutToldKeeps DEF OutputReady
  <1> QED
    BY <1>2, <1>3 DEF OutputReady

LEMMA TimerExpiresKeeps ==
  ASSUME PoolInv, NEW s \in Sockets, TimerExpires(s), ~TimeoutPending(s)
  PROVE  PoolInv'
  BY TimeoutToldKeeps DEF TimerExpires

LEMMA OnActiveSocketKeeps ==
  ASSUME PoolInv, OnActiveSocket
  PROVE  PoolInv'
  <1>1. Handles("ActiveSocket") /\ events' = Tail(events)
    BY DEF OnActiveSocket
  <1>2. PICK s \in Sockets :
          /\ Head(events).socket = s /\ Told("ActiveSocket", s) /\ ToldOnce'
          /\ \A t \in SocketEvents, x \in Sockets :
               Told(t, x)' <=> Told(t, x) /\ ~(t = "ActiveSocket" /\ x = s)
    BY <1>1, ToldGet DEF SocketEvents, PoolInv, SocketPlaces
  <1>3. /\ queue' = Append(queue, s)
        /\ UNCHANGED <<runmode, loop, threads, terminated, idle, pc, sock, alive, accepted,
                       connected, input, writing, home, wake, backlog>>
    BY <1>2 DEF OnActiveSocket, pool, objects, net
  <1>4. s \in accepted /\ ~Queued(s) /\ ~Held(s) /\ s \notin idle /\ ~Told("IdleSocket", s)
        /\ ~Told("KeepAliveTimeout", s)
    BY <1>2 DEF PoolInv, SocketPlaces, OnePlace, Kinds
  <1>5. (\A x : Queued(x)' <=> Queued(x) \/ x = s) /\ QueuedOnce'
    BY <1>3, <1>4, QueuePut DEF PoolInv, SocketPlaces
  <1>6. Typed'
    BY <1>1, <1>3, HeadEvent, QueueTyped DEF PoolInv, Typed, PoolTypeOK
  <1>7. Control'
    BY <1>1, <1>3, <1>5, ControlToldLess, PoolAssumption DEF SocketEvents
  <1>8. SocketPlaces'
    BY <1>2, <1>3, <1>4, <1>5
    DEF PoolInv, SocketPlaces, HeldOnce, OnePlace, AliveIsSomewhere, Held, Holding, SocketEvents
  <1>9. Kinds'
    BY <1>2, <1>3, <1>4, <1>5 DEF PoolInv, Kinds, Serving, SocketEvents
  <1>10. Accepting'
    BY <1>3, <1>4, AcceptingIsNotConcerned
  <1> QED
    BY <1>6, <1>7, <1>8, <1>9, <1>10 DEF PoolInv

LEMMA OnKeepAliveTimeoutKeeps ==
  ASSUME PoolInv, OnKeepAliveTimeout
  PROVE  PoolInv'
  <1>1. Handles("KeepAliveTimeout") /\ events' = Tail(events)
    BY DEF OnKeepAliveTimeout
  <1>2. PICK s \in Sockets :
          /\ Head(events).socket = s /\ Told("KeepAliveTimeout", s) /\ ToldOnce'
          /\ \A t \in SocketEvents, x \in Sockets :
               Told(t, x)' <=> Told(t, x) /\ ~(t = "KeepAliveTimeout" /\ x = s)
    BY <1>1, ToldGet DEF SocketEvents, PoolInv, SocketPlaces
  <1>3. /\ idle' = idle \ {s} /\ alive' = alive \ {s} /\ accepted' = accepted \ {s}
        /\ connected' = connected \ {s} /\ input' = input \ {s} /\ writing' = writing \ {s}
        /\ UNCHANGED <<runmode, loop, threads, terminated, queue, pc, sock, home, wake, backlog>>
    BY <1>2 DEF OnKeepAliveTimeout, Delete, pool, net
  <1>4. /\ s \in idle /\ s \in accepted /\ ~Queued(s) /\ ~Held(s)
        /\ ~Told("IdleSocket", s) /\ ~Told("ActiveSocket", s)
    BY <1>2, IdleSocket DEF PoolInv, SocketPlaces, OnePlace
  <1>5. Typed'
    BY <1>1, <1>3, HeadEvent DEF PoolInv, Typed, PoolTypeOK
  <1>6. Control'
    BY <1>1, <1>3, ControlToldLess DEF SocketEvents, Queued
  <1>7. SocketPlaces'
    BY <1>2, <1>3, <1>4
    DEF PoolInv, SocketPlaces, QueuedOnce, HeldOnce, OnePlace, AliveIsSomewhere, Queued, Held,
        Holding, SocketEvents
  <1>8. Kinds'
    <2>1. \A w \in Workers : Holding(w) => sock[w] # s
      BY <1>4 DEF Held
    <2> QED
      BY <1>2, <1>3, <1>4, <2>1 DEF PoolInv, Kinds, Serving, Queued, SocketEvents, Holding
  <1>9. Accepting'
    <2>1. \A x : x \in alive' \ (accepted' \cup connected') <=> x \in alive \ (accepted \cup connected)
      BY <1>3, <1>4
    <2> QED
      BY <1>3, <2>1, AcceptorsStay, AcceptsStay, AcceptingStays DEF PoolInv, Serving
  <1> QED
    BY <1>5, <1>6, <1>7, <1>8, <1>9 DEF PoolInv

-----------------------------------------------------------------------------
(* Every step is one of the pool or one of the server.                     *)

LEMMA StepOfPoolOrServer ==
  ASSUME Next
  PROVE  \/ PoolNext /\ UNCHANGED overtaken
         \/ \E s \in Sockets : InputReady(s) \/ OutputReady(s) \/ TimerExpires(s)
         \/ OnActiveSocket
         \/ OnKeepAliveTimeout
  BY DEF Next, Work, Loop, Others, PoolNext

\* Who has been overtaken stays so, ...
LEMMA OvertakenStays ==
  ASSUME overtaken \in BOOLEAN, [Next]_vars
  PROVE  overtaken' \in BOOLEAN /\ (overtaken => overtaken')
  <1>1. ASSUME NEW s \in Sockets
        PROVE  TimeoutPending(s) \in BOOLEAN
    BY DEF TimeoutPending
  <1>2. overtaken' = overtaken \/ \E s \in Sockets : overtaken' = (overtaken \/ TimeoutPending(s))
    <2>1. CASE UNCHANGED vars
      BY <2>1 DEF vars
    <2>2. CASE Next
      BY <2>2, StepOfPoolOrServer
      DEF InputReady, OutputReady, TimerExpires, OnActiveSocket, OnKeepAliveTimeout
    <2> QED
      BY <2>1, <2>2
  <1> QED
    BY <1>1, <1>2

\* ... and until then nobody is reported whose timeout waits.
LEMMA InvGoesOn ==
  ASSUME overtaken \in BOOLEAN, ~overtaken', PoolInv, [Next]_vars
  PROVE  PoolInv'
  <1>1. ASSUME NEW s \in Sockets, InputReady(s)
        PROVE  PoolInv'
    <2>1. ~TimeoutPending(s)
      BY <1>1 DEF InputReady
    <2> QED
      BY <1>1, <2>1, InputReadyKeeps
  <1>2. ASSUME NEW s \in Sockets, OutputReady(s)
        PROVE  PoolInv'
    <2>1. UNCHANGED events \/ ~TimeoutPending(s)
      BY <1>2 DEF OutputReady
    <2> QED
      BY <1>2, <2>1, OutputReadyKeeps
  <1>3. ASSUME NEW s \in Sockets, TimerExpires(s)
        PROVE  PoolInv'
    <2>1. ~TimeoutPending(s)
      BY <1>3 DEF TimerExpires
    <2> QED
      BY <1>3, <2>1, TimerExpiresKeeps
  <1>4. CASE UNCHANGED vars
    BY <1>4, PoolStutters DEF vars
  <1>5. CASE Next
    BY <1>1, <1>2, <1>3, <1>5, StepOfPoolOrServer, PoolGoesOn, OnActiveSocketKeeps, OnKeepAliveTimeoutKeeps
  <1> QED
    BY <1>4, <1>5

LEMMA LimitKept ==
  ASSUME PoolInv, ThreadLimit, [Next]_vars
  PROVE  ThreadLimit'
  <1>1. CASE threads' = threads
    BY <1>1 DEF ThreadLimit
  <1>2. CASE PoolNext
    BY <1>2, LimitGoesOn
  <1>3. threads' = threads \/ PoolNext
    BY StepOfPoolOrServer
    DEF vars, poolVars, InputReady, OutputReady, TimerExpires, OnActiveSocket, OnKeepAliveTimeout, pool
  <1> QED
    BY <1>1, <1>2, <1>3

LEMMA SocketsFollow ==
  ASSUME PoolInv
  PROVE  TypeOK /\ OwnedOnce /\ NoDanglingSocket /\ (Ssl \/ OneAcceptor)
  <1>1. TypeOK
    <2>1. \A i \in DOMAIN events : events[i] \in EventSet
      BY DEF PoolInv, Typed
    <2>2. PoolTypeOK
      BY DEF PoolInv, Typed
    <2> QED
      BY <2>1, <2>2 DEF TypeOK, EventSet, SocketEvents, CarryingEvents
  <1> QED
    BY <1>1, PoolOwnedOnce, PoolNoDangling, PoolOneAcceptor

\* The invariant of the server: that of the pool holds until a socket is overtaken.
HttpInv == overtaken \in BOOLEAN /\ (overtaken \/ PoolInv)

LEMMA HttpBegins ==
  ASSUME Init
  PROVE  HttpInv /\ ThreadLimit
  BY PoolBegins, LimitBegins DEF Init, HttpInv

LEMMA HttpGoesOn ==
  ASSUME HttpInv, [Next]_vars
  PROVE  HttpInv'
  <1>1. overtaken' \in BOOLEAN /\ (overtaken => overtaken')
    BY OvertakenStays DEF HttpInv
  <1>2. CASE overtaken'
    BY <1>1, <1>2 DEF HttpInv
  <1>3. CASE ~overtaken'
    BY <1>1, <1>3, InvGoesOn DEF HttpInv
  <1> QED
    BY <1>2, <1>3

\* Http::ServerImpl hands connections around without losing, deleting or
\* sharing one: between queue, workers, idle connections and events each
\* socket has one owner, nothing refers to a deleted one, and without SSL a
\* listener has its one accept socket; all that until the selector reports a
\* socket whose KeepAliveTimeoutEvent waits.
THEOREM HttpSocketsAreSound == Spec => []SocketsSound
  <1>1. Init => HttpInv
    BY HttpBegins
  <1>2. HttpInv /\ [Next]_vars => HttpInv'
    BY HttpGoesOn
  <1>3. HttpInv => SocketsSound
    BY SocketsFollow DEF HttpInv, SocketsSound
  <1> QED
    BY <1>1, <1>2, <1>3, PTL DEF Spec

\* ServerImpl's bookkeeping of threads: until a socket is overtaken, each
\* worker is registered until it ends, then joined once; there are never more
\* than the limit, and none when terminate() has returned.
THEOREM HttpThreadsAreSound == Spec => []HttpThreadsSound
  <1> DEFINE Limited == overtaken \/ ThreadLimit
  <1>1. Init => HttpInv /\ Limited
    BY HttpBegins
  <1>2. HttpInv /\ Limited /\ [Next]_vars => (HttpInv /\ Limited)'
    <2> SUFFICES ASSUME HttpInv, Limited, [Next]_vars
                 PROVE  (HttpInv /\ Limited)'
      OBVIOUS
    <2>1. overtaken' \/ (PoolInv /\ ThreadLimit)
      BY OvertakenStays DEF HttpInv
    <2> QED
      BY <2>1, HttpGoesOn, LimitKept
  <1>3. HttpInv /\ Limited => HttpThreadsSound
    BY PoolThreadsAccounted, PoolStoppedClean DEF HttpInv, ThreadsSound, HttpThreadsSound
  <1> HIDE DEF Limited
  <1> QED
    BY <1>1, <1>2, <1>3, PTL DEF Spec

-----------------------------------------------------------------------------
(* A socket in the queue finds a thread.                                   *)

LEMMA StaffedStays ==
  ASSUME StaysStaffed,
         runmode' \in {"Starting", "Running"} => runmode \in {"Starting", "Running"},
         loop' = "run" => loop = "run",
         NoWaitingThreadsEvent \in Range(events) => NoWaitingThreadsEvent \in Range(events'),
         \A w \in Workers : OnTheWay(w) => OnTheWay(w)'
  PROVE  StaysStaffed'
  BY DEF StaysStaffed, Staffed

\* Threads that wait are counted.
LEMMA SomebodyWaits ==
  NumWaiting # 0 => \E w \in Workers : pc[w] = "waiting"
  BY FS_EmptySet DEF NumWaiting

LEMMA NoWaitingKept ==
  ASSUME Typed,
         \/ events' = events
         \/ \E e \in EventSet : events' = Append(events, e)
         \/ \E type : Handles(type) /\ type # "NoWaitingThreads" /\ events' = Tail(events)
  PROVE  NoWaitingThreadsEvent \in Range(events) => NoWaitingThreadsEvent \in Range(events')
  <1>1. CASE events' = events
    BY <1>1
  <1>2. CASE \E e \in EventSet : events' = Append(events, e)
    BY <1>2, EventPut
  <1>3. CASE \E type : Handles(type) /\ type # "NoWaitingThreads" /\ events' = Tail(events)
    <2>1. events # <<>> /\ events' = Tail(events) /\ Head(events).type # "NoWaitingThreads"
      BY <1>3 DEF Handles
    <2>2. Head(events) # NoWaitingThreadsEvent
      BY <2>1 DEF NoWaitingThreadsEvent
    <2> QED
      BY <2>1, <2>2, EventGet
  <1> QED
    BY <1>1, <1>2, <1>3

LEMMA WorkerStaffs ==
  ASSUME PoolInv, StaysStaffed, NEW w \in Workers, Work(w)
  PROVE  StaysStaffed'
  <1>0. Typed /\ NullInTheEnd
    BY DEF PoolInv, Control
  <1> USE <1>0
  <1>1. runmode' = runmode /\ loop' = loop
    BY DEF Work, WorkerStep, WorkerLoop, WorkerCount, WorkerWaits, WorkerGets, WorkerGot, NoWaitingThreads,
       WorkerServe, AcceptTerminated, AcceptConnection, AcceptFails, WorkerAccepted, PostAccept,
       WorkerReads, WorkerFails, WorkerClosed, CommitNoWaitingThreads, CommitIdleSocket, ThreadTerminated, pool
  <1>2. CASE WorkerLoop(w)
    <2>1. isTerminating \/ \A v \in Workers : OnTheWay(v) => OnTheWay(v)'
      BY <1>2 DEF WorkerLoop, Goto, OnTheWay, Typed, PoolTypeOK
    <2> QED
      BY <1>1, <1>2, <2>1, StaffedStays DEF WorkerLoop, isTerminating, StaysStaffed
  <1>3. CASE WorkerCount(w)
    <2>1. CASE NumWaiting < MinThreads
      <3>1. \A v \in Workers : OnTheWay(v) => OnTheWay(v)'
        BY <1>3, <2>1 DEF WorkerCount, Goto, OnTheWay, Typed, PoolTypeOK
      <3> QED
        BY <1>1, <1>3, <3>1, StaffedStays DEF WorkerCount
    <2>2. CASE ~(NumWaiting < MinThreads)
      <3>1. NumWaiting # 0
        BY <2>2, PoolAssumption
      <3>2. PICK v \in Workers : pc[v] = "waiting"
        BY <3>1, SomebodyWaits
      <3>3. pc'[v] = "waiting"
        BY <1>3, <3>2 DEF WorkerCount, Goto, Typed, PoolTypeOK
      <3> QED
        BY <3>3 DEF StaysStaffed, Staffed, OnTheWay
    <2> QED
      BY <2>1, <2>2
  <1>4. CASE WorkerGot(w)
    <2>1. CASE isTerminating
      BY <1>1, <2>1 DEF isTerminating, StaysStaffed
    <2>2. CASE ~isTerminating /\ NumWaiting = 0
      <3>1. OnTheWay(w)'
        BY <1>4, <2>2 DEF WorkerGot, Goto, OnTheWay, Typed, PoolTypeOK
      <3> QED
        BY <3>1 DEF StaysStaffed, Staffed
    <2>3. CASE ~isTerminating /\ NumWaiting # 0
      <3>1. PICK v \in Workers : pc[v] = "waiting"
        BY <2>3, SomebodyWaits
      <3>2. pc'[v] = "waiting"
        BY <1>4, <2>3, <3>1 DEF WorkerGot, Goto, Typed, PoolTypeOK
      <3> QED
        BY <3>2 DEF StaysStaffed, Staffed, OnTheWay
    <2> QED
      BY <2>1, <2>2, <2>3
  <1>5. CASE NoWaitingThreads(w, TRUE)
    <2>1. CASE runmode = "Running"
      <3>1. NoWaitingThreadsEvent \in Range(events')
        BY <1>5, <2>1, EventPut, EventsTyped DEF NoWaitingThreads
      <3> QED
        BY <3>1 DEF StaysStaffed, Staffed
    <2>2. CASE runmode # "Running"
      BY <1>1, <1>5, <2>2 DEF NoWaitingThreads, StaysStaffed
    <2> QED
      BY <2>1, <2>2
  <1>6. CASE WorkerWaits(w) \/ WorkerGets(w) \/ WorkerServe(w) \/ AcceptTerminated(w) \/ AcceptConnection(w)
             \/ AcceptFails(w) \/ WorkerAccepted(w) \/ PostAccept(w) \/ WorkerReads(w) \/ WorkerFails(w)
             \/ WorkerClosed(w)
    <2>1. \A v \in Workers : OnTheWay(v) => OnTheWay(v)'
      BY <1>6
      DEF WorkerWaits, WorkerGets, WorkerServe, AcceptTerminated, AcceptConnection, AcceptFails,
          WorkerAccepted, PostAccept, WorkerReads, WorkerFails, WorkerClosed, Goto, Leave, OnTheWay,
          Typed, PoolTypeOK
    <2>2. events' = events
      BY <1>6
      DEF WorkerWaits, WorkerGets, WorkerServe, AcceptTerminated, AcceptConnection, AcceptFails,
          WorkerAccepted, PostAccept, WorkerReads, WorkerFails, WorkerClosed
    <2> QED
      BY <1>1, <2>1, <2>2, StaffedStays
  <1>7. CASE ThreadTerminated(w)
    <2>1. \A v \in Workers : OnTheWay(v) => OnTheWay(v)'
      BY <1>7 DEF ThreadTerminated, Goto, OnTheWay, Typed, PoolTypeOK
    <2>2. NoWaitingThreadsEvent \in Range(events) => NoWaitingThreadsEvent \in Range(events')
      BY <1>7, NoWaitingKept, EventsTyped DEF ThreadTerminated
    <2> QED
      BY <1>1, <2>1, <2>2, StaffedStays
  <1>8. CASE CommitNoWaitingThreads(w)
    BY <1>8, EventPut, EventsTyped DEF CommitNoWaitingThreads, StaysStaffed, Staffed
  <1>9. CASE CommitIdleSocket(w)
    <2>1. \A v \in Workers : OnTheWay(v) => OnTheWay(v)'
      BY <1>9 DEF CommitIdleSocket, Leave, OnTheWay, Typed, PoolTypeOK
    <2>2. sock[w] \in Sockets
      BY <1>9, NotNull DEF CommitIdleSocket, Typed, PoolTypeOK
    <2>3. NoWaitingThreadsEvent \in Range(events) => NoWaitingThreadsEvent \in Range(events')
      BY <1>9, <2>2, NoWaitingKept, EventsTyped DEF CommitIdleSocket, SocketEvents
    <2> QED
      BY <1>1, <2>1, <2>3, StaffedStays
  <1> QED
    BY <1>2, <1>3, <1>4, <1>5, <1>6, <1>7, <1>8, <1>9 DEF Work, WorkerStep

LEMMA LoopStaffs ==
  ASSUME PoolInv, StaysStaffed, Cardinality(Workers) < MaxThreads, ~SpawnFails, LoopStep
  PROVE  StaysStaffed'
  <1>0. Typed /\ Registered
    BY DEF PoolInv, Control
  <1>1. CASE OnServerStart
    <2> DEFINE new == CHOOSE n \in SUBSET Workers : Cardinality(n) = MinThreads
    <2>1. new \in SUBSET Workers /\ Cardinality(new) = MinThreads
      BY FirstThreads
    <2>2. new # {}
      BY <2>1, FS_EmptySet, PoolAssumption
    <2>3. \A w \in new : pc'[w] = "loop"
      BY <1>1, <2>1 DEF OnServerStart
    <2> HIDE DEF new
    <2> QED
      BY <2>1, <2>2, <2>3 DEF StaysStaffed, Staffed, OnTheWay
  <1>2. CASE OnNoWaitingThreads
    <2>1. Cardinality(threads) < MaxThreads
      <3>1. Cardinality(threads) <= Cardinality(Workers) /\ Cardinality(threads) \in Nat
            /\ Cardinality(Workers) \in Nat
        BY <1>0, ResourceAssumption, FS_Subset, FS_CardinalityType DEF Typed, PoolTypeOK
      <3> QED
        BY <3>1, PoolAssumption
    <2>2. PICK w \in Allocate({v \in Workers : pc[v] = "none"}) : Goto(w, "loop")
      <3>1. Cardinality(threads) \in Nat /\ MaxThreads \in Nat
        BY <1>0, ResourceAssumption, PoolAssumption, FS_Subset, FS_CardinalityType DEF Typed, PoolTypeOK
      <3>2. ~(Cardinality(threads) >= MaxThreads)
        BY <2>1, <3>1
      <3> QED
        BY <1>2, <3>2, Zenon DEF OnNoWaitingThreads
    <2>3. w \in Workers
      BY DEF Allocate
    <2> QED
      BY <1>0, <2>2, <2>3 DEF Goto, StaysStaffed, Staffed, OnTheWay, Typed, PoolTypeOK
  <1>3. CASE Running \/ Drained \/ Terminating \/ WakeThreads
    BY <1>3, StaffedStays DEF Running, Drained, Terminating, WakeThreads, OnTheWay, pool
  <1>4. CASE OnThreadTerminated
    <2>1. PICK w \in Workers : Head(events) = WorkerEvent(w) /\ Head(events).worker = w
      <3>1. \A v : WorkerEvent(v).worker = v
        BY DEF WorkerEvent
      <3> QED
        BY <1>0, <1>4, <3>1, HeadEvent DEF OnThreadTerminated
    <2>2. pc[w] = "done"
      <3>1. WorkerEvent(w) \in Range(events)
        BY <1>0, <1>4, <2>1, HeadEvent, EventGet DEF OnThreadTerminated
      <3> QED
        BY <1>0, <3>1 DEF Registered
    <2>3. \A v \in Workers : OnTheWay(v) => OnTheWay(v)'
      BY <1>0, <1>4, <2>1, <2>2 DEF OnThreadTerminated, Goto, OnTheWay, Typed, PoolTypeOK
    <2>4. NoWaitingThreadsEvent \in Range(events) => NoWaitingThreadsEvent \in Range(events')
      BY <1>0, <1>4, NoWaitingKept DEF OnThreadTerminated
    <2> QED
      BY <1>4, <2>3, <2>4, StaffedStays DEF OnThreadTerminated, pool
  <1>5. CASE OnIdleSocket
    <2>1. NoWaitingThreadsEvent \in Range(events) => NoWaitingThreadsEvent \in Range(events')
      BY <1>0, <1>5, NoWaitingKept DEF OnIdleSocket
    <2> QED
      BY <1>5, <2>1, StaffedStays DEF OnIdleSocket, OnTheWay, pool
  <1>6. CASE JoinThreads \/ Stopped
    BY <1>6 DEF JoinThreads, Stopped, StaysStaffed
  <1> QED
    BY <1>1, <1>2, <1>3, <1>4, <1>5, <1>6 DEF LoopStep

LEMMA OthersStaff ==
  ASSUME PoolInv, StaysStaffed,
         \/ \E w \in Workers : WorkerWrites(w) \/ AddIdleSocket(w)
         \/ OnActiveSocket \/ OnKeepAliveTimeout
         \/ \E s \in Sockets : InputReady(s) \/ TimerExpires(s) \/ OutputReady(s)
         \/ ClientStep \/ Exit
  PROVE  StaysStaffed'
  <1>1. (loop' = "run" => loop = "run") /\ runmode' = runmode
    BY DEF WorkerWrites, AddIdleSocket, OnActiveSocket, OnKeepAliveTimeout, InputReady, TimerExpires,
           OutputReady, ClientStep, ClientConnects, ClientSends, Exit, pool
  <1>0. Typed
    BY DEF PoolInv
  <1>2. \A w \in Workers : OnTheWay(w) => OnTheWay(w)'
    BY <1>0 DEF WorkerWrites, AddIdleSocket, OnActiveSocket, OnKeepAliveTimeout, InputReady, TimerExpires,
           OutputReady, ClientStep, ClientConnects, ClientSends, Exit, Goto, Leave, OnTheWay, Typed, PoolTypeOK
  <1>3. NoWaitingThreadsEvent \in Range(events) => NoWaitingThreadsEvent \in Range(events')
    <2>2. CASE \E s \in Sockets : InputReady(s) \/ TimerExpires(s) \/ OutputReady(s)
      <3>1. PICK s \in Sockets : InputReady(s) \/ TimerExpires(s) \/ OutputReady(s)
        BY <2>2
      <3>2. \A t \in SocketEvents : SocketEvent(t, s) \in EventSet
        BY <1>0, EventsTyped
      <3>3. events' = events \/ \E t \in SocketEvents : events' = Append(events, SocketEvent(t, s))
        BY <3>1 DEF InputReady, TimerExpires, OutputReady, SocketEvents
      <3> QED
        BY <1>0, <3>2, <3>3, NoWaitingKept
    <2>3. CASE OnActiveSocket \/ OnKeepAliveTimeout
      BY <1>0, <2>3, NoWaitingKept DEF OnActiveSocket, OnKeepAliveTimeout
    <2>4. CASE (\E w \in Workers : WorkerWrites(w) \/ AddIdleSocket(w)) \/ ClientStep \/ Exit
      BY <2>4 DEF WorkerWrites, AddIdleSocket, ClientStep, ClientConnects, ClientSends, Exit
    <2> QED
      BY <2>2, <2>3, <2>4
  <1> QED
    BY <1>1, <1>2, <1>3, StaffedStays

\* noWaitingThreads() tells the loop of missing threads in time: a socket in
\* the queue has a worker on its way, or a thread is about to be created, as
\* long as the limit is not reached and threads can be created.
THEOREM SocketsFindThreads ==
  ASSUME Cardinality(Workers) < MaxThreads, ~SpawnFails
  PROVE  Spec => []HttpSocketFindsThread
  <1> DEFINE StaffedInTime == overtaken \/ StaysStaffed
  <1>1. Init => HttpInv /\ StaffedInTime
    BY HttpBegins DEF Init, PoolInit, StaysStaffed
  <1>2. HttpInv /\ StaffedInTime /\ [Next]_vars => (HttpInv /\ StaffedInTime)'
    <2> SUFFICES ASSUME HttpInv, StaffedInTime, [Next]_vars, ~overtaken'
                 PROVE  StaysStaffed'
      BY HttpGoesOn
    <2>0. PoolInv /\ StaysStaffed
      BY OvertakenStays DEF HttpInv
    <2>1. CASE UNCHANGED vars
      BY <2>0, <2>1, StaffedStays DEF vars, poolVars, OnTheWay
    <2>2. CASE \E w \in Workers : Work(w)
      BY <2>0, <2>2, WorkerStaffs
    <2>3. CASE LoopStep
      BY <2>0, <2>3, LoopStaffs
    <2>4. CASE \/ \E w \in Workers : WorkerWrites(w) \/ AddIdleSocket(w)
               \/ OnActiveSocket \/ OnKeepAliveTimeout
               \/ \E s \in Sockets : InputReady(s) \/ TimerExpires(s) \/ OutputReady(s)
               \/ ClientStep \/ Exit
      BY <2>0, <2>4, OthersStaff
    <2> QED
      BY <2>1, <2>2, <2>3, <2>4 DEF Next, Loop, Others
  <1>3. HttpInv /\ StaffedInTime => HttpSocketFindsThread
    BY DEF HttpInv, StaysStaffed, Staffed, OnTheWay, SocketFindsThread, HttpSocketFindsThread
  <1> HIDE DEF StaffedInTime
  <1> QED
    BY <1>1, <1>2, <1>3, PTL DEF Spec

-----------------------------------------------------------------------------
(* The client.                                                             *)

UnitKinds == {"part", "head", "byte", "size", "data", "last"}
UnitType ==
  [req : 0 .. MaxRequests, kind : UnitKinds \ {"head"}]
  \cup [req : 0 .. MaxRequests, kind : {"head"}, shape : Shapes]
Units == Seq(UnitType)
ServerType == [open : BOOLEAN, todo : Units, closes : BOOLEAN, losses : 0 .. MaxLoss]

\* What of the replies the client has still to take, in order.
Stream == inbuf \o (wire \o srv.todo)

Connected == {"ssl", "writing", "reading", "header", "body", "loop"}

HcRight ==
  /\ HcTypeOK /\ srv \in ServerType /\ spoilt \in BOOLEAN
  /\ inbuf \in Units /\ area \in Units /\ chunk \in Units /\ wire \in Units /\ body \in Units

\* A client that is not connected has lost what was on the way.
LinkRight ==
  /\ hc.op \in Connected => hc.conn
  /\ hc.op = "connecting" => ~hc.conn
  /\ ~hc.conn => ~srv.open /\ wire = <<>>
  /\ ~srv.open => srv.todo = <<>>

ReadRight ==
  /\ hc.op = "header" => hc.readHeader
  /\ hc.op \in {"body", "loop"} => ~hc.readHeader

\* A connection may be replaced only by a request that was neither sent again nor answered.
RetryRight == hc.reconnect => hc.tries = 0 /\ ~hc.answered

\* Units s are all of the request r, and the end of the chunks ends them.
OwnUnits(s, r) == \A i \in 1 .. Len(s) : s[i].req = r /\ (s[i].kind = "last" => i = Len(s))

\* Behind a header, or when a body of n bytes is awaited, there are no more bytes than announced.
NoSurplus(s, readHeader, shape, n) ==
  IF readHeader
  THEN \A i \in 1 .. Len(s) : s[i].kind = "head" /\ ~s[i].shape.chunked => Len(s) - i <= s[i].shape.n
  ELSE ~shape.chunked => Len(s) <= n

StreamIsOwn ==
  IF hc.op \in {"reading", "header", "body", "loop"}
  THEN OwnUnits(Stream, hc.req) /\ NoSurplus(Stream, hc.readHeader, hc.shape, hc.left)
  ELSE Stream = <<>>

AreaIsOwn ==
  /\ hc.op = "reading" => inbuf = <<>>
  /\ ~(hc.op = "loop" /\ ~hc.shape.chunked) => area = <<>>
  /\ \A i \in 1 .. Len(area) : area[i].req = hc.req
  /\ hc.op = "loop" /\ hc.shape.chunked => \A i \in 1 .. Len(chunk) : chunk[i].req = hc.req

Unspoilt == ~spoilt => StreamIsOwn /\ AreaIsOwn /\ \A i \in 1 .. Len(body) : body[i].req = hc.req

HcInv == HcRight /\ FinishedOnce /\ LinkRight /\ ReadRight /\ RetryRight /\ Unspoilt

-----------------------------------------------------------------------------
(* Streams of units.                                                       *)

LEMMA JoinFacts ==
  ASSUME NEW S, NEW s \in Seq(S), NEW t \in Seq(S)
  PROVE  /\ s \o t \in Seq(S) /\ Len(s \o t) = Len(s) + Len(t)
         /\ \A i \in 1 .. Len(s) : (s \o t)[i] = s[i]
         /\ \A i \in 1 .. Len(t) : (s \o t)[Len(s) + i] = t[i]
         /\ \A i \in 1 .. Len(s) + Len(t) : (s \o t)[i] = IF i <= Len(s) THEN s[i] ELSE t[i - Len(s)]
  OBVIOUS

LEMMA CutFacts ==
  ASSUME NEW S, NEW s \in Seq(S), NEW m \in 0 .. Len(s)
  PROVE  /\ SubSeq(s, 1, m) \in Seq(S) /\ Len(SubSeq(s, 1, m)) = m
         /\ \A j \in 1 .. m : SubSeq(s, 1, m)[j] = s[j]
         /\ SubSeq(s, m + 1, Len(s)) \in Seq(S) /\ Len(SubSeq(s, m + 1, Len(s))) = Len(s) - m
         /\ \A j \in 1 .. Len(s) - m : SubSeq(s, m + 1, Len(s))[j] = s[j + m]
  OBVIOUS

\* Sequences with the same elements are the same.
LEMMA SameElements ==
  ASSUME NEW S, NEW s \in Seq(S), NEW t \in Seq(S), Len(s) = Len(t),
         \A i \in 1 .. Len(s) : s[i] = t[i]
  PROVE  s = t
  OBVIOUS

LEMMA FunctionIsSeq ==
  ASSUME NEW S, NEW n \in Nat, NEW f \in [1 .. n -> S]
  PROVE  f \in Seq(S) /\ Len(f) = n
  OBVIOUS

LEMMA EmptyFacts ==
  ASSUME NEW S, NEW s \in Seq(S)
  PROVE  /\ <<>> \in Seq(S) /\ Len(<<>>) = 0 /\ Len(s) \in Nat
         /\ Len(s) = 0 <=> s = <<>>
         /\ s \o <<>> = s /\ <<>> \o s = s
  OBVIOUS

LEMMA StreamFacts ==
  ASSUME NEW S, NEW a \in Seq(S), NEW b \in Seq(S), NEW c \in Seq(S)
  PROVE  /\ b \o c \in Seq(S) /\ a \o (b \o c) \in Seq(S)
         /\ Len(a \o (b \o c)) = Len(a) + (Len(b) + Len(c))
         /\ Len(a) \in Nat /\ Len(b) \in Nat /\ Len(c) \in Nat
         /\ \A i \in 1 .. Len(a) : (a \o (b \o c))[i] = a[i]
         /\ a \o (b \o c) = <<>> <=> a = <<>> /\ b = <<>> /\ c = <<>>
  <1> DEFINE d == b \o c
  <1>1. d \in Seq(S) /\ Len(d) = Len(b) + Len(c)
    BY JoinFacts
  <1>2. Len(a) \in Nat /\ Len(b) \in Nat /\ Len(c) \in Nat
    OBVIOUS
  <1> HIDE DEF d
  <1>3. /\ a \o d \in Seq(S) /\ Len(a \o d) = Len(a) + Len(d)
        /\ \A i \in 1 .. Len(a) : (a \o d)[i] = a[i]
    <2>1. a \in Seq(S) /\ d \in Seq(S)
      BY <1>1
    <2> QED
      BY <2>1, JoinFacts
  <1>4. a \o d = <<>> <=> Len(a) + (Len(b) + Len(c)) = 0
    BY <1>1, <1>3, EmptyFacts
  <1>5. Len(a) + (Len(b) + Len(c)) = 0 <=> Len(a) = 0 /\ Len(b) = 0 /\ Len(c) = 0
    BY <1>2
  <1>6. (Len(a) = 0 <=> a = <<>>) /\ (Len(b) = 0 <=> b = <<>>) /\ (Len(c) = 0 <=> c = <<>>)
    BY EmptyFacts
  <1> QED
    BY <1>1, <1>2, <1>3, <1>4, <1>5, <1>6 DEF d

\* Units that are taken from the front of the first piece leave the front of the stream.
LEMMA TakenFromFront ==
  ASSUME NEW S, NEW a \in Seq(S), NEW d \in Seq(S), NEW m \in 0 .. Len(a)
  PROVE  /\ m \in 0 .. Len(a \o d)
         /\ SubSeq(a, m + 1, Len(a)) \o d = SubSeq(a \o d, m + 1, Len(a \o d))
  <1> DEFINE s == a \o d
             f == SubSeq(a, m + 1, Len(a))
             g == SubSeq(s, m + 1, Len(s))
             h == f \o d
  <1>1. /\ s \in Seq(S) /\ Len(s) = Len(a) + Len(d) /\ Len(a) \in Nat /\ Len(d) \in Nat
        /\ \A i \in 1 .. Len(a) + Len(d) : s[i] = IF i <= Len(a) THEN a[i] ELSE d[i - Len(a)]
    BY JoinFacts
  <1>2. /\ f \in Seq(S) /\ Len(f) = Len(a) - m /\ \A j \in 1 .. Len(a) - m : f[j] = a[j + m]
    BY CutFacts
  <1> HIDE DEF f, s
  <1>3. m \in 0 .. Len(s)
    BY <1>1
  <1>4. /\ g \in Seq(S) /\ Len(g) = Len(s) - m /\ \A j \in 1 .. Len(s) - m : g[j] = s[j + m]
    BY <1>1, <1>3, CutFacts
  <1>5. /\ h \in Seq(S) /\ Len(h) = Len(f) + Len(d)
        /\ \A i \in 1 .. Len(f) + Len(d) : h[i] = IF i <= Len(f) THEN f[i] ELSE d[i - Len(f)]
    <2>1. f \in Seq(S) /\ d \in Seq(S)
      BY <1>2
    <2> QED
      BY <2>1, JoinFacts
  <1> HIDE DEF g, h
  <1>6. Len(g) = Len(h)
    BY <1>1, <1>2, <1>4, <1>5
  <1>7. ASSUME NEW i \in 1 .. Len(g)
        PROVE  g[i] = h[i]
    <2>1. /\ i \in 1 .. Len(s) - m /\ i \in 1 .. Len(f) + Len(d) /\ i + m \in 1 .. Len(a) + Len(d)
          /\ i \in Nat /\ Len(f) \in Nat
      BY <1>1, <1>2, <1>4
    <2>2. g[i] = (IF i + m <= Len(a) THEN a[i + m] ELSE d[i + m - Len(a)])
      BY <1>1, <1>4, <2>1
    <2>3. h[i] = (IF i <= Len(f) THEN f[i] ELSE d[i - Len(f)])
      BY <1>5, <2>1
    <2>4. CASE i <= Len(f)
      <3>1. i \in 1 .. Len(a) - m /\ i + m <= Len(a)
        BY <1>1, <1>2, <2>1, <2>4
      <3> QED
        BY <1>2, <2>2, <2>3, <2>4, <3>1
    <2>5. CASE ~(i <= Len(f))
      <3>1. ~(i + m <= Len(a)) /\ i + m - Len(a) = i - Len(f)
        BY <1>1, <1>2, <2>1, <2>5
      <3> QED
        BY <2>2, <2>3, <2>5, <3>1
    <2> QED
      BY <2>4, <2>5
  <1>8. g = h
    BY <1>4, <1>5, <1>6, <1>7, SameElements
  <1> QED
    BY <1>3, <1>8 DEF f, g, h, s

LEMMA JoinIsAssociative ==
  ASSUME NEW S, NEW a \in Seq(S), NEW b \in Seq(S), NEW c \in Seq(S)
  PROVE  (a \o b) \o c = a \o (b \o c)
  <1> DEFINE p == a \o b
             q == b \o c
             v == p \o c
             w == a \o q
  <1>1. /\ p \in Seq(S) /\ Len(p) = Len(a) + Len(b) /\ Len(a) \in Nat /\ Len(b) \in Nat /\ Len(c) \in Nat
        /\ \A i \in 1 .. Len(a) + Len(b) : p[i] = IF i <= Len(a) THEN a[i] ELSE b[i - Len(a)]
    BY JoinFacts
  <1>2. /\ q \in Seq(S) /\ Len(q) = Len(b) + Len(c)
        /\ \A i \in 1 .. Len(b) + Len(c) : q[i] = IF i <= Len(b) THEN b[i] ELSE c[i - Len(b)]
    BY JoinFacts
  <1> HIDE DEF p, q
  <1>3. /\ v \in Seq(S) /\ Len(v) = Len(p) + Len(c)
        /\ \A i \in 1 .. Len(p) + Len(c) : v[i] = IF i <= Len(p) THEN p[i] ELSE c[i - Len(p)]
    BY <1>1, JoinFacts
  <1>4. /\ w \in Seq(S) /\ Len(w) = Len(a) + Len(q)
        /\ \A i \in 1 .. Len(a) + Len(q) : w[i] = IF i <= Len(a) THEN a[i] ELSE q[i - Len(a)]
    <2>1. a \in Seq(S) /\ q \in Seq(S)
      BY <1>2
    <2> QED
      BY <2>1, JoinFacts
  <1> HIDE DEF v, w
  <1>5. Len(v) = Len(w) /\ Len(v) = Len(a) + (Len(b) + Len(c))
    BY <1>1, <1>2, <1>3, <1>4
  <1>6. ASSUME NEW i \in 1 .. Len(v)
        PROVE  v[i] = w[i]
    <2>1. i \in 1 .. Len(p) + Len(c) /\ i \in 1 .. Len(a) + Len(q) /\ i \in Nat
      BY <1>1, <1>2, <1>5
    <2>2. /\ v[i] = (IF i <= Len(p) THEN p[i] ELSE c[i - Len(p)])
          /\ w[i] = (IF i <= Len(a) THEN a[i] ELSE q[i - Len(a)])
      BY <1>3, <1>4, <2>1
    <2>3. CASE i <= Len(a)
      <3>1. i <= Len(p) /\ i \in 1 .. Len(a) + Len(b)
        BY <1>1, <2>1, <2>3
      <3> QED
        BY <1>1, <2>2, <2>3, <3>1
    <2>4. CASE ~(i <= Len(a)) /\ i <= Len(p)
      <3>1. i \in 1 .. Len(a) + Len(b) /\ i - Len(a) \in 1 .. Len(b) + Len(c) /\ i - Len(a) <= Len(b)
        BY <1>1, <2>1, <2>4
      <3>2. p[i] = b[i - Len(a)] /\ q[i - Len(a)] = b[i - Len(a)]
        BY <1>1, <1>2, <2>4, <3>1
      <3> QED
        BY <2>2, <2>4, <3>2
    <2>5. CASE ~(i <= Len(p))
      <3>1. ~(i <= Len(a)) /\ i - Len(a) \in 1 .. Len(b) + Len(c) /\ ~(i - Len(a) <= Len(b))
            /\ (i - Len(a)) - Len(b) = i - Len(p)
        BY <1>1, <2>1, <2>5
      <3>2. q[i - Len(a)] = c[(i - Len(a)) - Len(b)]
        BY <1>2, <3>1
      <3> QED
        BY <2>2, <2>5, <3>1, <3>2
    <2>6. i <= Len(a) => i <= Len(p)
      BY <1>1, <2>1
    <2> QED
      BY <2>3, <2>4, <2>5, <2>6
  <1>7. v = w
    BY <1>3, <1>4, <1>5, <1>6, SameElements
  <1> QED
    BY <1>7 DEF p, q, v, w

LEMMA CutAndJoined ==
  ASSUME NEW S, NEW s \in Seq(S), NEW m \in 0 .. Len(s)
  PROVE  SubSeq(s, 1, m) \o SubSeq(s, m + 1, Len(s)) = s
  <1> DEFINE f == SubSeq(s, 1, m)
             g == SubSeq(s, m + 1, Len(s))
             h == f \o g
  <1>1. /\ f \in Seq(S) /\ Len(f) = m /\ \A j \in 1 .. m : f[j] = s[j]
        /\ g \in Seq(S) /\ Len(g) = Len(s) - m /\ \A j \in 1 .. Len(s) - m : g[j] = s[j + m]
    BY CutFacts
  <1> HIDE DEF f, g
  <1>2. /\ h \in Seq(S) /\ Len(h) = m + (Len(s) - m)
        /\ \A i \in 1 .. m + (Len(s) - m) : h[i] = IF i <= m THEN f[i] ELSE g[i - m]
    BY <1>1, JoinFacts
  <1> HIDE DEF h
  <1>3. Len(h) = Len(s)
    BY <1>2
  <1>4. ASSUME NEW i \in 1 .. Len(h)
        PROVE  h[i] = s[i]
    <2>1. i \in 1 .. m + (Len(s) - m) /\ i \in Nat
      BY <1>2
    <2>2. CASE i <= m
      <3>1. i \in 1 .. m
        BY <2>1, <2>2
      <3> QED
        BY <1>1, <1>2, <2>1, <2>2, <3>1
    <2>3. CASE ~(i <= m)
      <3>1. i - m \in 1 .. Len(s) - m /\ (i - m) + m = i
        BY <1>2, <2>1, <2>3
      <3> QED
        BY <1>1, <1>2, <2>1, <2>3, <3>1
    <2> QED
      BY <2>2, <2>3
  <1>5. h = s
    BY <1>2, <1>3, <1>4, SameElements
  <1> QED
    BY <1>5 DEF f, g, h

LEMMA Sends ==
  ASSUME NEW S, NEW b \in Seq(S), NEW c \in Seq(S), c # <<>>
  PROVE  /\ Append(b, c[1]) \in Seq(S) /\ Tail(c) \in Seq(S)
         /\ Append(b, c[1]) \o Tail(c) = b \o c
  <1>1. /\ Append(b, c[1]) \in Seq(S) /\ Tail(c) \in Seq(S) /\ <<c[1]>> \in Seq(S)
        /\ Append(b, c[1]) = b \o <<c[1]>>
    OBVIOUS
  <1>2. <<c[1]>> \o Tail(c) = c
    OBVIOUS
  <1>3. (b \o <<c[1]>>) \o Tail(c) = b \o (<<c[1]>> \o Tail(c))
    BY <1>1, JoinIsAssociative
  <1> QED
    BY <1>1, <1>2, <1>3

-----------------------------------------------------------------------------
(* Units.                                                                  *)

\* A set of places has a first one.
LEMMA FirstPlace ==
  ASSUME NEW P \in SUBSET Nat, P # {}
  PROVE  LET i == CHOOSE i \in P : \A j \in P : i <= j IN i \in P /\ \A j \in P : i <= j
  <1> DEFINE R == OpToRel(<, Nat)
  <1>1. \A x, y \in Nat : x < y => <<x, y>> \in R
    <2> TAKE x, y \in Nat
    <2> HAVE x < y
    <2> DEFINE z == <<x, y>>
    <2>1. z \in Nat \X Nat
      BY Zenon
    <2>2. z[1] < z[2]
      OBVIOUS
    <2> QED
      BY <2>1, <2>2, Zenon DEF OpToRel
  <1>2. \E x \in P : \A y \in P : <<y, x>> \notin R
    BY NatLessThanWellFounded, WFMin
  <1> HIDE DEF R
  <1>3. PICK x \in P : \A y \in P : <<y, x>> \notin R
    BY <1>2
  <1>4. \A y \in P : ~(y < x)
    BY <1>1, <1>3, Zenon
  <1>5. \E z \in P : \A y \in P : z <= y
    BY <1>4
  <1> QED
    BY <1>5

LEMMA ShapeFacts ==
  ASSUME NEW s \in Shapes
  PROVE  s.chunked \in BOOLEAN /\ s.keep \in BOOLEAN /\ s.trailer \in BOOLEAN /\ s.n \in 0 .. MaxBody /\ s.n \in Nat
  BY HcAssumption DEF Shapes

LEMMA UnitFacts ==
  ASSUME NEW u \in UnitType
  PROVE  u.req \in 0 .. MaxRequests /\ u.kind \in UnitKinds /\ (u.kind = "head" => u.shape \in Shapes)
  BY DEF UnitType, UnitKinds

LEMMA UnitIsUnit ==
  ASSUME NEW r \in 0 .. MaxRequests, NEW k \in UnitKinds \ {"head"}
  PROVE  Unit(r, k) \in UnitType /\ Unit(r, k).req = r /\ Unit(r, k).kind = k
  BY DEF Unit, UnitType

LEMMA HeadIsUnit ==
  ASSUME NEW r \in 0 .. MaxRequests, NEW s \in Shapes
  PROVE  /\ HeadOf(r, s) \in UnitType /\ HeadOf(r, s).req = r
         /\ HeadOf(r, s).kind = "head" /\ HeadOf(r, s).shape = s
  BY DEF HeadOf, UnitType

\* What is left of a stream has the properties of the stream.
LEMMA OwnRest ==
  ASSUME NEW s \in Units, NEW r, NEW m \in 0 .. Len(s), OwnUnits(s, r)
  PROVE  OwnUnits(SubSeq(s, m + 1, Len(s)), r)
  <1> DEFINE t == SubSeq(s, m + 1, Len(s))
  <1>1. Len(t) = Len(s) - m /\ \A j \in 1 .. Len(s) - m : t[j] = s[j + m]
    BY CutFacts DEF Units
  <1>2. Len(s) \in Nat
    BY DEF Units
  <1> HIDE DEF t
  <1>3. ASSUME NEW i \in 1 .. Len(t)
        PROVE  t[i].req = r /\ (t[i].kind = "last" => i = Len(t))
    <2>1. i \in 1 .. Len(s) - m /\ i + m \in 1 .. Len(s) /\ (i + m = Len(s) => i = Len(t))
      BY <1>1, <1>2
    <2> QED
      BY <1>1, <2>1 DEF OwnUnits
  <1> QED
    BY <1>3 DEF OwnUnits, t

LEMMA OwnFront ==
  ASSUME NEW s \in Units, NEW t \in Units, NEW r, OwnUnits(s \o t, r)
  PROVE  OwnUnits(s, r)
  <1>1. Len(s \o t) = Len(s) + Len(t) /\ \A i \in 1 .. Len(s) : (s \o t)[i] = s[i]
    BY JoinFacts DEF Units
  <1>2. Len(s) \in Nat /\ Len(t) \in Nat
    BY DEF Units
  <1>3. ASSUME NEW i \in 1 .. Len(s)
        PROVE  s[i].req = r /\ (s[i].kind = "last" => i = Len(s))
    <2>1. i \in 1 .. Len(s \o t) /\ (i = Len(s \o t) => i = Len(s))
      BY <1>1, <1>2
    <2> QED
      BY <1>1, <2>1 DEF OwnUnits
  <1> QED
    BY <1>3 DEF OwnUnits

\* Nothing follows the end of the chunks.
LEMMA NothingBehindLast ==
  ASSUME NEW s \in Units, NEW t \in Units, NEW r, OwnUnits(s \o t, r),
         NEW i \in 1 .. Len(s), s[i].kind = "last"
  PROVE  i = Len(s) /\ t = <<>>
  <1>1. Len(s \o t) = Len(s) + Len(t) /\ (s \o t)[i] = s[i]
    BY JoinFacts DEF Units
  <1>2. Len(s) \in Nat /\ Len(t) \in Nat
    BY DEF Units
  <1>3. i \in 1 .. Len(s \o t)
    BY <1>1, <1>2
  <1>4. i = Len(s) + Len(t)
    BY <1>1, <1>3 DEF OwnUnits
  <1>5. i = Len(s) /\ Len(t) = 0
    BY <1>2, <1>4
  <1> QED
    BY <1>5, EmptyFacts DEF Units

LEMMA SurplusRest ==
  ASSUME NEW s \in Units, NEW m \in 0 .. Len(s), NEW shape, NEW n, NoSurplus(s, TRUE, shape, n)
  PROVE  NoSurplus(SubSeq(s, m + 1, Len(s)), TRUE, shape, n)
  <1> DEFINE t == SubSeq(s, m + 1, Len(s))
  <1>1. t \in Units /\ Len(t) = Len(s) - m /\ \A j \in 1 .. Len(s) - m : t[j] = s[j + m]
    BY CutFacts DEF Units
  <1>2. Len(s) \in Nat
    BY DEF Units
  <1> HIDE DEF t
  <1>3. ASSUME NEW i \in 1 .. Len(t), t[i].kind = "head" /\ ~t[i].shape.chunked
        PROVE  Len(t) - i <= t[i].shape.n
    <2>1. i \in 1 .. Len(s) - m /\ i + m \in 1 .. Len(s) /\ Len(s) - (i + m) = Len(t) - i
      BY <1>1, <1>2
    <2>2. t[i] = s[i + m]
      BY <1>1, <2>1
    <2> QED
      BY <1>3, <2>1, <2>2 DEF NoSurplus
  <1> QED
    BY <1>3 DEF NoSurplus, t

LEMMA SurplusFront ==
  ASSUME NEW s \in Units, NEW t \in Units, NEW h, NEW shape, NEW n \in Nat, NoSurplus(s \o t, h, shape, n)
  PROVE  NoSurplus(s, h, shape, n)
  <1>1. Len(s \o t) = Len(s) + Len(t) /\ \A i \in 1 .. Len(s) : (s \o t)[i] = s[i]
    BY JoinFacts DEF Units
  <1>2. Len(s) \in Nat /\ Len(t) \in Nat /\ \A i \in 1 .. Len(s) : s[i] \in UnitType
    BY DEF Units
  <1>3. ASSUME h, NEW i \in 1 .. Len(s), s[i].kind = "head" /\ ~s[i].shape.chunked
        PROVE  Len(s) - i <= s[i].shape.n
    <2>1. i \in 1 .. Len(s \o t)
      BY <1>1, <1>2
    <2>2. Len(s \o t) - i <= s[i].shape.n
      BY <1>1, <1>3, <2>1 DEF NoSurplus
    <2>3. s[i].shape \in Shapes
      BY <1>2, <1>3, UnitFacts
    <2>4. s[i].shape.n \in Nat
      BY <2>3, ShapeFacts
    <2> HIDE DEF NoSurplus
    <2> QED
      BY <1>1, <1>2, <2>2, <2>4
  <1>4. ASSUME ~h, ~shape.chunked
        PROVE  Len(s) <= n
    BY <1>1, <1>2, <1>4 DEF NoSurplus
  <1> QED
    BY <1>3, <1>4 DEF NoSurplus

\* A reply is of its request, ends with the end of its chunks, and has the announced length.
LEMMA ReplyFacts ==
  ASSUME NEW r \in 0 .. MaxRequests, NEW s \in Shapes, NEW shape, NEW n
  PROVE  /\ ReplyOf(r, s) \in Units
         /\ OwnUnits(ReplyOf(r, s), r) /\ NoSurplus(ReplyOf(r, s), TRUE, shape, n)
  <1> DEFINE p == <<Unit(r, "part"), HeadOf(r, s)>>
             e == [i \in 1 .. (2 * s.n) |-> Unit(r, IF i % 2 = 1 THEN "size" ELSE "data")]
             l == <<Unit(r, "last")>>
             b == [i \in 1 .. s.n |-> Unit(r, "byte")]
             t == IF s.chunked THEN e \o l ELSE b
  <1>1. s.n \in Nat /\ s.chunked \in BOOLEAN
    BY ShapeFacts
  <1>2. /\ p \in Units /\ Len(p) = 2 /\ p[1].req = r /\ p[2].req = r /\ p[1].kind = "part" /\ p[2].kind = "head"
        /\ p[2].shape = s
    <2>1. Unit(r, "part") \in UnitType /\ Unit(r, "part").req = r /\ Unit(r, "part").kind = "part"
      BY UnitIsUnit DEF UnitKinds
    <2>2. HeadOf(r, s) \in UnitType /\ HeadOf(r, s).req = r /\ HeadOf(r, s).kind = "head" /\ HeadOf(r, s).shape = s
      BY HeadIsUnit
    <2> QED
      BY <2>1, <2>2 DEF Units
  <1>3. /\ t \in Units
        /\ \A i \in 1 .. Len(t) : /\ t[i].req = r /\ t[i].kind # "head"
                                  /\ (t[i].kind = "last" => i = Len(t))
        /\ ~s.chunked => Len(t) <= s.n
    <2>1. CASE s.chunked
      <3>1. \A i \in 1 .. 2 * s.n : /\ e[i] \in UnitType /\ e[i].req = r /\ e[i].kind \in {"size", "data"}
        <4> TAKE i \in 1 .. 2 * s.n
        <4> DEFINE k == IF i % 2 = 1 THEN "size" ELSE "data"
        <4>1. k \in {"size", "data"}
          OBVIOUS
        <4> HIDE DEF k
        <4>2. Unit(r, k) \in UnitType /\ Unit(r, k).req = r /\ Unit(r, k).kind = k
          BY <4>1, UnitIsUnit DEF UnitKinds
        <4>3. e[i] = Unit(r, k)
          BY DEF k
        <4> QED
          BY <4>1, <4>2, <4>3
      <3>2. e \in Units /\ Len(e) = 2 * s.n
        <4> DEFINE m == 2 * s.n
        <4>1. m \in Nat
          BY <1>1
        <4>2. e \in [1 .. m -> UnitType]
          BY <3>1
        <4> HIDE DEF e, m
        <4>3. e \in Seq(UnitType) /\ Len(e) = m
          BY <4>1, <4>2, FunctionIsSeq
        <4> QED
          BY <4>3 DEF m, Units
      <3>3. l \in Units /\ Len(l) = 1 /\ l[1].req = r /\ l[1].kind = "last"
        <4>1. Unit(r, "last") \in UnitType /\ Unit(r, "last").req = r /\ Unit(r, "last").kind = "last"
          BY UnitIsUnit DEF UnitKinds
        <4> QED
          BY <4>1 DEF Units
      <3> DEFINE u == e \o l
                 len == 2 * s.n
      <3>4. len \in Nat
        BY <1>1
      <3> HIDE DEF e, l, len
      <3>5. /\ u \in Units /\ Len(u) = Len(e) + Len(l)
            /\ \A i \in 1 .. Len(e) + Len(l) : u[i] = IF i <= Len(e) THEN e[i] ELSE l[i - Len(e)]
        <4>1. e \in Seq(UnitType) /\ l \in Seq(UnitType)
          BY <3>2, <3>3 DEF Units
        <4> QED
          BY <4>1, JoinFacts DEF Units
      <3> HIDE DEF u
      <3>6. Len(e) = len /\ Len(u) = len + 1
        BY <3>2, <3>3, <3>5 DEF len
      <3>7. ASSUME NEW i \in 1 .. Len(u)
            PROVE  u[i].req = r /\ u[i].kind # "head" /\ (u[i].kind = "last" => i = Len(u))
        <4>1. i \in 1 .. Len(e) + Len(l)
          BY <3>3, <3>6
        <4>2. CASE i <= len
          <5>1. i \in 1 .. 2 * s.n
            BY <3>4, <4>2 DEF len
          <5> QED
            BY <3>1, <3>5, <3>6, <4>1, <4>2, <5>1
        <4>3. CASE ~(i <= len)
          <5>1. i = len + 1 /\ i - Len(e) = 1
            BY <3>4, <3>6, <4>3
          <5> QED
            BY <3>3, <3>5, <3>6, <4>1, <4>3, <5>1
        <4> QED
          BY <4>2, <4>3
      <3>8. t = u
        BY <2>1 DEF u
      <3> HIDE DEF t
      <3> QED
        BY <2>1, <3>5, <3>7, <3>8
    <2>2. CASE ~s.chunked
      <3>1. Unit(r, "byte") \in UnitType /\ Unit(r, "byte").req = r /\ Unit(r, "byte").kind = "byte"
        BY UnitIsUnit DEF UnitKinds
      <3> DEFINE c == Unit(r, "byte")
      <3>2. t = [i \in 1 .. s.n |-> c]
        BY <2>2
      <3> HIDE DEF c, t
      <3>3. t \in Seq(UnitType) /\ Len(t) = s.n /\ \A i \in 1 .. s.n : t[i] = c
        BY <1>1, <3>1, <3>2 DEF c
      <3>4. \A i \in 1 .. Len(t) : t[i].req = r /\ t[i].kind = "byte"
        BY <3>1, <3>3 DEF c
      <3> QED
        BY <1>1, <2>2, <3>3, <3>4 DEF Units
    <2> QED
      BY <1>1, <2>1, <2>2
  <1> DEFINE v == p \o t
  <1> HIDE DEF p, t
  <1>4. /\ v \in Units /\ Len(v) = Len(p) + Len(t)
        /\ \A i \in 1 .. Len(p) + Len(t) : v[i] = IF i <= Len(p) THEN p[i] ELSE t[i - Len(p)]
    <2>1. p \in Seq(UnitType) /\ t \in Seq(UnitType)
      BY <1>2, <1>3 DEF Units
    <2> QED
      BY <2>1, JoinFacts DEF Units
  <1> HIDE DEF v
  <1>5. Len(t) \in Nat /\ Len(v) = 2 + Len(t)
    BY <1>2, <1>3, <1>4 DEF Units
  <1>6. ASSUME NEW i \in 1 .. Len(v)
        PROVE  /\ v[i].req = r /\ (v[i].kind = "last" => i = Len(v))
               /\ v[i].kind = "head" => i = 2 /\ v[i].shape = s
    <2>1. i \in 1 .. Len(p) + Len(t)
      BY <1>2, <1>5
    <2>2. CASE i \in {1, 2}
      BY <1>2, <1>4, <2>1, <2>2
    <2>3. CASE i \notin {1, 2}
      <3>1. i - 2 \in 1 .. Len(t) /\ ~(i <= 2) /\ (i - 2 = Len(t) => i = Len(v))
        BY <1>5, <2>3
      <3>2. v[i] = t[i - 2]
        BY <1>2, <1>4, <2>1, <3>1
      <3> QED
        BY <1>3, <3>1, <3>2
    <2> QED
      BY <2>2, <2>3
  <1>7. OwnUnits(v, r)
    BY <1>6 DEF OwnUnits
  <1>8. NoSurplus(v, TRUE, shape, n)
    <2>1. ASSUME NEW i \in 1 .. Len(v), v[i].kind = "head" /\ ~v[i].shape.chunked
          PROVE  Len(v) - i <= v[i].shape.n
      <3>1. i = 2 /\ v[i].shape = s
        BY <1>6, <2>1
      <3>2. Len(v) - 2 = Len(t) /\ Len(t) <= s.n
        BY <1>3, <1>5, <2>1, <3>1
      <3> QED
        BY <3>1, <3>2
    <2> QED
      BY <2>1 DEF NoSurplus
  <1>9. ReplyOf(r, s) = v
    BY DEF ReplyOf, v, p, t
  <1> QED
    BY <1>4, <1>7, <1>8, <1>9

-----------------------------------------------------------------------------
(* What the invariant says of a state.                                     *)

LEMMA HcFacts ==
  ASSUME HcInv
  PROVE  /\ hc \in HcType /\ srv \in ServerType /\ spoilt \in BOOLEAN
         /\ inbuf \in Seq(UnitType) /\ wire \in Seq(UnitType) /\ srv.todo \in Seq(UnitType)
         /\ area \in Seq(UnitType) /\ chunk \in Seq(UnitType) /\ body \in Seq(UnitType)
         /\ hc.busy \in BOOLEAN /\ hc.conn \in BOOLEAN /\ srv.open \in BOOLEAN
         /\ hc.busy <=> hc.op # "none"
         /\ hc.op \in {"none", "connecting", "ssl", "writing", "reading", "header", "body", "loop"}
         /\ hc.told \in {0, 1} /\ (hc.op # "none" => hc.told = 0)
         /\ hc.req \in 0 .. MaxRequests /\ hc.left \in Nat /\ hc.shape \in Shapes
         /\ MaxRequests \in Nat /\ MaxBody \in Nat /\ MaxLoss \in Nat
  BY HcAssumption DEF HcInv, HcRight, HcTypeOK, HcType, ServerType, Units, FinishedOnce

\* Between the replies nothing is on the way.
LEMMA AtRestIsEmpty ==
  ASSUME HcInv, ~spoilt, hc.op \notin {"reading", "header", "body", "loop"}
  PROVE  inbuf = <<>> /\ wire = <<>> /\ srv.todo = <<>> /\ area = <<>>
  <1>1. Stream = <<>> /\ area = <<>>
    BY DEF HcInv, Unspoilt, StreamIsOwn, AreaIsOwn
  <1> QED
    BY <1>1, HcFacts, StreamFacts DEF Stream

LEMMA LostServer ==
  ASSUME NEW v \in ServerType, NEW b \in BOOLEAN
  PROVE  LET e == [v EXCEPT !.open = b, !.todo = <<>>]
         IN e \in ServerType /\ e.todo = <<>> /\ e.open = b
  <1>1. <<>> \in Units
    BY DEF Units
  <1> QED
    BY <1>1 DEF ServerType

\* With empty pieces the stream is empty, and the other way round.
LEMMA NothingLeft ==
  ASSUME NEW a \in Seq(UnitType), NEW b \in Seq(UnitType), NEW c \in Seq(UnitType)
  PROVE  a \o (b \o c) = <<>> <=> a = <<>> /\ b = <<>> /\ c = <<>>
  BY StreamFacts

\* The program begins, ends and cancels requests.
LEMMA BeginExecuteKeeps ==
  ASSUME HcInv, BeginExecute
  PROVE  HcInv'
  <1>1. /\ hc' \in HcType /\ hc'.busy /\ hc'.op \in {"writing", "connecting"} /\ hc'.told = 0
        /\ hc'.tries = 0 /\ ~hc'.answered
        /\ (hc'.op = "writing" => hc'.conn) /\ (hc'.op = "connecting" => ~hc'.conn)
    <2> DEFINE c == [hc EXCEPT !.req = @ + 1, !.busy = TRUE, !.told = 0, !.tries = 0, !.answered = FALSE]
    <2>1. hc.req + 1 \in 0 .. MaxRequests
      BY HcFacts DEF BeginExecute
    <2>2. c \in HcType /\ c.busy /\ c.told = 0 /\ c.tries = 0 /\ ~c.answered /\ c.conn = hc.conn
      <3> DEFINE r == hc.req + 1
      <3> HIDE DEF r
      <3>1. r \in 0 .. MaxRequests /\ hc \in HcType /\ c = [hc EXCEPT !.req = r, !.busy = TRUE, !.told = 0, !.tries = 0, !.answered = FALSE]
        BY <2>1, HcFacts DEF r
      <3>2. 0 \in 0 .. 2 /\ 0 \in 0 .. 3
        OBVIOUS
      <3> HIDE DEF c
      <3>3. c \in HcType
        BY <3>1, <3>2 DEF HcType
      <3> QED
        BY <3>1, <3>3 DEF HcType
    <2> HIDE DEF c
    <2>3. \/ hc.conn /\ hc' = [c EXCEPT !.op = "writing", !.reconnect = TRUE]
          \/ hc' = [c EXCEPT !.op = "connecting", !.conn = FALSE, !.reconnect = FALSE]
          \/ ~hc.conn /\ hc' = [c EXCEPT !.op = "connecting", !.reconnect = FALSE]
      BY DEF BeginExecute, c
    <2> QED
      BY <2>2, <2>3 DEF HcType
  <1>2. /\ inbuf' \in {inbuf, <<>>} /\ body' = <<>> /\ spoilt' = spoilt /\ area' = area /\ chunk' = chunk
        /\ \/ wire' = wire /\ srv' = srv /\ hc'.conn = hc.conn
           \/ wire' = <<>> /\ srv' = [srv EXCEPT !.open = FALSE, !.todo = <<>>]
    BY HcFacts DEF BeginExecute, Lost, HcType
  <1>3. srv' \in ServerType /\ srv'.todo \in {srv.todo, <<>>}
    BY <1>2, HcFacts, LostServer
  <1>4. <<>> \in Seq(UnitType) /\ Len(<<>>) = 0
    OBVIOUS
  <1>5. HcRight'
    BY <1>1, <1>2, <1>3, <1>4, HcFacts DEF HcRight, HcTypeOK, Units
  <1>6. LinkRight'
    BY <1>1, <1>2, HcFacts DEF HcInv, LinkRight, Connected, ServerType
  <1>7. Unspoilt'
    <2>1. hc.op = "none"
      BY DEF BeginExecute
    <2>2. ASSUME ~spoilt
          PROVE  inbuf' = <<>> /\ wire' = <<>> /\ srv'.todo = <<>> /\ area' = <<>>
      BY <1>2, <1>3, <2>1, <2>2, AtRestIsEmpty
    <2>3. ~spoilt => Stream' = <<>>
      BY <1>5, <2>2, NothingLeft DEF Stream, HcRight, ServerType, Units
    <2> QED
      BY <1>1, <1>2, <1>4, <2>2, <2>3 DEF Unspoilt, StreamIsOwn, AreaIsOwn
  <1> QED
    BY <1>1, <1>5, <1>6, <1>7 DEF HcInv, FinishedOnce, ReadRight, RetryRight

LEMMA CancelKeeps ==
  ASSUME HcInv, Cancel
  PROVE  HcInv'
  <1>1. /\ hc' \in HcType /\ ~hc'.busy /\ hc'.op = "none" /\ hc'.told = hc.told /\ hc'.req = hc.req
        /\ ~hc'.conn /\ hc'.reconnect = hc.reconnect /\ hc'.tries = hc.tries /\ hc'.answered = hc.answered
    BY HcFacts DEF Cancel, Cancelled, HcType
  <1>2. /\ inbuf' = <<>> /\ chunk' = <<>> /\ area' = area /\ body' = body /\ spoilt' = (spoilt \/ area # <<>>)
        /\ wire' = <<>> /\ srv' = [srv EXCEPT !.open = FALSE, !.todo = <<>>]
    BY DEF Cancel, Lost
  <1>3. srv' \in ServerType /\ srv'.todo = <<>> /\ ~srv'.open
    BY <1>2, HcFacts, LostServer
  <1>4. <<>> \in Seq(UnitType)
    OBVIOUS
  <1>5. HcRight'
    BY <1>1, <1>2, <1>3, <1>4, HcFacts DEF HcRight, HcTypeOK, Units
  <1>6. Unspoilt'
    <2>1. Stream' = <<>>
      BY <1>2, <1>3, <1>4, NothingLeft DEF Stream
    <2> QED
      BY <1>1, <1>2, <2>1 DEF HcInv, Unspoilt, StreamIsOwn, AreaIsOwn
  <1> QED
    BY <1>1, <1>2, <1>3, <1>5, <1>6, HcFacts DEF HcInv, FinishedOnce, ReadRight, RetryRight, LinkRight, Connected

\* A request that ends keeps what the client has read and knows.
LEMMA EndsFields ==
  ASSUME HcInv, hc.op # "none", hc' = Finished(hc)
  PROVE  /\ hc' \in HcType /\ ~hc'.busy /\ hc'.op = "none" /\ hc'.told = 1 /\ hc'.req = hc.req /\ hc'.conn = hc.conn
         /\ hc'.reconnect = hc.reconnect /\ hc'.tries = hc.tries /\ hc'.answered = hc.answered
  <1>1. hc.told + 1 \in 0 .. 2 /\ hc.told + 1 = 1
    BY HcFacts
  <1> QED
    BY <1>1, HcFacts DEF Finished, HcType

\* What does not depend on the streams, when a request ends.
LEMMA EndKeeps ==
  ASSUME HcInv, hc.op # "none", hc' = Finished(hc), UNCHANGED <<wire, srv>>,
         HcRight', Unspoilt'
  PROVE  HcInv'
  BY EndsFields DEF HcInv, FinishedOnce, ReadRight, RetryRight, LinkRight, Connected

LEMMA OnConnectKeeps ==
  ASSUME HcInv, OnConnect
  PROVE  HcInv'
  <1>1. hc.op = "connecting" /\ ~hc.conn /\ UNCHANGED <<inbuf, area, chunk, wire, body, spoilt>>
    BY DEF OnConnect, HcInv, LinkRight
  <1>2. CASE hc' = [hc EXCEPT !.conn = TRUE, !.op = IF hc.ssl THEN "ssl" ELSE "writing"]
             /\ srv' = [srv EXCEPT !.open = TRUE, !.todo = <<>>]
    <2>1. /\ hc' \in HcType /\ hc'.busy /\ hc'.op \in {"ssl", "writing"} /\ hc'.told = 0 /\ hc'.req = hc.req /\ hc'.conn
          /\ hc'.reconnect = hc.reconnect /\ hc'.tries = hc.tries /\ hc'.answered = hc.answered
      BY <1>1, <1>2, HcFacts DEF HcType
    <2>2. srv' \in ServerType /\ srv'.todo = <<>> /\ srv'.open
      BY <1>2, HcFacts, LostServer
    <2>3. HcRight'
      BY <1>1, <2>1, <2>2, HcFacts DEF HcRight, HcTypeOK, Units
    <2>4. Unspoilt'
      <3>1. ~spoilt => inbuf = <<>> /\ wire = <<>> /\ area = <<>>
        BY <1>1, AtRestIsEmpty
      <3>2. ~spoilt => Stream' = <<>>
        BY <1>1, <2>2, <2>3, <3>1, NothingLeft DEF Stream, HcRight, ServerType, Units
      <3> QED
        BY <1>1, <2>1, <3>1, <3>2 DEF Unspoilt, StreamIsOwn, AreaIsOwn, HcInv
    <2> QED
      BY <1>1, <2>1, <2>2, <2>3, <2>4 DEF HcInv, FinishedOnce, ReadRight, RetryRight, LinkRight, Connected
  <1>3. CASE hc' = Finished([hc EXCEPT !.conn = FALSE]) /\ srv' = srv
    <2>1. [hc EXCEPT !.conn = FALSE] = hc
      BY <1>1, HcFacts DEF HcType
    <2>2. hc' = Finished(hc) /\ hc.op # "none"
      BY <1>1, <1>3, <2>1
    <2>3. HcRight'
      BY <1>1, <1>3, <2>2, EndsFields, HcFacts DEF HcRight, HcTypeOK, Units
    <2>4. Unspoilt'
      BY <1>1, <1>3, <2>2, EndsFields DEF Unspoilt, StreamIsOwn, AreaIsOwn, HcInv, Stream
    <2> QED
      BY <1>1, <1>3, <2>2, <2>3, <2>4, EndKeeps
  <1> QED
    BY <1>2, <1>3 DEF OnConnect

LEMMA OnSslConnectKeeps ==
  ASSUME HcInv, OnSslConnect
  PROVE  HcInv'
  <1>1. hc.op = "ssl" /\ hc.conn /\ UNCHANGED <<inbuf, area, chunk, wire, srv, body>>
    BY DEF OnSslConnect, HcInv, LinkRight, Connected
  <1>2. CASE hc' = [hc EXCEPT !.op = "writing"] /\ spoilt' = spoilt
    <2>1. /\ hc' \in HcType /\ hc'.busy /\ hc'.op = "writing" /\ hc'.told = 0 /\ hc'.req = hc.req /\ hc'.conn
          /\ hc'.reconnect = hc.reconnect /\ hc'.tries = hc.tries /\ hc'.answered = hc.answered
      BY <1>1, <1>2, HcFacts DEF HcType
    <2>2. HcRight'
      BY <1>1, <1>2, <2>1, HcFacts DEF HcRight, HcTypeOK, Units
    <2>3. Unspoilt'
      BY <1>1, <1>2, <2>1 DEF Unspoilt, StreamIsOwn, AreaIsOwn, HcInv, Stream
    <2> QED
      BY <1>1, <2>1, <2>2, <2>3 DEF HcInv, FinishedOnce, ReadRight, RetryRight, LinkRight, Connected
  <1>3. CASE hc' = Finished(hc) /\ spoilt'
    <2>1. HcRight'
      BY <1>1, <1>3, EndsFields, HcFacts DEF HcRight, HcTypeOK, Units, OnSslConnect
    <2>2. Unspoilt'
      BY <1>3 DEF Unspoilt
    <2> QED
      BY <1>1, <1>3, <2>1, <2>2, EndKeeps
  <1> QED
    BY <1>2, <1>3 DEF OnSslConnect

\* An error of the socket: the request is sent again once, or ends.
LEMMA FailsWithKeeps ==
  ASSUME HcInv, hc.op \in {"writing", "reading"}, ~srv.open, hc.op = "reading" => wire = <<>>,
         NEW mayRetry \in BOOLEAN, FailsWith(mayRetry), UNCHANGED <<area, chunk, body>>
  PROVE  HcInv'
  <1>1. hc.op # "none" /\ hc.op # "loop" /\ hc.conn /\ srv.todo = <<>>
    BY DEF HcInv, LinkRight, Connected
  <1>2. ~spoilt => inbuf = <<>> /\ wire = <<>> /\ area = <<>>
    <2>1. CASE hc.op = "writing"
      BY <2>1, AtRestIsEmpty
    <2>2. CASE hc.op = "reading"
      BY <2>2 DEF HcInv, Unspoilt, AreaIsOwn
    <2> QED
      BY <2>1, <2>2
  <1>0. <<>> \in Seq(UnitType)
    OBVIOUS
  <1>3. CASE mayRetry /\ hc.reconnect
    <2>1. /\ hc' = [hc EXCEPT !.op = "connecting", !.conn = FALSE, !.reconnect = FALSE, !.tries = @ + 1]
          /\ wire' = <<>> /\ srv' = [srv EXCEPT !.open = FALSE, !.todo = <<>>]
          /\ inbuf' = <<>> /\ spoilt' = spoilt
      BY <1>3 DEF FailsWith, Lost
    <2>2. hc.tries + 1 \in 0 .. 3
      BY <1>3 DEF HcInv, RetryRight
    <2>3. /\ hc' \in HcType /\ hc'.busy /\ hc'.op = "connecting" /\ hc'.told = 0 /\ hc'.req = hc.req /\ ~hc'.conn
          /\ ~hc'.reconnect
      BY <1>1, <2>1, <2>2, HcFacts DEF HcType
    <2>4. srv' \in ServerType /\ srv'.todo = <<>> /\ ~srv'.open
      BY <2>1, HcFacts, LostServer
    <2>5. HcRight'
      BY <1>0, <2>1, <2>3, <2>4, HcFacts DEF HcRight, HcTypeOK, Units
    <2>6. Unspoilt'
      <3>1. Stream' = <<>>
        BY <1>0, <2>1, <2>4, NothingLeft DEF Stream
      <3> QED
        BY <1>2, <2>1, <2>3, <3>1 DEF Unspoilt, StreamIsOwn, AreaIsOwn, HcInv
    <2> QED
      BY <2>1, <2>3, <2>4, <2>5, <2>6 DEF HcInv, FinishedOnce, ReadRight, RetryRight, LinkRight, Connected
  <1>4. CASE ~(mayRetry /\ hc.reconnect)
    <2>1. hc' = Finished(hc) /\ spoilt' = spoilt /\ UNCHANGED <<inbuf, wire, srv>>
      BY <1>4, HcFacts DEF FailsWith
    <2>2. HcRight'
      BY <1>1, <2>1, EndsFields, HcFacts DEF HcRight, HcTypeOK, Units
    <2>3. Unspoilt'
      <3>1. ~spoilt => Stream = <<>>
        BY <1>1, <1>2, HcFacts, NothingLeft DEF Stream
      <3>2. Stream' = Stream
        BY <2>1 DEF Stream
      <3> QED
        BY <1>1, <1>2, <2>1, <3>1, <3>2, EndsFields DEF Unspoilt, StreamIsOwn, AreaIsOwn, HcInv
    <2> QED
      BY <1>1, <2>1, <2>2, <2>3, EndKeeps
  <1> QED
    BY <1>3, <1>4

LEMMA OnOutputKeeps ==
  ASSUME HcInv, OnOutput
  PROVE  HcInv'
  <1>1. hc.op = "writing" /\ hc.conn /\ UNCHANGED <<area, chunk, body>>
    BY DEF OnOutput, HcInv, LinkRight, Connected
  <1>2. CASE ~srv.open /\ FailsWith(TRUE)
    BY <1>1, <1>2, FailsWithKeeps
  <1>3. CASE /\ hc' = [hc EXCEPT !.op = "reading", !.readHeader = TRUE, !.parsed = FALSE]
             /\ IF srv.open
                THEN \E s \in Shapes : srv' = [srv EXCEPT !.todo = @ \o ReplyOf(hc.req, s), !.closes = ~s.keep]
                ELSE UNCHANGED srv
             /\ UNCHANGED <<inbuf, wire, spoilt>>
    <2>1. /\ hc' \in HcType /\ hc'.busy /\ hc'.op = "reading" /\ hc'.told = 0 /\ hc'.req = hc.req /\ hc'.conn
          /\ hc'.reconnect = hc.reconnect /\ hc'.tries = hc.tries /\ hc'.answered = hc.answered
          /\ hc'.readHeader
      BY <1>1, <1>3, HcFacts DEF HcType
    <2>2. /\ srv' \in ServerType /\ srv'.open = srv.open /\ (~srv.open => srv' = srv)
          /\ srv.todo = <<>> => \/ srv'.todo = <<>>
                                \/ \E s \in Shapes : srv'.todo = ReplyOf(hc.req, s)
      <3>1. CASE ~srv.open
        BY <1>3, <3>1, HcFacts
      <3>2. CASE srv.open
        <4>1. PICK s \in Shapes : srv' = [srv EXCEPT !.todo = @ \o ReplyOf(hc.req, s), !.closes = ~s.keep]
          BY <1>3, <3>2
        <4> DEFINE a == ReplyOf(hc.req, s)
                   b == srv.todo \o a
        <4>2. a \in Seq(UnitType)
          BY HcFacts, ReplyFacts DEF Units
        <4> HIDE DEF a
        <4>3. b \in Seq(UnitType) /\ (srv.todo = <<>> => b = a)
          BY <4>2, HcFacts, JoinFacts, EmptyFacts
        <4>4. srv' = [srv EXCEPT !.todo = b, !.closes = ~s.keep]
          BY <4>1 DEF a
        <4> HIDE DEF b
        <4>5. srv' \in ServerType /\ srv'.open = srv.open /\ srv'.todo = b
          BY <4>3, <4>4, HcFacts DEF ServerType, Units
        <4> QED
          BY <3>2, <4>3, <4>5 DEF a
      <3> QED
        BY <3>1, <3>2
    <2>3. HcRight'
      BY <1>1, <1>3, <2>1, <2>2, HcFacts DEF HcRight, HcTypeOK, Units
    <2>4. Unspoilt'
      <3> SUFFICES ASSUME ~spoilt'
                   PROVE  StreamIsOwn' /\ AreaIsOwn' /\ (\A i \in 1 .. Len(body) : body[i].req = hc.req)'
        BY DEF Unspoilt
      <3>1. ~spoilt
        BY <1>3
      <3>2. inbuf = <<>> /\ wire = <<>> /\ area = <<>> /\ srv.todo = <<>>
        BY <1>1, <3>1, AtRestIsEmpty
      <3>3. Stream' = srv'.todo
        <4>1. srv'.todo \in Seq(UnitType)
          BY <2>2 DEF ServerType, Units
        <4> QED
          BY <1>3, <3>2, <4>1, EmptyFacts DEF Stream
      <3>4. OwnUnits(Stream', hc.req) /\ NoSurplus(Stream', TRUE, hc'.shape, hc'.left)
        <4>1. CASE srv'.todo = <<>>
          BY <3>3, <4>1 DEF OwnUnits, NoSurplus
        <4>2. CASE \E s \in Shapes : srv'.todo = ReplyOf(hc.req, s)
          <5>1. PICK s \in Shapes : srv'.todo = ReplyOf(hc.req, s)
            BY <4>2
          <5> QED
            BY <3>3, <5>1, HcFacts, ReplyFacts
        <4> QED
          BY <2>2, <3>2, <4>1, <4>2
      <3>5. NoSurplus(Stream', hc'.readHeader, hc'.shape, hc'.left)
        BY <2>1, <3>4 DEF NoSurplus
      <3> QED
        BY <1>1, <1>3, <2>1, <3>1, <3>2, <3>4, <3>5 DEF Unspoilt, StreamIsOwn, AreaIsOwn, HcInv
    <2> QED
      <3>1. LinkRight'
        BY <1>1, <1>3, <2>1, <2>2 DEF HcInv, LinkRight, Connected
      <3>2. ReadRight' /\ RetryRight' /\ FinishedOnce'
        BY <2>1 DEF HcInv, ReadRight, RetryRight, FinishedOnce
      <3> QED
        BY <2>3, <2>4, <3>1, <3>2 DEF HcInv
  <1> QED
    BY <1>1, <1>2, <1>3 DEF OnOutput

LEMMA BodyThrowsKeeps ==
  ASSUME HcInv, BodyThrows
  PROVE  HcInv'
  <1>1. hc.op = "loop" /\ hc' = Finished(hc) /\ spoilt' = TRUE /\ UNCHANGED <<inbuf, area, chunk, wire, srv, body>>
    BY DEF BodyThrows
  <1>2. HcRight'
    BY <1>1, EndsFields, HcFacts DEF HcRight, HcTypeOK, Units
  <1>3. Unspoilt'
    BY <1>1 DEF Unspoilt
  <1> QED
    BY <1>1, <1>2, <1>3, EndKeeps

\* Some of what has arrived is read.
ReadSome(n) ==
  /\ n \in 1 .. Len(wire)
  /\ hc' = [hc EXCEPT !.op = IF hc.readHeader THEN "header" ELSE "body", !.reconnect = FALSE, !.answered = TRUE]
  /\ inbuf' = inbuf \o SubSeq(wire, 1, n) /\ wire' = SubSeq(wire, n + 1, Len(wire))
  /\ UNCHANGED <<srv, spoilt, area, chunk, body>>

LEMMA ReadSomeKeeps ==
  ASSUME HcInv, hc.op = "reading", NEW n, ReadSome(n)
  PROVE  HcInv'
  <1>0. hc.conn /\ Len(wire) \in Nat /\ n \in 0 .. Len(wire)
    BY HcFacts DEF HcInv, LinkRight, Connected, ReadSome
  <1>1. /\ hc' \in HcType /\ hc'.busy /\ hc'.op \in {"header", "body"} /\ hc'.told = 0 /\ hc'.req = hc.req /\ hc'.conn
        /\ ~hc'.reconnect /\ hc'.readHeader = hc.readHeader /\ hc'.shape = hc.shape /\ hc'.left = hc.left
        /\ (hc'.op = "header" <=> hc.readHeader)
        /\ UNCHANGED <<srv, spoilt, area, chunk, body>>
    BY <1>0, HcFacts DEF ReadSome, HcType
  <1>2. SubSeq(wire, 1, n) \in Seq(UnitType) /\ SubSeq(wire, n + 1, Len(wire)) \in Seq(UnitType)
    BY <1>0, HcFacts, CutFacts
  <1>3. inbuf' \in Seq(UnitType) /\ wire' \in Seq(UnitType)
    <2>1. inbuf \o SubSeq(wire, 1, n) \in Seq(UnitType)
      BY <1>2, HcFacts, JoinFacts
    <2> QED
      BY <1>2, <2>1 DEF ReadSome
  <1>4. HcRight'
    BY <1>1, <1>3, HcFacts DEF HcRight, HcTypeOK, Units
  <1>5. Stream' = Stream
    <2>1. inbuf \in Seq(UnitType) /\ wire \in Seq(UnitType) /\ srv.todo \in Seq(UnitType)
      BY HcFacts
    <2> DEFINE f == SubSeq(wire, 1, n)
               g == SubSeq(wire, n + 1, Len(wire))
               c == srv.todo
    <2>2. f \o g = wire
      BY <1>0, <2>1, CutAndJoined
    <2>3. f \in Seq(UnitType) /\ g \in Seq(UnitType) /\ c \in Seq(UnitType)
      BY <1>2, <2>1
    <2> HIDE DEF f, g, c
    <2> DEFINE d == g \o c
    <2>4. d \in Seq(UnitType)
      BY <2>3, JoinFacts
    <2>5. f \o d = wire \o c
      <3>1. \A x, y \in Seq(UnitType) : (x \o y) \o c = x \o (y \o c)
        BY <2>3, JoinIsAssociative
      <3> QED
        BY <2>2, <2>3, <3>1
    <2> HIDE DEF d
    <2>6. (inbuf \o f) \o d = inbuf \o (f \o d)
      <3>1. \A x, y \in Seq(UnitType) : (x \o y) \o d = x \o (y \o d)
        BY <2>4, JoinIsAssociative
      <3> QED
        BY <2>1, <2>3, <3>1
    <2>7. inbuf' = inbuf \o f /\ wire' = g /\ srv' = srv
      BY DEF f, g, ReadSome
    <2> QED
      BY <2>5, <2>6, <2>7 DEF Stream, c, d
  <1>6. Unspoilt'
    BY <1>1, <1>5 DEF Unspoilt, StreamIsOwn, AreaIsOwn, HcInv
  <1>7. LinkRight'
    BY <1>0, <1>1 DEF HcInv, LinkRight, Connected
  <1> QED
    BY <1>1, <1>4, <1>6, <1>7 DEF HcInv, FinishedOnce, ReadRight, RetryRight

LEMMA OnInputKeeps ==
  ASSUME HcInv, OnInput
  PROVE  HcInv'
  <1>1. CASE wire = <<>> /\ ~srv.open /\ FailsWith(hc.readHeader)
    <2>1. hc.readHeader \in BOOLEAN
      BY HcFacts DEF HcType
    <2> QED
      BY <1>1, <2>1, FailsWithKeeps DEF OnInput
  <1>2. CASE \E n \in 1..Len(wire) :
          /\ hc' = [hc EXCEPT !.op = IF hc.readHeader THEN "header" ELSE "body", !.reconnect = FALSE, !.answered = TRUE]
          /\ inbuf' = inbuf \o SubSeq(wire, 1, n) /\ wire' = SubSeq(wire, n + 1, Len(wire))
          /\ UNCHANGED <<srv, spoilt>>
    BY <1>2, ReadSomeKeeps DEF OnInput, ReadSome
  <1> QED
    BY <1>1, <1>2 DEF OnInput

LEMMA ServerSendsKeeps ==
  ASSUME HcInv, ServerSends
  PROVE  HcInv'
  <1>1. /\ srv.open /\ srv.todo # <<>> /\ wire' = Append(wire, srv.todo[1]) /\ srv' = [srv EXCEPT !.todo = Tail(@)]
        /\ UNCHANGED <<hc, inbuf, area, chunk, body, spoilt>>
    BY DEF ServerSends
  <1>2. /\ wire' \in Seq(UnitType) /\ Tail(srv.todo) \in Seq(UnitType)
        /\ wire' \o Tail(srv.todo) = wire \o srv.todo
    <2>1. wire \in Seq(UnitType) /\ srv.todo \in Seq(UnitType)
      BY HcFacts
    <2> DEFINE c == srv.todo
    <2>2. c # <<>> /\ c \in Seq(UnitType)
      BY <1>1, <2>1
    <2> HIDE DEF c
    <2>3. /\ Append(wire, c[1]) \in Seq(UnitType) /\ Tail(c) \in Seq(UnitType)
          /\ Append(wire, c[1]) \o Tail(c) = wire \o c
      BY <2>1, <2>2, Sends
    <2> QED
      BY <1>1, <2>3 DEF c
  <1>3. srv' \in ServerType /\ srv'.open /\ srv'.todo = Tail(srv.todo)
    BY <1>1, <1>2, HcFacts DEF ServerType, Units
  <1>4. Stream' = Stream
    BY <1>1, <1>2, <1>3 DEF Stream
  <1>5. HcRight'
    BY <1>1, <1>2, <1>3, HcFacts DEF HcInv, HcRight, HcTypeOK, Units
  <1>6. Unspoilt'
    BY <1>1, <1>4 DEF HcInv, Unspoilt, StreamIsOwn, AreaIsOwn
  <1> QED
    BY <1>1, <1>3, <1>5, <1>6 DEF HcInv, FinishedOnce, ReadRight, RetryRight, LinkRight, Connected

\* A server that closes may cut a reply off.
LEMMA ServerClosesKeeps ==
  ASSUME HcInv, ServerCloses
  PROVE  HcInv'
  <1>1. srv.open /\ UNCHANGED <<hc, inbuf, area, chunk, wire, body, spoilt>>
    BY DEF ServerCloses
  <1>2. srv' \in ServerType /\ ~srv'.open /\ srv'.todo = <<>>
    <2>1. CASE srv.todo = <<>> /\ srv' = [srv EXCEPT !.open = FALSE]
      BY <2>1, HcFacts DEF ServerType
    <2>2. CASE srv.losses < MaxLoss /\ srv' = [srv EXCEPT !.open = FALSE, !.todo = <<>>, !.losses = @ + 1]
      <3>1. srv.losses + 1 \in 0 .. MaxLoss /\ <<>> \in Units
        BY <2>2, HcFacts DEF ServerType, Units
      <3> QED
        BY <2>2, <3>1, HcFacts DEF ServerType
    <2> QED
      BY <2>1, <2>2 DEF ServerCloses
  <1>3. HcRight'
    BY <1>1, <1>2, HcFacts DEF HcInv, HcRight, HcTypeOK, Units
  <1>4. Unspoilt'
    <2> SUFFICES ASSUME ~spoilt
                 PROVE  StreamIsOwn' /\ AreaIsOwn'
      BY <1>1 DEF HcInv, Unspoilt
    <2> DEFINE s == inbuf \o wire
    <2>1. s \in Seq(UnitType) /\ srv.todo \in Seq(UnitType)
      BY HcFacts, JoinFacts
    <2>2. Stream = s \o srv.todo
      <3>1. inbuf \in Seq(UnitType) /\ wire \in Seq(UnitType) /\ srv.todo \in Seq(UnitType)
        BY HcFacts
      <3>2. \A c \in Seq(UnitType) : (inbuf \o wire) \o c = inbuf \o (wire \o c)
        BY <3>1, JoinIsAssociative
      <3> QED
        BY <3>1, <3>2 DEF Stream
    <2>3. Stream' = s
      <3>1. wire \o <<>> = wire
        BY HcFacts, EmptyFacts
      <3> QED
        BY <1>1, <1>2, <3>1 DEF Stream
    <2>4. AreaIsOwn'
      BY <1>1 DEF HcInv, Unspoilt, AreaIsOwn
    <2>5. StreamIsOwn'
      <3>1. CASE hc.op \in {"reading", "header", "body", "loop"}
        <4>1. OwnUnits(s \o srv.todo, hc.req) /\ NoSurplus(s \o srv.todo, hc.readHeader, hc.shape, hc.left)
          BY <2>2, <3>1 DEF HcInv, Unspoilt, StreamIsOwn
        <4> HIDE DEF s
        <4>2. OwnUnits(s, hc.req)
          BY <2>1, <4>1, OwnFront DEF Units
        <4>3. NoSurplus(s, hc.readHeader, hc.shape, hc.left)
          BY <2>1, <4>1, HcFacts, SurplusFront DEF Units
        <4> QED
          BY <1>1, <2>3, <3>1, <4>2, <4>3 DEF StreamIsOwn
      <3>2. CASE ~(hc.op \in {"reading", "header", "body", "loop"})
        <4>1. inbuf = <<>> /\ wire = <<>>
          BY <3>2, AtRestIsEmpty
        <4>2. <<>> \in Seq(UnitType)
          OBVIOUS
        <4>3. Stream' = <<>>
          BY <1>1, <1>2, <4>1, <4>2, NothingLeft DEF Stream
        <4> QED
          BY <1>1, <3>2, <4>3 DEF StreamIsOwn
      <3> QED
        BY <3>1, <3>2
    <2> QED
      BY <2>4, <2>5
  <1> QED
    BY <1>1, <1>2, <1>3, <1>4 DEF HcInv, FinishedOnce, ReadRight, RetryRight, LinkRight, Connected

-----------------------------------------------------------------------------
(* Units are taken out of the buffer.                                      *)

\* What is still to take behind the first m units in the buffer.
Behind(m) == SubSeq(inbuf, m + 1, Len(inbuf)) \o (wire \o srv.todo)

LEMMA BehindFacts ==
  ASSUME HcInv, NEW m \in 0 .. Len(inbuf)
  PROVE  /\ m \in 0 .. Len(Stream) /\ m \in Nat /\ Stream \in Units /\ Behind(m) \in Units
         /\ SubSeq(inbuf, m + 1, Len(inbuf)) \in Seq(UnitType)
         /\ Behind(m) = SubSeq(Stream, m + 1, Len(Stream)) /\ Len(Behind(m)) = Len(Stream) - m /\ Len(Stream) \in Nat
         /\ \A r : OwnUnits(Stream, r) => OwnUnits(Behind(m), r)
         /\ \A shape, n : NoSurplus(Stream, TRUE, shape, n) => NoSurplus(Behind(m), TRUE, shape, n)
         /\ Behind(m) = <<>> <=> SubSeq(inbuf, m + 1, Len(inbuf)) = <<>> /\ wire = <<>> /\ srv.todo = <<>>
  <1> DEFINE d == wire \o srv.todo
             f == SubSeq(inbuf, m + 1, Len(inbuf))
  <1>1. wire \in Seq(UnitType) /\ srv.todo \in Seq(UnitType) /\ inbuf \in Seq(UnitType)
    BY HcFacts
  <1>2. d \in Seq(UnitType)
    BY <1>1, JoinFacts
  <1>3. f \in Seq(UnitType)
    BY <1>1, CutFacts
  <1> HIDE DEF f
  <1>4. f \o (wire \o srv.todo) = <<>> <=> f = <<>> /\ wire = <<>> /\ srv.todo = <<>>
    BY <1>1, <1>3, NothingLeft
  <1>5. Stream = inbuf \o d /\ Behind(m) = f \o d
    BY DEF Stream, Behind, f
  <1> HIDE DEF d
  <1>6. m \in 0 .. Len(inbuf \o d) /\ f \o d = SubSeq(inbuf \o d, m + 1, Len(inbuf \o d))
    BY <1>1, <1>2, TakenFromFront DEF f
  <1>7. m \in 0 .. Len(Stream) /\ Behind(m) = SubSeq(Stream, m + 1, Len(Stream))
    BY <1>5, <1>6
  <1>8. Stream \in Seq(UnitType)
    BY <1>1, <1>2, <1>5, JoinFacts
  <1>9. Behind(m) \in Seq(UnitType) /\ Len(Behind(m)) = Len(Stream) - m /\ Len(Stream) \in Nat /\ m \in Nat
    BY <1>7, <1>8, CutFacts
  <1>10. \A r : OwnUnits(Stream, r) => OwnUnits(Behind(m), r)
    BY <1>7, <1>8, OwnRest DEF Units
  <1>11. \A shape, n : NoSurplus(Stream, TRUE, shape, n) => NoSurplus(Behind(m), TRUE, shape, n)
    BY <1>7, <1>8, SurplusRest DEF Units
  <1>12. Behind(m) = <<>> <=> f = <<>> /\ wire = <<>> /\ srv.todo = <<>>
    BY <1>4, <1>5 DEF d
  <1> QED
    BY <1>3, <1>7, <1>8, <1>9, <1>10, <1>11, <1>12 DEF Units, f

\* The first m units in the buffer are taken.
Takes(m) == m \in 0 .. Len(inbuf) /\ inbuf' = SubSeq(inbuf, m + 1, Len(inbuf)) /\ UNCHANGED <<wire, srv>>

LEMMA TakesFacts ==
  ASSUME HcInv, NEW m, Takes(m)
  PROVE  /\ Stream' = Behind(m) /\ inbuf' \in Seq(UnitType)
         /\ \A r : OwnUnits(Stream, r) => OwnUnits(Stream', r)
         /\ \A shape, n : NoSurplus(Stream, TRUE, shape, n) => NoSurplus(Stream', TRUE, shape, n)
  <1>1. Stream' = Behind(m)
    BY DEF Stream, Behind, Takes
  <1>2. m \in 0 .. Len(inbuf) /\ inbuf' = SubSeq(inbuf, m + 1, Len(inbuf))
    BY DEF Takes
  <1>3. SubSeq(inbuf, m + 1, Len(inbuf)) \in Seq(UnitType)
    BY <1>2, BehindFacts
  <1>4. \A r : OwnUnits(Stream, r) => OwnUnits(Behind(m), r)
    BY <1>2, BehindFacts
  <1>5. \A shape, n : NoSurplus(Stream, TRUE, shape, n) => NoSurplus(Behind(m), TRUE, shape, n)
    BY <1>2, BehindFacts
  <1> QED
    BY <1>1, <1>2, <1>3, <1>4, <1>5

\* A buffer that is empty behind the step has lost all its units.
LEMMA TakesAll ==
  ASSUME HcInv, inbuf' = <<>>, UNCHANGED <<wire, srv>>
  PROVE  Takes(Len(inbuf))
  <1>1. inbuf \in Seq(UnitType)
    BY HcFacts
  <1>2. Len(inbuf) \in Nat /\ Len(inbuf) \in 0 .. Len(inbuf)
    BY <1>1
  <1>3. SubSeq(inbuf, Len(inbuf) + 1, Len(inbuf)) = <<>>
    BY <1>1, <1>2
  <1> QED
    BY <1>2, <1>3 DEF Takes

\* Where the header ends, in what the client has read.
HeadEnds == {i \in DOMAIN inbuf : inbuf[i].kind = "head"}
HeadEnd == CHOOSE i \in HeadEnds : \A j \in HeadEnds : i <= j

LEMMA HeadEndFacts ==
  ASSUME HcInv, HeadEnds # {}
  PROVE  /\ HeadEnd \in 1 .. Len(inbuf) /\ inbuf[HeadEnd].kind = "head" /\ inbuf[HeadEnd].shape \in Shapes
         /\ Stream[HeadEnd] = inbuf[HeadEnd] /\ HeadEnd \in 1 .. Len(Stream)
  <1>1. inbuf \in Seq(UnitType) /\ wire \in Seq(UnitType) /\ srv.todo \in Seq(UnitType)
    BY HcFacts
  <1>2. HeadEnds \in SUBSET Nat
    BY <1>1 DEF HeadEnds
  <1>3. HeadEnd \in HeadEnds
    BY <1>2, FirstPlace DEF HeadEnd
  <1>4. HeadEnd \in 1 .. Len(inbuf) /\ inbuf[HeadEnd].kind = "head" /\ inbuf[HeadEnd] \in UnitType
    BY <1>1, <1>3 DEF HeadEnds
  <1>5. inbuf[HeadEnd].shape \in Shapes
    BY <1>4, UnitFacts
  <1>6. /\ Len(Stream) = Len(inbuf) + (Len(wire) + Len(srv.todo))
        /\ Len(inbuf) \in Nat /\ Len(wire) \in Nat /\ Len(srv.todo) \in Nat
        /\ \A i \in 1 .. Len(inbuf) : Stream[i] = inbuf[i]
    BY <1>1, StreamFacts DEF Stream
  <1> QED
    BY <1>4, <1>5, <1>6

-----------------------------------------------------------------------------
(* Headers.                                                                *)

\* The header goes on: what was read is a part of it.
LEMMA HeaderGoesOn ==
  ASSUME HcInv, hc.op = "header", hc' = [hc EXCEPT !.op = "reading"], inbuf' = <<>>,
         UNCHANGED <<area, chunk, wire, srv, spoilt, body>>
  PROVE  HcInv'
  <1>1. Takes(Len(inbuf))
    BY TakesAll
  <1>2. /\ hc' \in HcType /\ hc'.busy /\ hc'.op = "reading" /\ hc'.told = 0 /\ hc'.req = hc.req /\ hc'.conn /\ hc.conn
        /\ hc'.reconnect = hc.reconnect /\ hc'.tries = hc.tries /\ hc'.answered = hc.answered
        /\ hc.readHeader /\ hc'.readHeader /\ hc'.shape = hc.shape /\ hc'.left = hc.left
    BY HcFacts DEF HcInv, LinkRight, ReadRight, Connected, HcType
  <1>3. HcRight'
    BY <1>1, <1>2, TakesFacts, HcFacts DEF HcRight, HcTypeOK, Units
  <1>4. Unspoilt'
    <2> SUFFICES ASSUME ~spoilt
                 PROVE  StreamIsOwn' /\ AreaIsOwn' /\ (\A i \in 1 .. Len(body) : body[i].req = hc.req)'
      BY DEF Unspoilt
    <2>1. /\ OwnUnits(Stream, hc.req) /\ NoSurplus(Stream, TRUE, hc.shape, hc.left)
      BY <1>2 DEF HcInv, Unspoilt, StreamIsOwn, NoSurplus
    <2>2. OwnUnits(Stream', hc.req) /\ NoSurplus(Stream', TRUE, hc.shape, hc.left)
      BY <1>1, <2>1, TakesFacts
    <2>3. NoSurplus(Stream', hc'.readHeader, hc'.shape, hc'.left)
      BY <1>2, <2>2 DEF NoSurplus
    <2> QED
      BY <1>2, <2>2, <2>3 DEF HcInv, Unspoilt, StreamIsOwn, AreaIsOwn
  <1> QED
    BY <1>2, <1>3, <1>4 DEF HcInv, FinishedOnce, ReadRight, RetryRight, LinkRight, Connected

\* What the client knows behind a header of shape s.
Announced(s) ==
  [hc EXCEPT !.readHeader = FALSE, !.parsed = TRUE, !.shape = s, !.eod = FALSE, !.left = IF s.chunked THEN 0 ELSE s.n]

LEMMA AnnouncedFields ==
  ASSUME HcInv, hc.op = "header", NEW s \in Shapes, NEW c, c = Announced(s)
  PROVE  /\ c \in HcType /\ c.op = "header" /\ c.busy /\ c.told = 0 /\ c.req = hc.req /\ c.conn /\ ~c.readHeader
         /\ c.reconnect = hc.reconnect /\ c.tries = hc.tries /\ c.answered = hc.answered
         /\ c.shape = s /\ (~s.chunked => c.left = s.n)
  <1> DEFINE n == IF s.chunked THEN 0 ELSE s.n
  <1>1. n \in 0 .. MaxBody /\ (~s.chunked => n = s.n)
    BY ShapeFacts, HcAssumption
  <1>2. c = [hc EXCEPT !.readHeader = FALSE, !.parsed = TRUE, !.shape = s, !.eod = FALSE, !.left = n]
    BY DEF Announced
  <1> HIDE DEF n
  <1>3. c \in HcType
    BY <1>1, <1>2, HcFacts DEF HcType
  <1> QED
    BY <1>1, <1>2, <1>3, HcFacts DEF HcType, HcInv, LinkRight, Connected

\* Behind a header follows no more than it announces.
LEMMA BehindHeader ==
  ASSUME HcInv, ~spoilt, hc.op = "header", HeadEnds # {}
  PROVE  /\ OwnUnits(Behind(HeadEnd), hc.req)
         /\ ~inbuf[HeadEnd].shape.chunked => Len(Behind(HeadEnd)) <= inbuf[HeadEnd].shape.n
  <1> DEFINE i == HeadEnd
             s == inbuf[i].shape
  <1>1. OwnUnits(Stream, hc.req) /\ NoSurplus(Stream, hc.readHeader, hc.shape, hc.left) /\ hc.readHeader
    BY DEF HcInv, Unspoilt, StreamIsOwn, ReadRight
  <1>2. i \in 1 .. Len(Stream) /\ Stream[i].kind = "head" /\ Stream[i].shape = s /\ i \in 1 .. Len(inbuf)
    BY HeadEndFacts
  <1> HIDE DEF i
  <1>3. i \in 0 .. Len(inbuf)
    BY <1>2
  <1>4. Len(Behind(i)) = Len(Stream) - i /\ OwnUnits(Behind(i), hc.req)
    BY <1>1, <1>3, BehindFacts
  <1>5. ~s.chunked => Len(Stream) - i <= s.n
    BY <1>1, <1>2 DEF NoSurplus
  <1> QED
    BY <1>4, <1>5 DEF i

\* A header is read, and a body is awaited.
LEMMA HeaderReadKeeps ==
  ASSUME HcInv, hc.op = "header", HeadEnds # {}, Takes(HeadEnd), NEW s, s = inbuf[HeadEnd].shape,
         NEW op \in {"reading", "body"}, op = "reading" => inbuf' = <<>>, hc' = [Announced(s) EXCEPT !.op = op],
         chunk' \in {chunk, <<>>}, UNCHANGED <<area, spoilt, body>>
  PROVE  HcInv'
  <1>1. s \in Shapes
    BY HeadEndFacts
  <1>2. /\ hc' \in HcType /\ hc'.busy /\ hc'.op = op /\ hc'.told = 0 /\ hc'.req = hc.req /\ hc'.conn /\ ~hc'.readHeader
        /\ hc'.reconnect = hc.reconnect /\ hc'.tries = hc.tries /\ hc'.answered = hc.answered
        /\ hc'.shape = s /\ (~s.chunked => hc'.left = s.n)
    <2> DEFINE c == Announced(s)
    <2>1. hc' = [c EXCEPT !.op = op]
      OBVIOUS
    <2>2. /\ c \in HcType /\ c.busy /\ c.told = 0 /\ c.req = hc.req /\ c.conn /\ ~c.readHeader
          /\ c.reconnect = hc.reconnect /\ c.tries = hc.tries /\ c.answered = hc.answered
          /\ c.shape = s /\ (~s.chunked => c.left = s.n)
      BY <1>1, AnnouncedFields
    <2> HIDE DEF c
    <2> QED
      BY <2>1, <2>2 DEF HcType
  <1>3. inbuf' \in Seq(UnitType) /\ UNCHANGED <<wire, srv>>
    BY TakesFacts DEF Takes
  <1>4. <<>> \in Units
    BY DEF Units
  <1>5. HcRight'
    BY <1>2, <1>3, <1>4, HcFacts DEF HcRight, HcTypeOK, Units
  <1>6. Unspoilt'
    <2> SUFFICES ASSUME ~spoilt
                 PROVE  StreamIsOwn' /\ AreaIsOwn' /\ (\A i \in 1 .. Len(body) : body[i].req = hc.req)'
      BY DEF Unspoilt
    <2>1. OwnUnits(Stream', hc.req) /\ (~s.chunked => Len(Stream') <= s.n)
      BY BehindHeader, TakesFacts
    <2>2. NoSurplus(Stream', hc'.readHeader, hc'.shape, hc'.left)
      BY <1>2, <2>1 DEF NoSurplus
    <2>3. StreamIsOwn'
      BY <1>2, <2>1, <2>2 DEF StreamIsOwn
    <2>4. AreaIsOwn'
      BY <1>2 DEF HcInv, Unspoilt, AreaIsOwn
    <2>5. (\A i \in 1 .. Len(body) : body[i].req = hc.req)'
      BY <1>2 DEF HcInv, Unspoilt
    <2> QED
      BY <2>3, <2>4, <2>5
  <1>7. LinkRight'
    BY <1>2, <1>3 DEF HcInv, LinkRight, Connected
  <1> QED
    BY <1>2, <1>5, <1>6, <1>7 DEF HcInv, FinishedOnce, ReadRight, RetryRight

\* A socket that is closed when the reply does not keep it: what is known of the client and of the link.
LEMMA ClosesFields ==
  ASSUME NEW c \in HcType, c.told = 0, c.conn, srv \in ServerType, wire \in Seq(UnitType), srv.open \in BOOLEAN,
         ~srv.open => srv.todo = <<>>,
         hc' = Finished(Closes(c)), ClosesIf(~c.shape.keep)
  PROVE  /\ hc' \in HcType /\ ~hc'.busy /\ hc'.op = "none" /\ hc'.told = 1 /\ hc'.req = c.req
         /\ hc'.reconnect = c.reconnect /\ hc'.tries = c.tries /\ hc'.answered = c.answered
         /\ srv' \in ServerType /\ wire' \in {wire, <<>>} /\ srv'.todo \in {srv.todo, <<>>}
         /\ ~hc'.conn => ~srv'.open /\ wire' = <<>>
         /\ ~srv'.open => srv'.todo = <<>>
  <1>1. c.told + 1 \in 0 .. 2 /\ c.told + 1 = 1
    OBVIOUS
  <1>2. CASE c.shape.keep
    <2>1. hc' = [c EXCEPT !.op = "none", !.busy = FALSE, !.told = @ + 1] /\ UNCHANGED <<wire, srv>>
      BY <1>2 DEF Finished, Closes, ClosesIf
    <2> QED
      BY <1>1, <2>1 DEF HcType
  <1>3. CASE ~c.shape.keep
    <2>1. /\ hc' = [c EXCEPT !.conn = FALSE, !.op = "none", !.busy = FALSE, !.told = @ + 1]
          /\ wire' = <<>> /\ srv' = [srv EXCEPT !.open = FALSE, !.todo = <<>>]
      BY <1>3 DEF Finished, Closes, ClosesIf, Lost
    <2>2. srv' \in ServerType /\ srv'.todo = <<>> /\ ~srv'.open
      BY <2>1, LostServer
    <2>3. /\ hc' \in HcType /\ ~hc'.busy /\ hc'.op = "none" /\ hc'.told = 1 /\ hc'.req = c.req
          /\ hc'.reconnect = c.reconnect /\ hc'.tries = c.tries /\ hc'.answered = c.answered /\ ~hc'.conn
      <3>1. hc' = [c EXCEPT !.conn = FALSE, !.op = "none", !.busy = FALSE, !.told = 1]
        BY <2>1
      <3>2. 1 \in 0 .. 2
        OBVIOUS
      <3> QED
        BY <3>1, <3>2 DEF HcType
    <2> QED
      BY <2>1, <2>2, <2>3
  <1> QED
    BY <1>2, <1>3

\* A reply that is complete ends the request: nothing of it is left.
LEMMA CompleteKeeps ==
  ASSUME HcInv, hc.op # "none", hc.conn, NEW c \in HcType, c.told = 0, c.conn, c.req = hc.req,
         c.reconnect = hc.reconnect, c.tries = hc.tries, c.answered = hc.answered,
         hc' = Finished(Closes(c)), ClosesIf(~c.shape.keep),
         inbuf' \in Seq(UnitType), area' \in {area, <<>>}, chunk' \in {chunk, <<>>},
         UNCHANGED <<spoilt, body>>,
         ~spoilt => inbuf' = <<>> /\ wire = <<>> /\ srv.todo = <<>> /\ area' = <<>>
  PROVE  HcInv'
  <1>1. /\ srv \in ServerType /\ wire \in Seq(UnitType) /\ srv.open \in BOOLEAN /\ (~srv.open => srv.todo = <<>>)
    BY HcFacts DEF HcInv, LinkRight
  <1>2. /\ hc' \in HcType /\ ~hc'.busy /\ hc'.op = "none" /\ hc'.told = 1 /\ hc'.req = hc.req
        /\ hc'.reconnect = hc.reconnect /\ hc'.tries = hc.tries /\ hc'.answered = hc.answered
        /\ srv' \in ServerType /\ wire' \in {wire, <<>>} /\ srv'.todo \in {srv.todo, <<>>}
        /\ ~hc'.conn => ~srv'.open /\ wire' = <<>>
        /\ ~srv'.open => srv'.todo = <<>>
    BY <1>1, ClosesFields
  <1>3. <<>> \in Units
    BY DEF Units
  <1>4. HcRight'
    BY <1>2, <1>3, HcFacts DEF HcRight, HcTypeOK, Units
  <1>5. Unspoilt'
    <2> SUFFICES ASSUME ~spoilt
                 PROVE  StreamIsOwn' /\ AreaIsOwn' /\ (\A i \in 1 .. Len(body) : body[i].req = hc.req)'
      BY DEF Unspoilt
    <2>1. inbuf' = <<>> /\ wire' = <<>> /\ srv'.todo = <<>> /\ area' = <<>>
      BY <1>2
    <2>2. Stream' = <<>>
      BY <1>3, <2>1, NothingLeft DEF Stream, Units
    <2> QED
      BY <1>2, <2>1, <2>2 DEF HcInv, Unspoilt, StreamIsOwn, AreaIsOwn
  <1> QED
    BY <1>2, <1>4, <1>5 DEF HcInv, FinishedOnce, ReadRight, RetryRight, LinkRight, Connected

\* A header is read, and nothing follows it.
LEMMA NoBodyKeeps ==
  ASSUME HcInv, hc.op = "header", HeadEnds # {}, NEW s, s = inbuf[HeadEnd].shape, ~s.chunked, s.n = 0,
         inbuf' = SubSeq(inbuf, HeadEnd + 1, Len(inbuf)),
         hc' = Finished(Closes(Announced(s))), ClosesIf(~s.keep),
         chunk' \in {chunk, <<>>}, UNCHANGED <<area, spoilt, body>>
  PROVE  HcInv'
  <1>1. s \in Shapes /\ HeadEnd \in 0 .. Len(inbuf)
    BY HeadEndFacts
  <1> DEFINE c == Announced(s)
  <1>2. /\ c \in HcType /\ c.told = 0 /\ c.req = hc.req /\ c.conn
        /\ c.reconnect = hc.reconnect /\ c.tries = hc.tries /\ c.answered = hc.answered /\ c.shape = s
    BY <1>1, AnnouncedFields
  <1>3. hc' = Finished(Closes(c)) /\ ClosesIf(~c.shape.keep)
    BY <1>2
  <1> HIDE DEF c
  <1>4. inbuf' \in Seq(UnitType)
    BY <1>1, BehindFacts
  <1>5. ~spoilt => inbuf' = <<>> /\ wire = <<>> /\ srv.todo = <<>> /\ area' = <<>>
    <2> SUFFICES ASSUME ~spoilt
                 PROVE  inbuf' = <<>> /\ wire = <<>> /\ srv.todo = <<>> /\ area' = <<>>
      OBVIOUS
    <2>1. Len(Behind(HeadEnd)) <= 0
      BY BehindHeader
    <2>2. Behind(HeadEnd) \in Units
      BY <1>1, BehindFacts
    <2>3. Behind(HeadEnd) = <<>>
      BY <2>1, <2>2, EmptyFacts DEF Units
    <2>4. SubSeq(inbuf, HeadEnd + 1, Len(inbuf)) = <<>> /\ wire = <<>> /\ srv.todo = <<>>
      BY <1>1, <2>3, BehindFacts
    <2>5. area = <<>>
      BY DEF HcInv, Unspoilt, AreaIsOwn
    <2> QED
      BY <2>4, <2>5
  <1>6. hc.op # "none" /\ hc.conn /\ area' \in {area, <<>>}
    BY DEF HcInv, LinkRight, Connected
  <1> QED
    BY <1>2, <1>3, <1>4, <1>5, <1>6, CompleteKeeps

LEMMA ProcessHeaderKeeps ==
  ASSUME HcInv, ProcessHeader
  PROVE  HcInv'
  <1> DEFINE s == inbuf[HeadEnd].shape
             rest == SubSeq(inbuf, HeadEnd + 1, Len(inbuf))
  <1>1. CASE HeadEnds = {}
    <2>1. /\ hc' = [hc EXCEPT !.op = "reading"] /\ inbuf' = <<>>
          /\ UNCHANGED <<area, chunk, wire, srv, spoilt, body>>
      BY <1>1 DEF ProcessHeader, HeadEnds
    <2> QED
      BY <2>1, HeaderGoesOn DEF ProcessHeader
  <1>2. CASE HeadEnds # {}
    <2>1. /\ hc.op = "header" /\ inbuf' = rest /\ UNCHANGED <<area, body>> /\ chunk' \in {chunk, <<>>}
          /\ \/ /\ s.chunked \/ s.n + Len(area) > 0
                /\ hc' = [Announced(s) EXCEPT !.op = IF rest = <<>> THEN "reading" ELSE "body"]
                /\ UNCHANGED <<wire, srv, spoilt>>
             \/ /\ ~(s.chunked \/ s.n + Len(area) > 0)
                /\ hc' = Finished(Closes(Announced(s))) /\ ClosesIf(~s.keep) /\ UNCHANGED spoilt
             \/ hc' = Finished(hc) /\ spoilt' = TRUE /\ UNCHANGED <<wire, srv>>
      BY <1>2 DEF ProcessHeader, HeadEnds, HeadEnd, Announced
    <2>2. s \in Shapes /\ HeadEnd \in 0 .. Len(inbuf)
      BY <1>2, HeadEndFacts
    <2> HIDE DEF s
    <2>3. CASE /\ s.chunked \/ s.n + Len(area) > 0
               /\ hc' = [Announced(s) EXCEPT !.op = IF rest = <<>> THEN "reading" ELSE "body"]
               /\ UNCHANGED <<wire, srv, spoilt>>
      <3>1. Takes(HeadEnd)
        BY <2>1, <2>2, <2>3 DEF Takes
      <3> DEFINE op == IF rest = <<>> THEN "reading" ELSE "body"
      <3>2. op \in {"reading", "body"} /\ (op = "reading" => inbuf' = <<>>)
        BY <2>1
      <3>3. hc' = [Announced(s) EXCEPT !.op = op]
        BY <2>3
      <3> HIDE DEF op, rest
      <3> QED
        BY <1>2, <2>1, <2>3, <3>1, <3>2, <3>3, HeaderReadKeeps DEF s
    <2>4. CASE /\ ~(s.chunked \/ s.n + Len(area) > 0)
               /\ hc' = Finished(Closes(Announced(s))) /\ ClosesIf(~s.keep) /\ UNCHANGED spoilt
      <3>1. ~s.chunked /\ s.n = 0
        <4>1. s.n \in Nat /\ Len(area) \in Nat
          BY <2>2, HcFacts, ShapeFacts
        <4> HIDE DEF rest
        <4> QED
          BY <2>4, <4>1
      <3> QED
        BY <1>2, <2>1, <2>4, <3>1, NoBodyKeeps DEF s
    <2>5. CASE hc' = Finished(hc) /\ spoilt' = TRUE /\ UNCHANGED <<wire, srv>>
      <3>0. <<>> \in Seq(UnitType)
        OBVIOUS
      <3>1. rest \in Seq(UnitType)
        <4>1. \A m \in 0 .. Len(inbuf) : SubSeq(inbuf, m + 1, Len(inbuf)) \in Seq(UnitType)
          BY BehindFacts
        <4> QED
          BY <2>2, <4>1
      <3> HIDE DEF rest
      <3>2. HcRight'
        BY <2>1, <2>5, <3>0, <3>1, EndsFields, HcFacts DEF HcRight, HcTypeOK, Units
      <3>3. Unspoilt'
        BY <2>5 DEF Unspoilt
      <3> QED
        BY <2>1, <2>5, <3>2, <3>3, EndKeeps
    <2> QED
      BY <2>1, <2>3, <2>4, <2>5
  <1> QED
    BY <1>1, <1>2

-----------------------------------------------------------------------------
(* Chunks.                                                                 *)

\* A look finds nothing, and takes all; or it stops behind the unit it finds.
LEMMA LookedFacts ==
  ASSUME HcInv, inbuf' = Looked(inbuf).rest, UNCHANGED <<wire, srv>>
  PROVE  LET l == Looked(inbuf)
         IN \/ l.found = "nothing" /\ l.got = <<>> /\ inbuf' = <<>> /\ Takes(Len(inbuf))
            \/ \E i \in 1 .. Len(inbuf) :
                 /\ Takes(i)
                 /\ \/ l.found = "data" /\ l.got = <<inbuf[i]>>
                    \/ l.found = "eod" /\ l.got = <<>> /\ inbuf[i].kind = "last"
  <1> DEFINE hits == {i \in DOMAIN inbuf : inbuf[i].kind # "size"}
             i == CHOOSE i \in hits : \A j \in hits : i <= j
  <1>1. inbuf \in Seq(UnitType)
    BY HcFacts
  <1>2. CASE hits = {}
    <2>1. Looked(inbuf) = [found |-> "nothing", got |-> <<>>, rest |-> <<>>]
      BY <1>2 DEF Looked
    <2>2. inbuf' = <<>>
      BY <2>1
    <2> QED
      BY <2>1, <2>2, TakesAll
  <1>3. CASE hits # {}
    <2>1. hits \in SUBSET Nat
      BY <1>1
    <2>2. Looked(inbuf) = [found |-> IF inbuf[i].kind = "last" THEN "eod" ELSE "data",
                           got |-> IF inbuf[i].kind = "last" THEN <<>> ELSE <<inbuf[i]>>,
                           rest |-> SubSeq(inbuf, i + 1, Len(inbuf))]
      BY <1>3 DEF Looked
    <2>3. i \in hits
      <3> HIDE DEF hits
      <3> QED
        BY <1>3, <2>1, FirstPlace
    <2>4. i \in 1 .. Len(inbuf)
      <3>1. i \in DOMAIN inbuf
        BY <2>3
      <3> QED
        BY <1>1, <3>1
    <2> HIDE DEF i, hits
    <2>5. i \in 0 .. Len(inbuf)
      BY <1>1, <2>4
    <2>6. Takes(i)
      BY <2>2, <2>5 DEF Takes
    <2>7. CASE inbuf[i].kind = "last"
      <3>1. Looked(inbuf).found = "eod" /\ Looked(inbuf).got = <<>>
        BY <2>2, <2>7
      <3> QED
        BY <2>4, <2>6, <2>7, <3>1
    <2>8. CASE inbuf[i].kind # "last"
      <3>1. Looked(inbuf).found = "data" /\ Looked(inbuf).got = <<inbuf[i]>>
        BY <2>2, <2>8
      <3> QED
        BY <2>4, <2>6, <2>8, <3>1
    <2> QED
      BY <2>7, <2>8
  <1> QED
    BY <1>2, <1>3

\* The unit that a look finds is of the reply, and nothing follows the end of the chunks.
LEMMA FoundFacts ==
  ASSUME HcInv, NEW i \in 1 .. Len(inbuf)
  PROVE  /\ inbuf[i] \in UnitType /\ i \in 0 .. Len(inbuf)
         /\ \A r : OwnUnits(Stream, r) =>
              /\ inbuf[i].req = r
              /\ inbuf[i].kind = "last" => SubSeq(inbuf, i + 1, Len(inbuf)) = <<>> /\ Behind(i) = <<>>
  <1>1. inbuf \in Seq(UnitType) /\ wire \in Seq(UnitType) /\ srv.todo \in Seq(UnitType)
    BY HcFacts
  <1>2. /\ Len(Stream) = Len(inbuf) + (Len(wire) + Len(srv.todo))
        /\ Len(inbuf) \in Nat /\ Len(wire) \in Nat /\ Len(srv.todo) \in Nat
        /\ \A j \in 1 .. Len(inbuf) : Stream[j] = inbuf[j]
    BY <1>1, StreamFacts DEF Stream
  <1>3. i \in 1 .. Len(Stream) /\ i \in 0 .. Len(inbuf) /\ Stream[i] = inbuf[i]
    BY <1>2
  <1>4. inbuf[i] \in UnitType
    BY <1>1
  <1>5. ASSUME NEW r, OwnUnits(Stream, r)
        PROVE  inbuf[i].req = r /\ (inbuf[i].kind = "last" => i = Len(Stream))
    BY <1>3, <1>5 DEF OwnUnits
  <1>6. ASSUME i = Len(Stream)
        PROVE  SubSeq(inbuf, i + 1, Len(inbuf)) = <<>> /\ Behind(i) = <<>>
    <2>1. Len(Behind(i)) = Len(Stream) - i /\ Behind(i) \in Units /\ Len(Stream) \in Nat
      BY <1>3, BehindFacts
    <2>2. Len(Behind(i)) = 0
      BY <1>6, <2>1
    <2>3. Behind(i) = <<>>
      BY <2>1, <2>2, EmptyFacts DEF Units
    <2> QED
      BY <1>3, <2>3, BehindFacts
  <1> QED
    BY <1>3, <1>4, <1>5, <1>6

\* A step that takes units of a reply in chunks, and waits for more or goes round the loop.
LEMMA ChunkStepKeeps ==
  ASSUME HcInv, hc.op \in {"body", "loop"}, hc.shape.chunked, NEW m, Takes(m), UNCHANGED <<area, spoilt>>,
         hc' \in HcType, hc'.busy, hc'.op \in {"reading", "loop"}, hc'.told = hc.told, hc'.req = hc.req,
         hc'.conn = hc.conn, hc'.reconnect = hc.reconnect, hc'.tries = hc.tries, hc'.answered = hc.answered,
         hc'.readHeader = hc.readHeader, hc'.shape = hc.shape,
         chunk' \in Seq(UnitType), body' \in Seq(UnitType),
         ~spoilt => /\ hc'.op = "reading" => inbuf' = <<>>
                    /\ hc'.op = "loop" => \A i \in 1 .. Len(chunk') : chunk'[i].req = hc.req
                    /\ \A i \in 1 .. Len(body') : body'[i].req = hc.req
  PROVE  HcInv'
  <1>1. hc.conn /\ ~hc.readHeader /\ UNCHANGED <<wire, srv>>
    BY DEF HcInv, LinkRight, ReadRight, Connected, Takes
  <1>2. HcRight'
    BY <1>1, TakesFacts, HcFacts DEF HcRight, HcTypeOK, Units
  <1>3. Unspoilt'
    <2> SUFFICES ASSUME ~spoilt
                 PROVE  StreamIsOwn' /\ AreaIsOwn' /\ (\A i \in 1 .. Len(body) : body[i].req = hc.req)'
      BY DEF Unspoilt
    <2>1. OwnUnits(Stream, hc.req) /\ area = <<>>
      BY DEF HcInv, Unspoilt, StreamIsOwn, AreaIsOwn
    <2>2. OwnUnits(Stream', hc.req)
      BY <2>1, TakesFacts
    <2>3. NoSurplus(Stream', hc'.readHeader, hc'.shape, hc'.left)
      BY <1>1 DEF NoSurplus
    <2>4. StreamIsOwn'
      BY <2>2, <2>3 DEF StreamIsOwn
    <2>5. AreaIsOwn'
      BY <2>1 DEF AreaIsOwn
    <2> QED
      BY <2>4, <2>5
  <1>4. FinishedOnce'
    <2>1. hc.told = 0
      BY HcFacts
    <2> QED
      BY <2>1 DEF FinishedOnce
  <1>5. LinkRight' /\ RetryRight' /\ ReadRight'
    BY <1>1 DEF HcInv, LinkRight, RetryRight, ReadRight, Connected
  <1> QED
    BY <1>2, <1>3, <1>4, <1>5 DEF HcInv

\* What is known of the chunk that a look finds.
LEMMA GotFacts ==
  ASSUME HcInv, hc.op \in {"body", "loop"}, NEW i \in 1 .. Len(inbuf), NEW got, got = <<inbuf[i]>>
  PROVE  got \in Seq(UnitType) /\ (~spoilt => \A k \in 1 .. Len(got) : got[k].req = hc.req)
  <1>1. inbuf[i] \in UnitType /\ \A r : OwnUnits(Stream, r) => inbuf[i].req = r
    BY FoundFacts
  <1>2. ~spoilt => OwnUnits(Stream, hc.req)
    BY DEF HcInv, Unspoilt, StreamIsOwn
  <1>3. got \in Seq(UnitType) /\ Len(got) = 1 /\ got[1] = inbuf[i]
    BY <1>1
  <1> QED
    BY <1>1, <1>2, <1>3

\* The end of the chunks leaves nothing behind it.
LEMMA EndOfChunksFacts ==
  ASSUME HcInv, ~spoilt, hc.op \in {"body", "loop"}, NEW i \in 1 .. Len(inbuf), Takes(i), inbuf[i].kind = "last"
  PROVE  inbuf' = <<>> /\ Stream' = <<>>
  <1>1. OwnUnits(Stream, hc.req)
    BY DEF HcInv, Unspoilt, StreamIsOwn
  <1>2. SubSeq(inbuf, i + 1, Len(inbuf)) = <<>> /\ Behind(i) = <<>>
    BY <1>1, FoundFacts
  <1> QED
    BY <1>2, TakesFacts DEF Takes

LEMMA ProcessChunksKeeps ==
  ASSUME HcInv, ProcessChunks
  PROVE  HcInv'
  <1> DEFINE l == Looked(inbuf)
  <1>1. /\ hc.op = "body" /\ hc.shape.chunked /\ inbuf' = l.rest /\ chunk' = l.got
        /\ UNCHANGED <<area, wire, srv, body, spoilt>>
    BY DEF ProcessChunks
  <1>2. /\ l.found = "data" => hc' = [hc EXCEPT !.op = "loop"]
        /\ l.found = "eod" /\ ~hc.shape.trailer => hc' = Finished([hc EXCEPT !.eod = TRUE])
        /\ l.found = "eod" /\ hc.shape.trailer => hc' = [hc EXCEPT !.op = "reading", !.eod = TRUE, !.parsed = FALSE]
        /\ l.found = "nothing" => hc' = [hc EXCEPT !.op = "reading"]
    BY DEF ProcessChunks
  <1>3. \/ l.found = "nothing" /\ l.got = <<>> /\ inbuf' = <<>> /\ Takes(Len(inbuf))
        \/ \E i \in 1 .. Len(inbuf) :
             /\ Takes(i)
             /\ \/ l.found = "data" /\ l.got = <<inbuf[i]>>
                \/ l.found = "eod" /\ l.got = <<>> /\ inbuf[i].kind = "last"
    BY <1>1, LookedFacts
  <1>4. hc.shape.trailer \in BOOLEAN
    BY HcFacts, ShapeFacts
  <1> HIDE DEF l
  <1>5. <<>> \in Seq(UnitType) /\ Len(<<>>) = 0
    OBVIOUS
  <1>6. ~spoilt => \A k \in 1 .. Len(body) : body[k].req = hc.req
    BY DEF HcInv, Unspoilt
  <1>7. CASE l.found = "nothing" /\ l.got = <<>> /\ inbuf' = <<>> /\ Takes(Len(inbuf))
    <2>1. hc' = [hc EXCEPT !.op = "reading"]
      BY <1>2, <1>7
    <2>2. /\ hc' \in HcType /\ hc'.busy /\ hc'.op = "reading" /\ hc'.told = hc.told /\ hc'.req = hc.req
          /\ hc'.conn = hc.conn /\ hc'.reconnect = hc.reconnect /\ hc'.tries = hc.tries /\ hc'.answered = hc.answered
          /\ hc'.readHeader = hc.readHeader /\ hc'.shape = hc.shape
      BY <1>1, <2>1, HcFacts DEF HcType
    <2> QED
      BY <1>1, <1>5, <1>6, <1>7, <2>2, HcFacts, ChunkStepKeeps
  <1>8. ASSUME NEW i \in 1 .. Len(inbuf), Takes(i), l.found = "data", l.got = <<inbuf[i]>>
        PROVE  HcInv'
    <2>1. hc' = [hc EXCEPT !.op = "loop"]
      BY <1>2, <1>8
    <2>2. /\ hc' \in HcType /\ hc'.busy /\ hc'.op = "loop" /\ hc'.told = hc.told /\ hc'.req = hc.req
          /\ hc'.conn = hc.conn /\ hc'.reconnect = hc.reconnect /\ hc'.tries = hc.tries /\ hc'.answered = hc.answered
          /\ hc'.readHeader = hc.readHeader /\ hc'.shape = hc.shape
      BY <1>1, <2>1, HcFacts DEF HcType
    <2>3. chunk' \in Seq(UnitType) /\ (~spoilt => \A k \in 1 .. Len(chunk') : chunk'[k].req = hc.req)
      BY <1>1, <1>8, GotFacts
    <2> QED
      BY <1>1, <1>6, <1>8, <2>2, <2>3, HcFacts, ChunkStepKeeps
  <1>9. ASSUME NEW i \in 1 .. Len(inbuf), Takes(i), l.found = "eod", l.got = <<>>, inbuf[i].kind = "last"
        PROVE  HcInv'
    <2>1. ~spoilt => inbuf' = <<>> /\ Stream' = <<>>
      BY <1>1, <1>9, EndOfChunksFacts
    <2>2. CASE hc.shape.trailer
      <3>1. hc' = [hc EXCEPT !.op = "reading", !.eod = TRUE, !.parsed = FALSE]
        BY <1>2, <1>9, <2>2
      <3>2. /\ hc' \in HcType /\ hc'.busy /\ hc'.op = "reading" /\ hc'.told = hc.told /\ hc'.req = hc.req
            /\ hc'.conn = hc.conn /\ hc'.reconnect = hc.reconnect /\ hc'.tries = hc.tries
            /\ hc'.answered = hc.answered /\ hc'.readHeader = hc.readHeader /\ hc'.shape = hc.shape
        BY <1>1, <3>1, HcFacts DEF HcType
      <3> QED
        BY <1>1, <1>5, <1>6, <1>9, <2>1, <3>2, HcFacts, ChunkStepKeeps
    <2>3. CASE ~hc.shape.trailer
      <3>1. hc' = Finished([hc EXCEPT !.eod = TRUE])
        BY <1>2, <1>9, <2>3
      <3>2. hc.told + 1 \in 0 .. 2 /\ hc.told + 1 = 1
        BY <1>1, HcFacts
      <3>3. /\ hc' \in HcType /\ ~hc'.busy /\ hc'.op = "none" /\ hc'.told = 1 /\ hc'.req = hc.req
            /\ hc'.conn = hc.conn /\ hc'.reconnect = hc.reconnect /\ hc'.tries = hc.tries
            /\ hc'.answered = hc.answered
        BY <3>1, <3>2, HcFacts DEF Finished, HcType
      <3>4. inbuf' \in Seq(UnitType)
        BY <1>9, TakesFacts
      <3>5. HcRight'
        BY <1>1, <1>5, <1>9, <3>3, <3>4, HcFacts DEF HcRight, HcTypeOK, Units
      <3>6. Unspoilt'
        <4>1. ~spoilt => area = <<>>
          BY <1>1 DEF HcInv, Unspoilt, AreaIsOwn
        <4> QED
          BY <1>1, <1>5, <1>6, <2>1, <3>3, <4>1 DEF Unspoilt, StreamIsOwn, AreaIsOwn
      <3> QED
        BY <1>1, <3>3, <3>5, <3>6 DEF HcInv, FinishedOnce, ReadRight, RetryRight, LinkRight, Connected
    <2> QED
      BY <1>4, <2>2, <2>3
  <1> QED
    BY <1>3, <1>7, <1>8, <1>9

\* Units of the same request stay so when they are joined, and when they are cut.
LEMMA JoinedIsOwn ==
  ASSUME NEW r, NEW s \in Seq(UnitType), NEW t \in Seq(UnitType)
  PROVE  /\ s \o t \in Seq(UnitType)
         /\ (\A i \in 1 .. Len(s) : s[i].req = r) /\ (\A i \in 1 .. Len(t) : t[i].req = r)
              => \A i \in 1 .. Len(s \o t) : (s \o t)[i].req = r
  <1> DEFINE v == s \o t
  <1>1. /\ v \in Seq(UnitType) /\ Len(v) = Len(s) + Len(t) /\ Len(s) \in Nat /\ Len(t) \in Nat
        /\ \A i \in 1 .. Len(s) + Len(t) : v[i] = IF i <= Len(s) THEN s[i] ELSE t[i - Len(s)]
    BY JoinFacts
  <1> HIDE DEF v
  <1>2. ASSUME \A i \in 1 .. Len(s) : s[i].req = r, \A i \in 1 .. Len(t) : t[i].req = r, NEW i \in 1 .. Len(v)
        PROVE  v[i].req = r
    <2>1. i \in 1 .. Len(s) + Len(t) /\ (~(i <= Len(s)) => i - Len(s) \in 1 .. Len(t)) /\ (i <= Len(s) => i \in 1 .. Len(s))
      BY <1>1
    <2> QED
      BY <1>1, <1>2, <2>1
  <1> QED
    BY <1>1, <1>2 DEF v

LEMMA CutIsOwn ==
  ASSUME NEW r, NEW s \in Seq(UnitType), NEW m \in 0 .. Len(s), \A i \in 1 .. Len(s) : s[i].req = r
  PROVE  /\ \A i \in 1 .. m : SubSeq(s, 1, m)[i].req = r
         /\ \A i \in 1 .. Len(s) - m : SubSeq(s, m + 1, Len(s))[i].req = r
  <1> DEFINE f == SubSeq(s, 1, m)
             g == SubSeq(s, m + 1, Len(s))
  <1>1. (\A j \in 1 .. m : f[j] = s[j]) /\ (\A j \in 1 .. Len(s) - m : g[j] = s[j + m]) /\ Len(s) \in Nat
    BY CutFacts
  <1> HIDE DEF f, g
  <1>2. \A j \in 1 .. m : j \in 1 .. Len(s)
    BY <1>1
  <1>3. \A j \in 1 .. Len(s) - m : j + m \in 1 .. Len(s)
    BY <1>1
  <1> QED
    BY <1>1, <1>2, <1>3 DEF f, g

LEMMA ChunkAvailableKeeps ==
  ASSUME HcInv, ChunkAvailable
  PROVE  HcInv'
  <1> DEFINE l == Looked(inbuf)
  <1>1. /\ hc.op = "loop" /\ hc.shape.chunked /\ inbuf' = l.rest /\ chunk' = l.got /\ body' = body \o chunk
        /\ UNCHANGED <<area, wire, srv, spoilt>>
    BY DEF ChunkAvailable
  <1>2. /\ l.found = "data" => hc' = hc
        /\ l.found = "eod" => hc' = [hc EXCEPT !.op = "reading", !.eod = TRUE, !.parsed = FALSE]
        /\ l.found = "nothing" => hc' = [hc EXCEPT !.op = "reading"]
    BY DEF ChunkAvailable
  <1>3. \/ l.found = "nothing" /\ l.got = <<>> /\ inbuf' = <<>> /\ Takes(Len(inbuf))
        \/ \E i \in 1 .. Len(inbuf) :
             /\ Takes(i)
             /\ \/ l.found = "data" /\ l.got = <<inbuf[i]>>
                \/ l.found = "eod" /\ l.got = <<>> /\ inbuf[i].kind = "last"
    BY <1>1, LookedFacts
  <1> HIDE DEF l
  <1>4. <<>> \in Seq(UnitType) /\ Len(<<>>) = 0
    OBVIOUS
  <1>5. body' \in Seq(UnitType) /\ (~spoilt => \A k \in 1 .. Len(body') : body'[k].req = hc.req)
    <2>1. body \in Seq(UnitType) /\ chunk \in Seq(UnitType)
      BY HcFacts
    <2>2. ~spoilt => /\ \A k \in 1 .. Len(body) : body[k].req = hc.req
                     /\ \A k \in 1 .. Len(chunk) : chunk[k].req = hc.req
      BY <1>1 DEF HcInv, Unspoilt, AreaIsOwn
    <2> QED
      <3>1. body \o chunk \in Seq(UnitType)
        BY <2>1, JoinedIsOwn
      <3>2. ~spoilt => \A k \in 1 .. Len(body \o chunk) : (body \o chunk)[k].req = hc.req
        <4>1. \A r : (\A k \in 1 .. Len(body) : body[k].req = r) /\ (\A k \in 1 .. Len(chunk) : chunk[k].req = r)
                => \A k \in 1 .. Len(body \o chunk) : (body \o chunk)[k].req = r
          BY <2>1, JoinedIsOwn
        <4> QED
          BY <2>2, <4>1
      <3> QED
        BY <1>1, <3>1, <3>2
  <1>6. CASE l.found = "nothing" /\ l.got = <<>> /\ inbuf' = <<>> /\ Takes(Len(inbuf))
    <2>1. hc' = [hc EXCEPT !.op = "reading"]
      BY <1>2, <1>6
    <2>2. /\ hc' \in HcType /\ hc'.busy /\ hc'.op = "reading" /\ hc'.told = hc.told /\ hc'.req = hc.req
          /\ hc'.conn = hc.conn /\ hc'.reconnect = hc.reconnect /\ hc'.tries = hc.tries /\ hc'.answered = hc.answered
          /\ hc'.readHeader = hc.readHeader /\ hc'.shape = hc.shape
      BY <1>1, <2>1, HcFacts DEF HcType
    <2> QED
      BY <1>1, <1>4, <1>5, <1>6, <2>2, ChunkStepKeeps
  <1>7. ASSUME NEW i \in 1 .. Len(inbuf), Takes(i), l.found = "data", l.got = <<inbuf[i]>>
        PROVE  HcInv'
    <2>1. hc' = hc
      BY <1>2, <1>7
    <2>2. hc' \in HcType /\ hc'.busy /\ hc'.op = "loop"
      BY <1>1, <2>1, HcFacts
    <2>3. chunk' \in Seq(UnitType) /\ (~spoilt => \A k \in 1 .. Len(chunk') : chunk'[k].req = hc.req)
      BY <1>1, <1>7, GotFacts
    <2> QED
      BY <1>1, <1>5, <1>7, <2>1, <2>2, <2>3, ChunkStepKeeps
  <1>8. ASSUME NEW i \in 1 .. Len(inbuf), Takes(i), l.found = "eod", l.got = <<>>, inbuf[i].kind = "last"
        PROVE  HcInv'
    <2>1. ~spoilt => inbuf' = <<>>
      BY <1>1, <1>8, EndOfChunksFacts
    <2>2. hc' = [hc EXCEPT !.op = "reading", !.eod = TRUE, !.parsed = FALSE]
      BY <1>2, <1>8
    <2>3. /\ hc' \in HcType /\ hc'.busy /\ hc'.op = "reading" /\ hc'.told = hc.told /\ hc'.req = hc.req
          /\ hc'.conn = hc.conn /\ hc'.reconnect = hc.reconnect /\ hc'.tries = hc.tries
          /\ hc'.answered = hc.answered /\ hc'.readHeader = hc.readHeader /\ hc'.shape = hc.shape
      BY <1>1, <2>2, HcFacts DEF HcType
    <2> QED
      BY <1>1, <1>4, <1>5, <1>8, <2>1, <2>3, ChunkStepKeeps
  <1> QED
    BY <1>3, <1>6, <1>7, <1>8

-----------------------------------------------------------------------------
(* Bytes.                                                                  *)

\* What the limit stream holds of the reply, before and behind showmanyc().
LEMMA FilledFacts ==
  ASSUME HcInv, NEW f, f = Filled(area, hc.left, inbuf)
  PROVE  \E m \in 0 .. Len(inbuf) :
           /\ f.rest = SubSeq(inbuf, m + 1, Len(inbuf)) /\ f.left = hc.left - m /\ f.left \in 0 .. MaxBody
           /\ f.area = area \o SubSeq(inbuf, 1, m)
           /\ f.area = <<>> => area = <<>> /\ m = 0 /\ (f.left = 0 \/ inbuf = <<>>)
  <1> DEFINE m == IF area = <<>> /\ hc.left > 0 THEN (IF hc.left < Len(inbuf) THEN hc.left ELSE Len(inbuf)) ELSE 0
             p == SubSeq(inbuf, 1, m)
  <1>1. inbuf \in Seq(UnitType) /\ area \in Seq(UnitType) /\ Len(inbuf) \in Nat /\ hc.left \in 0 .. MaxBody
        /\ MaxBody \in Nat
    BY HcFacts DEF HcType
  <1>2. m \in 0 .. Len(inbuf) /\ hc.left - m \in 0 .. MaxBody
    BY <1>1
  <1>3. f.area = area \o p /\ f.left = hc.left - m /\ f.rest = SubSeq(inbuf, m + 1, Len(inbuf))
    BY DEF Filled
  <1>4. area = <<>> /\ hc.left > 0 /\ m = 0 => Len(inbuf) = 0
    BY <1>1
  <1>5. area = <<>> /\ m = 0 => hc.left - m = 0 \/ inbuf = <<>>
    BY <1>1, <1>4, EmptyFacts
  <1> HIDE DEF m
  <1>6. p \in Seq(UnitType) /\ Len(p) = m
    BY <1>1, <1>2, CutFacts
  <1> HIDE DEF p
  <1>7. Len(area \o p) = Len(area) + Len(p) /\ Len(area) \in Nat /\ Len(p) \in Nat /\ area \o p \in Seq(UnitType)
    <2>1. area \in Seq(UnitType) /\ p \in Seq(UnitType)
      BY <1>1, <1>6
    <2> QED
      BY <2>1, JoinFacts
  <1>8. area \o p = <<>> => Len(area) = 0 /\ Len(p) = 0
    BY <1>7, EmptyFacts
  <1>9. f.area = <<>> => area = <<>> /\ m = 0
    BY <1>1, <1>3, <1>6, <1>8, EmptyFacts
  <1> QED
    BY <1>2, <1>3, <1>5, <1>9 DEF p

\* The handler reads the first n units that are ready.
ReadsOf(ready, n) ==
  /\ n \in 1 .. Len(ready)
  /\ body' = body \o SubSeq(ready, 1, n) /\ area' = SubSeq(ready, n + 1, Len(ready))

LEMMA ReadsOfFacts ==
  ASSUME NEW ready \in Seq(UnitType), NEW n, ReadsOf(ready, n), NEW r, NEW own \in BOOLEAN, body \in Seq(UnitType),
         own => /\ \A i \in 1 .. Len(ready) : ready[i].req = r
                /\ \A i \in 1 .. Len(body) : body[i].req = r
  PROVE  /\ area' \in Seq(UnitType) /\ body' \in Seq(UnitType)
         /\ own => /\ \A i \in 1 .. Len(area') : area'[i].req = r
                   /\ \A i \in 1 .. Len(body') : body'[i].req = r
  <1> DEFINE p == SubSeq(ready, 1, n)
             q == SubSeq(ready, n + 1, Len(ready))
  <1>1. n \in 0 .. Len(ready)
    BY DEF ReadsOf
  <1>2. p \in Seq(UnitType) /\ Len(p) = n /\ q \in Seq(UnitType) /\ Len(q) = Len(ready) - n
    BY <1>1, CutFacts
  <1>3. own => (\A i \in 1 .. n : p[i].req = r) /\ (\A i \in 1 .. Len(ready) - n : q[i].req = r)
    BY <1>1, CutIsOwn
  <1>4. body' = body \o p /\ area' = q
    BY DEF ReadsOf
  <1> HIDE DEF p, q
  <1>5. /\ body \o p \in Seq(UnitType)
        /\ (\A i \in 1 .. Len(body) : body[i].req = r) /\ (\A i \in 1 .. Len(p) : p[i].req = r)
             => \A i \in 1 .. Len(body \o p) : (body \o p)[i].req = r
    BY <1>2, JoinedIsOwn
  <1> QED
    BY <1>2, <1>3, <1>4, <1>5

\* What the client has read of the reply is of its request.
LEMMA BufferIsOwn ==
  ASSUME HcInv, ~spoilt, hc.op \in {"reading", "header", "body", "loop"}
  PROVE  \A i \in 1 .. Len(inbuf) : inbuf[i].req = hc.req
  <1>1. OwnUnits(Stream, hc.req)
    BY DEF HcInv, Unspoilt, StreamIsOwn
  <1> QED
    BY <1>1, FoundFacts

\* What showmanyc() makes ready is of the request.
LEMMA ReadyIsOwn ==
  ASSUME HcInv, hc.op \in {"body", "loop"}, ~hc.shape.chunked, NEW m \in 0 .. Len(inbuf),
         NEW a, a = area \o SubSeq(inbuf, 1, m)
  PROVE  a \in Seq(UnitType) /\ (~spoilt => \A i \in 1 .. Len(a) : a[i].req = hc.req)
  <1> DEFINE p == SubSeq(inbuf, 1, m)
  <1>1. area \in Seq(UnitType) /\ inbuf \in Seq(UnitType)
    BY HcFacts
  <1>2. p \in Seq(UnitType) /\ Len(p) = m
    BY <1>1, CutFacts
  <1>3. ASSUME ~spoilt
        PROVE  /\ \A i \in 1 .. Len(area) : area[i].req = hc.req
               /\ \A i \in 1 .. Len(p) : p[i].req = hc.req
    <2>1. \A i \in 1 .. Len(area) : area[i].req = hc.req
      BY <1>3 DEF HcInv, Unspoilt, AreaIsOwn
    <2>2. \A i \in 1 .. Len(inbuf) : inbuf[i].req = hc.req
      BY <1>3, BufferIsOwn
    <2>3. \A i \in 1 .. m : p[i].req = hc.req
      BY <1>1, <2>2, CutIsOwn
    <2> QED
      BY <1>2, <2>1, <2>3
  <1>4. a = area \o p
    OBVIOUS
  <1> HIDE DEF p
  <1>5. area \o p \in Seq(UnitType)
    BY <1>1, <1>2, JoinedIsOwn
  <1>6. \A r : (\A i \in 1 .. Len(area) : area[i].req = r) /\ (\A i \in 1 .. Len(p) : p[i].req = r)
          => \A i \in 1 .. Len(area \o p) : (area \o p)[i].req = r
    BY <1>1, <1>2, JoinedIsOwn
  <1> QED
    BY <1>3, <1>4, <1>5, <1>6

\* A step that takes bytes of a reply with a length, and waits for more or goes round the loop.
LEMMA ByteStepKeeps ==
  ASSUME HcInv, hc.op \in {"body", "loop"}, ~hc.shape.chunked, NEW m, Takes(m), UNCHANGED <<chunk, spoilt>>,
         NEW op \in {"reading", "loop"}, NEW left \in 0 .. MaxBody, left = hc.left - m,
         hc' = [[hc EXCEPT !.left = left] EXCEPT !.op = op],
         area' \in Seq(UnitType), body' \in Seq(UnitType),
         op = "reading" => inbuf' = <<>> /\ area' = <<>>,
         ~spoilt => /\ \A i \in 1 .. Len(area') : area'[i].req = hc.req
                    /\ \A i \in 1 .. Len(body') : body'[i].req = hc.req
  PROVE  HcInv'
  <1>1. hc.conn /\ ~hc.readHeader /\ UNCHANGED <<wire, srv>>
    BY DEF HcInv, LinkRight, ReadRight, Connected, Takes
  <1>2. /\ hc' \in HcType /\ hc'.busy /\ hc'.op = op /\ hc'.told = 0 /\ hc'.req = hc.req /\ hc'.conn
        /\ hc'.reconnect = hc.reconnect /\ hc'.tries = hc.tries /\ hc'.answered = hc.answered
        /\ ~hc'.readHeader /\ hc'.shape = hc.shape /\ hc'.left = left
    BY <1>1, HcFacts DEF HcType
  <1>3. HcRight'
    BY <1>1, <1>2, TakesFacts, HcFacts DEF HcRight, HcTypeOK, Units
  <1>4. Unspoilt'
    <2> SUFFICES ASSUME ~spoilt
                 PROVE  StreamIsOwn' /\ AreaIsOwn' /\ (\A i \in 1 .. Len(body) : body[i].req = hc.req)'
      BY DEF Unspoilt
    <2>1. OwnUnits(Stream, hc.req) /\ Len(Stream) <= hc.left
      BY <1>1 DEF HcInv, Unspoilt, StreamIsOwn, NoSurplus
    <2>2. OwnUnits(Stream', hc.req)
      BY <2>1, TakesFacts
    <2>3. Len(Stream') <= left
      <3>1. Stream' = Behind(m)
        BY TakesFacts
      <3>2. m \in 0 .. Len(inbuf)
        BY DEF Takes
      <3>3. Len(Behind(m)) = Len(Stream) - m /\ Len(Stream) \in Nat /\ m \in Nat
        BY <3>2, BehindFacts
      <3>4. hc.left \in Nat
        BY HcFacts
      <3> QED
        BY <2>1, <3>1, <3>3, <3>4
    <2>4. NoSurplus(Stream', hc'.readHeader, hc'.shape, hc'.left)
      BY <1>2, <2>3 DEF NoSurplus
    <2>5. StreamIsOwn'
      BY <1>2, <2>2, <2>4 DEF StreamIsOwn
    <2>6. AreaIsOwn'
      BY <1>2 DEF AreaIsOwn
    <2> QED
      BY <1>2, <2>5, <2>6
  <1>5. FinishedOnce' /\ LinkRight' /\ RetryRight' /\ ReadRight'
    BY <1>1, <1>2 DEF HcInv, FinishedOnce, LinkRight, RetryRight, ReadRight, Connected
  <1> QED
    BY <1>3, <1>4, <1>5 DEF HcInv

LEMMA ProcessBytesKeeps ==
  ASSUME HcInv, ProcessBytes
  PROVE  HcInv'
  <1> DEFINE f == Filled(area, hc.left, inbuf)
             c == [hc EXCEPT !.left = f.left]
  <1>1. /\ hc.op \in {"body", "loop"} /\ ~hc.shape.chunked /\ inbuf' = f.rest /\ UNCHANGED <<chunk, spoilt>>
        /\ f.area # <<>> => \E n \in 1..Len(f.area) :
                  /\ body' = body \o SubSeq(f.area, 1, n)
                  /\ area' = SubSeq(f.area, n + 1, Len(f.area))
                  /\ hc' = [c EXCEPT !.op = "loop"] /\ UNCHANGED <<wire, srv>>
        /\ f.area = <<>> => area' = <<>> /\ UNCHANGED body
        /\ f.area = <<>> /\ f.left = 0 => hc' = Finished(Closes(c)) /\ ClosesIf(~hc.shape.keep)
        /\ f.area = <<>> /\ f.left # 0 => hc' = [c EXCEPT !.op = "reading"] /\ UNCHANGED <<wire, srv>>
    BY DEF ProcessBytes
  <1> HIDE DEF f
  <1>2. PICK m \in 0 .. Len(inbuf) :
          /\ f.rest = SubSeq(inbuf, m + 1, Len(inbuf)) /\ f.left = hc.left - m /\ f.left \in 0 .. MaxBody
          /\ f.area = area \o SubSeq(inbuf, 1, m)
          /\ f.area = <<>> => area = <<>> /\ m = 0 /\ (f.left = 0 \/ inbuf = <<>>)
    BY FilledFacts DEF f
  <1>3. f.area \in Seq(UnitType) /\ (~spoilt => \A i \in 1 .. Len(f.area) : f.area[i].req = hc.req)
    <2>1. hc.op \in {"body", "loop"} /\ ~hc.shape.chunked
      BY <1>1
    <2>2. \A k \in 0 .. Len(inbuf) : \A a : a = area \o SubSeq(inbuf, 1, k) =>
            a \in Seq(UnitType) /\ (~spoilt => \A i \in 1 .. Len(a) : a[i].req = hc.req)
      BY <2>1, ReadyIsOwn
    <2> QED
      BY <1>2, <2>2
  <1>4. UNCHANGED <<wire, srv>> => Takes(m)
    BY <1>1, <1>2 DEF Takes
  <1>5. body \in Seq(UnitType) /\ (~spoilt => \A i \in 1 .. Len(body) : body[i].req = hc.req)
    BY HcFacts DEF HcInv, Unspoilt
  <1> DEFINE left == f.left
             ready == f.area
  <1>6. CASE f.area # <<>>
    <2>1. PICK n \in 1 .. Len(ready) :
            /\ body' = body \o SubSeq(ready, 1, n) /\ area' = SubSeq(ready, n + 1, Len(ready))
            /\ hc' = [c EXCEPT !.op = "loop"] /\ UNCHANGED <<wire, srv>>
      BY <1>1, <1>6
    <2>2. ready \in Seq(UnitType) /\ left \in 0 .. MaxBody /\ left = hc.left - m
          /\ (~spoilt => \A i \in 1 .. Len(ready) : ready[i].req = hc.req)
      BY <1>2, <1>3
    <2>3. hc' = [[hc EXCEPT !.left = left] EXCEPT !.op = "loop"] /\ UNCHANGED <<wire, srv>>
      BY <2>1
    <2> HIDE DEF ready, left
    <2>4. ReadsOf(ready, n)
      BY <2>1 DEF ReadsOf
    <2>5. area' \in Seq(UnitType) /\ body' \in Seq(UnitType)
          /\ (~spoilt => /\ \A i \in 1 .. Len(area') : area'[i].req = hc.req
                         /\ \A i \in 1 .. Len(body') : body'[i].req = hc.req)
      BY <1>5, <2>2, <2>4, ReadsOfFacts
    <2>6. Takes(m)
      BY <1>4, <2>3
    <2> QED
      BY <1>1, <2>2, <2>3, <2>5, <2>6, ByteStepKeeps
  <1>7. CASE f.area = <<>>
    <2>1. area = <<>> /\ m = 0 /\ (left = 0 \/ inbuf = <<>>) /\ area' = <<>> /\ body' = body
          /\ left = hc.left - m /\ left \in 0 .. MaxBody /\ inbuf' = SubSeq(inbuf, m + 1, Len(inbuf))
      BY <1>1, <1>2, <1>7
    <2>2. CASE left # 0
      <3>1. hc' = [[hc EXCEPT !.left = left] EXCEPT !.op = "reading"] /\ UNCHANGED <<wire, srv>>
        BY <1>1, <1>7, <2>2
      <3> HIDE DEF left, ready
      <3>2. inbuf' = <<>> /\ <<>> \in Seq(UnitType) /\ Len(<<>>) = 0
        BY <2>1, <2>2
      <3>3. Takes(m)
        BY <1>4, <3>1
      <3>4. area' \in Seq(UnitType) /\ body' \in Seq(UnitType)
            /\ (~spoilt => /\ \A i \in 1 .. Len(area') : area'[i].req = hc.req
                           /\ \A i \in 1 .. Len(body') : body'[i].req = hc.req)
        BY <1>5, <2>1, <3>2
      <3>5. inbuf' = <<>> /\ area' = <<>> /\ left = hc.left - m /\ left \in 0 .. MaxBody
        BY <2>1, <3>2
      <3>6. hc.op \in {"body", "loop"} /\ ~hc.shape.chunked /\ UNCHANGED <<chunk, spoilt>>
        BY <1>1
      <3> QED
        BY <3>1, <3>3, <3>4, <3>5, <3>6, ByteStepKeeps
    <2>3. CASE left = 0
      <3>1. hc' = Finished(Closes(c)) /\ ClosesIf(~hc.shape.keep) /\ c = [hc EXCEPT !.left = left]
        BY <1>1, <1>7, <2>3
      <3> HIDE DEF left, ready, c
      <3>2. hc.op # "none" /\ hc.conn /\ hc.told = 0 /\ ~hc.readHeader
        BY <1>1, HcFacts DEF HcInv, LinkRight, ReadRight, Connected
      <3>3. /\ c \in HcType /\ c.told = 0 /\ c.req = hc.req /\ c.conn
            /\ c.reconnect = hc.reconnect /\ c.tries = hc.tries /\ c.answered = hc.answered /\ c.shape = hc.shape
        BY <2>1, <3>1, <3>2, HcFacts DEF HcType
      <3>4. inbuf' \in Seq(UnitType)
        BY <2>1, BehindFacts
      <3>5. ASSUME ~spoilt
            PROVE  inbuf' = <<>> /\ wire = <<>> /\ srv.todo = <<>>
        <4>1. Len(Stream) <= hc.left
          BY <1>1, <3>2, <3>5 DEF HcInv, Unspoilt, StreamIsOwn, NoSurplus
        <4>2. Len(Behind(m)) = Len(Stream) - m /\ Len(Stream) \in Nat /\ m \in Nat /\ Behind(m) \in Units
          BY BehindFacts
        <4>3. hc.left \in Nat
          BY HcFacts
        <4>4. Len(Behind(m)) <= 0
          BY <2>1, <2>3, <4>1, <4>2, <4>3
        <4>5. Behind(m) = <<>>
          BY <4>2, <4>4, EmptyFacts DEF Units
        <4> QED
          BY <2>1, <4>5, BehindFacts
      <3>6. area' \in {area, <<>>} /\ chunk' \in {chunk, <<>>} /\ UNCHANGED <<spoilt, body>>
        BY <1>1, <2>1
      <3>7. ClosesIf(~c.shape.keep)
        BY <3>1, <3>3
      <3> QED
        BY <2>1, <3>1, <3>2, <3>3, <3>4, <3>5, <3>6, <3>7, CompleteKeeps
    <2> QED
      BY <2>2, <2>3
  <1> QED
    BY <1>6, <1>7

-----------------------------------------------------------------------------
(* Every request ends once, with its own reply.                            *)

LEMMA HcBegins ==
  ASSUME HcInit
  PROVE  HcInv
  <1> DEFINE shape == [chunked |-> FALSE, keep |-> TRUE, trailer |-> FALSE, n |-> 0]
  <1>1. PICK ssl \in BOOLEAN : hc = [op |-> "none", req |-> 0, busy |-> FALSE, conn |-> FALSE, ssl |-> ssl,
          reconnect |-> FALSE, readHeader |-> TRUE, shape |-> shape, eod |-> FALSE, parsed |-> FALSE,
          left |-> 0, tries |-> 0, answered |-> FALSE, told |-> 0]
    BY DEF HcInit
  <1>2. shape \in Shapes
    BY HcAssumption DEF Shapes
  <1>3. 0 \in 0 .. MaxRequests /\ 0 \in 0 .. MaxBody /\ 0 \in 0 .. MaxLoss
    BY HcAssumption
  <1> HIDE DEF shape
  <1>4. /\ hc \in HcType /\ hc.op = "none" /\ ~hc.busy /\ ~hc.conn /\ hc.told = 0 /\ ~hc.reconnect
    BY <1>1, <1>2, <1>3 DEF HcType
  <1>5. /\ inbuf = <<>> /\ area = <<>> /\ chunk = <<>> /\ wire = <<>> /\ body = <<>> /\ spoilt = FALSE
        /\ srv = [open |-> FALSE, todo |-> <<>>, closes |-> FALSE, losses |-> 0]
    BY DEF HcInit
  <1>6. <<>> \in Units /\ Len(<<>>) = 0
    BY DEF Units
  <1>7. srv \in ServerType /\ ~srv.open /\ srv.todo = <<>>
    BY <1>3, <1>5, <1>6 DEF ServerType
  <1>8. HcRight
    BY <1>4, <1>5, <1>6, <1>7 DEF HcRight, HcTypeOK
  <1>9. Stream = <<>>
    BY <1>5, <1>6, <1>7, NothingLeft DEF Stream, Units
  <1> QED
    BY <1>4, <1>5, <1>6, <1>7, <1>8, <1>9
    DEF HcInv, FinishedOnce, LinkRight, ReadRight, RetryRight, Unspoilt, StreamIsOwn, AreaIsOwn, Connected

LEMMA HcStutters ==
  ASSUME HcInv, UNCHANGED hcVars
  PROVE  HcInv'
  BY DEF hcVars, HcInv, HcRight, HcTypeOK, FinishedOnce, LinkRight, ReadRight, RetryRight, Unspoilt, StreamIsOwn,
         AreaIsOwn, Stream

LEMMA HcStep ==
  ASSUME HcInv, [HcNext]_hcVars
  PROVE  HcInv'
  <1>1. CASE BeginExecute
    BY <1>1, BeginExecuteKeeps
  <1>2. CASE Cancel
    BY <1>2, CancelKeeps
  <1>3. CASE OnConnect
    BY <1>3, OnConnectKeeps
  <1>4. CASE OnSslConnect
    BY <1>4, OnSslConnectKeeps
  <1>5. CASE OnOutput
    BY <1>5, OnOutputKeeps
  <1>6. CASE OnInput
    BY <1>6, OnInputKeeps
  <1>7. CASE ProcessHeader
    BY <1>7, ProcessHeaderKeeps
  <1>8. CASE ProcessChunks
    BY <1>8, ProcessChunksKeeps
  <1>9. CASE ChunkAvailable
    BY <1>9, ChunkAvailableKeeps
  <1>10. CASE ProcessBytes
    BY <1>10, ProcessBytesKeeps
  <1>11. CASE BodyThrows
    BY <1>11, BodyThrowsKeeps
  <1>12. CASE ServerSends
    BY <1>12, ServerSendsKeeps
  <1>13. CASE ServerCloses
    BY <1>13, ServerClosesKeeps
  <1>14. CASE UNCHANGED hcVars
    BY <1>14, HcStutters
  <1> QED
    BY <1>1, <1>2, <1>3, <1>4, <1>5, <1>6, <1>7, <1>8, <1>9, <1>10, <1>11, <1>12, <1>13, <1>14
    DEF HcNext, Client, HandlesInput

\* What the program sees follows from the invariant.
LEMMA HcSafe ==
  ASSUME HcInv
  PROVE  HcTypeOK /\ FinishedOnce /\ BodyIsOwn /\ KeptIsClean
  <1>1. HcTypeOK /\ FinishedOnce
    BY DEF HcInv, HcRight
  <1>2. BodyIsOwn
    <2>1. DOMAIN body = 1 .. Len(body)
      BY HcFacts
    <2> QED
      BY <2>1 DEF HcInv, Unspoilt, BodyIsOwn
  <1>3. KeptIsClean
    BY HcFacts, AtRestIsEmpty DEF KeptIsClean
  <1> QED
    BY <1>1, <1>2, <1>3

\* Without the flag no step sends a request again.
LEMMA TriesStay ==
  ASSUME hc \in HcType, ~hc.reconnect, [HcNext]_hcVars
  PROVE  hc'.tries \in {hc.tries, 0}
  <1>1. CASE BeginExecute
    BY <1>1 DEF BeginExecute, HcType
  <1>2. CASE Cancel
    BY <1>2 DEF Cancel, Cancelled, HcType
  <1>3. CASE OnConnect
    BY <1>3 DEF OnConnect, Finished, HcType
  <1>4. CASE OnSslConnect
    BY <1>4 DEF OnSslConnect, Finished, HcType
  <1>5. CASE OnOutput
    BY <1>5 DEF OnOutput, FailsWith, Finished, HcType
  <1>6. CASE OnInput
    <2>1. \/ hc' = [hc EXCEPT !.op = IF hc.readHeader THEN "header" ELSE "body", !.reconnect = FALSE, !.answered = TRUE]
          \/ hc' = Finished(hc)
      BY <1>6 DEF OnInput, FailsWith
    <2> QED
      BY <2>1 DEF Finished, HcType
  <1>7. CASE ProcessHeader
    <2>1. \/ hc' = [hc EXCEPT !.op = "reading"] \/ hc' = Finished(hc)
          \/ \E s, op : hc' = [Announced(s) EXCEPT !.op = op]
          \/ \E s : hc' = Finished(Closes(Announced(s)))
      <3> DEFINE ends == {i \in DOMAIN inbuf : inbuf[i].kind = "head"}
                 i == CHOOSE i \in ends : \A j \in ends : i <= j
                 s == inbuf[i].shape
                 rest == SubSeq(inbuf, i + 1, Len(inbuf))
                 op == IF rest = <<>> THEN "reading" ELSE "body"
      <3>1. \/ hc' = [hc EXCEPT !.op = "reading"] \/ hc' = Finished(hc)
            \/ hc' = [Announced(s) EXCEPT !.op = op]
            \/ hc' = Finished(Closes(Announced(s)))
        BY <1>7 DEF ProcessHeader, Announced
      <3> HIDE DEF ends, i, s, rest, op
      <3> QED
        BY <3>1
    <2> QED
      BY <2>1 DEF Finished, Closes, Announced, HcType
  <1>8. CASE ProcessChunks
    <2>1. \/ hc' = [hc EXCEPT !.op = "loop"] \/ hc' = [hc EXCEPT !.op = "reading"]
          \/ hc' = Finished([hc EXCEPT !.eod = TRUE]) \/ hc' = [hc EXCEPT !.op = "reading", !.eod = TRUE, !.parsed = FALSE]
      BY <1>8 DEF ProcessChunks
    <2> QED
      BY <2>1 DEF Finished, HcType
  <1>9. CASE ChunkAvailable
    <2>1. \/ hc' = hc \/ hc' = [hc EXCEPT !.op = "reading"]
          \/ hc' = [hc EXCEPT !.op = "reading", !.eod = TRUE, !.parsed = FALSE]
      BY <1>9 DEF ChunkAvailable
    <2> QED
      BY <2>1 DEF HcType
  <1>10. CASE ProcessBytes
    <2>1. \E left, op : hc' \in {[[hc EXCEPT !.left = left] EXCEPT !.op = op], Finished(Closes([hc EXCEPT !.left = left]))}
      BY <1>10 DEF ProcessBytes
    <2> QED
      BY <2>1 DEF Finished, Closes, HcType
  <1>11. CASE BodyThrows
    BY <1>11 DEF BodyThrows, Finished, HcType
  <1>12. CASE ServerSends \/ ServerCloses \/ UNCHANGED hcVars
    BY <1>12 DEF ServerSends, ServerCloses, hcVars
  <1> QED
    BY <1>1, <1>2, <1>3, <1>4, <1>5, <1>6, <1>7, <1>8, <1>9, <1>10, <1>11, <1>12
    DEF HcNext, Client, HandlesInput

\* Only an error in front of the first unit of the reply sends a request again.
LEMMA HcResends ==
  ASSUME HcInv, [HcNext]_hcVars
  PROVE  [hc'.tries > hc.tries => hc.tries = 0 /\ ~hc.answered]_hcVars
  <1>1. hc.tries \in Nat
    BY HcFacts DEF HcType
  <1>2. CASE hc.reconnect
    BY <1>2 DEF HcInv, RetryRight
  <1>3. CASE ~hc.reconnect
    <2>1. hc'.tries \in {hc.tries, 0}
      BY <1>3, HcFacts, TriesStay
    <2> QED
      BY <1>1, <2>1
  <1> QED
    BY <1>2, <1>3

\* The invariant of the client holds in every state.
THEOREM HttpClientInvariant == HcSpec => []HcInv
  <1>1. HcInit => HcInv
    BY HcBegins
  <1>2. HcInv /\ [HcNext]_hcVars => HcInv'
    BY HcStep
  <1> QED
    BY <1>1, <1>2, PTL DEF HcSpec

\* A request is told once, with its own body, over a connection without
\* leftovers, and is sent again only if nothing has answered it (clientimpl.cpp).
THEOREM HttpRequestsSound == HcSpec => RequestsSound
  <1>1. HcInv => HcTypeOK /\ FinishedOnce /\ BodyIsOwn /\ KeptIsClean
    BY HcSafe
  <1>2. HcInv /\ [HcNext]_hcVars => [hc'.tries > hc.tries => hc.tries = 0 /\ ~hc.answered]_hcVars
    BY HcResends
  <1> QED
    BY <1>1, <1>2, HttpClientInvariant, PTL DEF HcSpec, RequestsSound, ResentUnanswered

=============================================================================
