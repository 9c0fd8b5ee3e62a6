---------------------------- MODULE WorkerPoolProofs ----------------------------
(***************************************************************************)
(* Proofs about the part that the HTTP and RPC servers share.  PoolInv is  *)
(* the inductive invariant.  The properties of module WorkerPool speak of  *)
(* the owners of a socket or of the number of sockets that accept; none is *)
(* inductive, because each step relies on where the other places of the    *)
(* same socket are and on what kind of socket is where.  Its parts:        *)
(*   Typed         the types, those of the events included;                *)
(*   Control       how the run mode, the steps of terminate(), the set of  *)
(*                 threads and the events about threads go together;       *)
(*   SocketPlaces  a socket is in one place, once, and exists just as long *)
(*                 as it is in one;                                        *)
(*   Kinds         listening sockets are where they are expected, and so   *)
(*                 are connections;                                        *)
(*   Accepting     a listener has a socket that accepts, without SSL one.  *)
(* Each is shown to be preserved by every step of the pool, action by      *)
(* action (PoolTyped, PoolControl, PoolPlaces, PoolKinds, PoolAccepting);  *)
(* HttpProofs and RpcServerProofs do so for the steps of the servers and   *)
(* conclude.                                                               *)
(***************************************************************************)
EXTENDS WorkerPool, FiniteSetTheorems, SequenceTheorems, TLAPS

\* The steps of the pool, whether noWaitingThreads() takes the mutex or not.
PoolNext ==
  \/ \E w \in Workers, locks \in BOOLEAN : WorkerStep(w, locks)
  \/ \E w \in Workers : WorkerWrites(w) \/ AddIdleSocket(w)
  \/ LoopStep \/ ClientStep \/ Exit

-----------------------------------------------------------------------------
(* The inductive invariant.                                                *)

SocketEvents == {"IdleSocket", "ActiveSocket", "KeepAliveTimeout"}

EventSet ==
  {ServerStartEvent, NoWaitingThreadsEvent} \cup {WorkerEvent(w) : w \in Workers}
    \cup {SocketEvent(t, s) : t \in SocketEvents, s \in Sockets}

Typed == PoolTypeOK /\ events \in Seq(EventSet)

\* x is in a sequence at most once.
Once(q, x) == \A i, j \in DOMAIN q : q[i] = x /\ q[j] = x => i = j

\* The places a socket may be in: the queue, an event, a worker (or idle).
Queued(s) == s \in Range(queue)
Told(t, s) == SocketEvent(t, s) \in Range(events)
Held(s) == \E w \in Workers : Holding(w) /\ sock[w] = s

\* The run mode and the steps of terminate().
Phases ==
  /\ loop \in {"wake", "join"} <=> runmode = "Terminating"
  /\ loop = "done" => runmode = "Stopped"
  /\ runmode = "Starting" => loop \in {"run", "drain"}
  /\ loop = "done" => threads = {} /\ terminated = {} /\ queue = <<>> /\ idle = {}
  /\ loop \notin {"run", "drain"} =>
       ServerStartEvent \notin Range(events) /\ \A s \in Sockets : ~Told("KeepAliveTimeout", s)

\* Nothing happens before start().
NotStarted ==
  ServerStartEvent \in Range(events) =>
    /\ events = <<ServerStartEvent>> /\ runmode = "Stopped"
    /\ threads = {} /\ terminated = {} /\ idle = {} /\ \A w \in Workers : pc[w] = "none"

\* The null pointer is in the queue, or in a worker that has just got it and
\* will put it back, only while terminate() brings the threads down.
NullInTheEnd ==
  /\ Queued(Null) => runmode = "Terminating"
  /\ \A w \in Workers : Holding(w) /\ sock[w] = Null => pc[w] = "got" /\ runmode = "Terminating"

\* A worker that has ended is either known as terminated or has an event that
\* says so.
Registered ==
  /\ threads = {w \in Workers : pc[w] \notin {"none", "done"}}
  /\ \A w \in terminated : pc[w] = "done"
  /\ \A w \in Workers :
       /\ WorkerEvent(w) \in Range(events) => pc[w] = "done" /\ w \notin terminated
       /\ pc[w] = "done" => w \in terminated \/ WorkerEvent(w) \in Range(events)
       /\ Once(events, WorkerEvent(w))

Control == Phases /\ NotStarted /\ NullInTheEnd /\ Registered

\* A socket is in no place twice,
QueuedOnce == \A s \in Sockets : Once(queue, s)
ToldOnce == \A s \in Sockets, t \in SocketEvents : Once(events, SocketEvent(t, s))
HeldOnce ==
  \A w, v \in Workers : Holding(w) /\ Holding(v) /\ sock[w] = sock[v] /\ sock[w] # Null => w = v

\* in no two places (a timeout that is told points at an idle socket),
OnePlace ==
  \A s \in Sockets :
    /\ Queued(s) => ~Held(s) /\ ~Told("IdleSocket", s) /\ ~Told("ActiveSocket", s) /\ s \notin idle
    /\ Held(s) => ~Told("IdleSocket", s) /\ ~Told("ActiveSocket", s) /\ s \notin idle
    /\ Told("IdleSocket", s) => ~Told("ActiveSocket", s) /\ s \notin idle
    /\ Told("ActiveSocket", s) => s \notin idle
    /\ Told("KeepAliveTimeout", s) => s \in idle

\* and in one place as long as it exists.
AliveIsSomewhere ==
  \A s \in Sockets :
    s \in alive <=> Queued(s) \/ Held(s) \/ Told("IdleSocket", s) \/ Told("ActiveSocket", s) \/ s \in idle

SocketPlaces == QueuedOnce /\ ToldOnce /\ HeldOnce /\ OnePlace /\ AliveIsSomewhere

Serving == runmode # "Terminating" /\ loop # "done"

\* Only connections are idle, told of or have input and output; what is in
\* accept() listens, and is connected only from accept() until the connection
\* is accepted.
Kinds ==
  /\ idle \subseteq accepted /\ input \subseteq accepted /\ writing \subseteq accepted
  /\ \A s \in Sockets : Told("IdleSocket", s) \/ Told("ActiveSocket", s) => s \in accepted
  /\ \A w \in Workers :
       /\ pc[w] \in {"io", "commit"} => sock[w] \in accepted
       /\ pc[w] \in {"accept", "accepted", "post"} => sock[w] \notin accepted
  /\ Serving =>
       /\ \A s \in Sockets : Queued(s) => s \in accepted \/ s \notin connected
       /\ \A w \in Workers :
            /\ pc[w] \in {"got", "starve", "tell", "serve"} => sock[w] \in accepted \/ sock[w] \notin connected
            /\ pc[w] = "accept" => sock[w] \notin connected
            /\ pc[w] \in {"accepted", "post"} => sock[w] \in connected

\* Worker w has accepted on l and is about to queue the next accept socket.
Accepts(l, w) == pc[w] = "accepted" /\ home[sock[w]] = l

Served == Serving => \A l \in Listeners : Acceptors(l) # {} \/ \E w \in Workers : Accepts(l, w)

ServedOnce ==
  Serving /\ ~Ssl =>
    \A l \in Listeners :
      /\ \A s, t \in Acceptors(l) : s = t
      /\ \A w, v \in Workers : Accepts(l, w) /\ Accepts(l, v) => w = v
      /\ \A s \in Acceptors(l), w \in Workers : ~Accepts(l, w)

Accepting == Served /\ ServedOnce

PoolInv == Typed /\ Control /\ SocketPlaces /\ Kinds /\ Accepting

-----------------------------------------------------------------------------
(* Sequences without repetition.                                           *)

\* Append adds one element, at most once if it was not there.
LEMMA AppendEffect ==
  ASSUME NEW S, NEW q \in Seq(S), NEW e \in S
  PROVE  /\ Append(q, e) \in Seq(S)
         /\ Range(Append(q, e)) = Range(q) \cup {e}
         /\ \A x : Once(q, x) /\ (x = e => x \notin Range(q)) => Once(Append(q, e), x)
  <1> DEFINE r == Append(q, e)
  <1>1. /\ r \in Seq(S) /\ Len(r) = Len(q) + 1 /\ DOMAIN r = 1..Len(q) + 1
        /\ DOMAIN q = 1..Len(q) /\ Len(q) \in Nat
        /\ \A i \in 1..Len(q) : r[i] = q[i]
        /\ r[Len(q) + 1] = e
    OBVIOUS
  <1> HIDE DEF r
  <1>2. Range(r) = Range(q) \cup {e}
    BY <1>1 DEF Range
  <1>3. ASSUME NEW x, Once(q, x), x = e => x \notin Range(q)
        PROVE  Once(r, x)
    <2> SUFFICES ASSUME NEW i \in DOMAIN r, NEW j \in DOMAIN r, r[i] = x, r[j] = x
                 PROVE  i = j
      BY DEF Once
    <2>1. CASE i \in 1..Len(q) /\ j \in 1..Len(q)
      BY <2>1, <1>1, <1>3 DEF Once
    <2>2. CASE i = Len(q) + 1 \/ j = Len(q) + 1
      <3>1. x = e
        BY <1>1, <2>2
      <3>2. \A k \in 1..Len(q) : r[k] # x
        BY <1>1, <1>3, <3>1 DEF Range
      <3> QED
        BY <1>1, <3>2, <2>2
    <2> QED
      BY <1>1, <2>1, <2>2
  <1> QED
    BY <1>1, <1>2, <1>3 DEF r

\* Tail takes away the head, for good if it was there once.
LEMMA TailEffect ==
  ASSUME NEW S, NEW q \in Seq(S), q # <<>>
  PROVE  /\ Tail(q) \in Seq(S) /\ Head(q) \in S
         /\ Range(q) = Range(Tail(q)) \cup {Head(q)}
         /\ \A x : Once(q, x) => Once(Tail(q), x) /\ (x = Head(q) => x \notin Range(Tail(q)))
  <1> DEFINE r == Tail(q)
  <1>1. /\ r \in Seq(S) /\ Len(r) = Len(q) - 1 /\ DOMAIN r = 1..Len(q) - 1
        /\ DOMAIN q = 1..Len(q) /\ Len(q) \in Nat /\ Len(q) >= 1
        /\ \A i \in 1..Len(q) - 1 : r[i] = q[i + 1]
        /\ Head(q) = q[1] /\ q[1] \in S
    OBVIOUS
  <1>2. Range(q) = Range(r) \cup {Head(q)}
    <2> HIDE DEF r
    <2>1. ASSUME NEW i \in 1..Len(q) PROVE q[i] \in Range(r) \cup {q[1]}
      <3>1. CASE i = 1
        BY <3>1
      <3>2. CASE i # 1
        <4>1. i - 1 \in 1..Len(q) - 1 /\ r[i - 1] = q[i]
          BY <3>2, <1>1
        <4> QED
          BY <4>1, <1>1 DEF Range
      <3> QED
        BY <3>1, <3>2
    <2>2. ASSUME NEW i \in 1..Len(q) - 1 PROVE r[i] \in Range(q)
      <3>1. i + 1 \in 1..Len(q) /\ r[i] = q[i + 1]
        BY <1>1
      <3> QED
        BY <3>1, <1>1 DEF Range
    <2>3. Range(q) \subseteq Range(r) \cup {Head(q)}
      BY <2>1, <1>1 DEF Range
    <2>4. Range(r) \subseteq Range(q)
      BY <2>2, <1>1 DEF Range
    <2>5. Head(q) \in Range(q)
      BY <1>1 DEF Range
    <2> QED
      BY <2>3, <2>4, <2>5
  <1>3. ASSUME NEW x, Once(q, x)
        PROVE  Once(r, x) /\ (x = Head(q) => x \notin Range(r))
    <2> HIDE DEF r
    <2>1. ASSUME NEW i \in 1..Len(q) - 1, NEW j \in 1..Len(q) - 1, r[i] = x, r[j] = x
          PROVE  i = j
      <3>1. i + 1 \in DOMAIN q /\ j + 1 \in DOMAIN q /\ q[i + 1] = x /\ q[j + 1] = x
        BY <1>1, <2>1
      <3>2. i + 1 = j + 1
        BY <3>1, <1>3 DEF Once
      <3> QED
        BY <3>2
    <2>2. ASSUME x = q[1], NEW i \in 1..Len(q) - 1, r[i] = x
          PROVE  FALSE
      <3>1. i + 1 \in DOMAIN q /\ 1 \in DOMAIN q /\ q[i + 1] = x /\ q[1] = x
        BY <1>1, <2>2
      <3>2. i + 1 = 1
        BY <3>1, <1>3 DEF Once
      <3> QED
        BY <3>2
    <2> QED
      BY <2>1, <2>2, <1>1 DEF Once, Range
  <1> QED
    BY <1>1, <1>2, <1>3

-----------------------------------------------------------------------------
(* Types.                                                                  *)

\* Queue::put and get keep sockets in the queue.
LEMMA QueueTyped ==
  ASSUME Typed
  PROVE  /\ \A s \in Sockets \cup {Null} : Append(queue, s) \in Seq(Sockets \cup {Null})
         /\ queue # <<>> => Tail(queue) \in Seq(Sockets \cup {Null}) /\ Head(queue) \in Sockets \cup {Null}
  BY DEF Typed, PoolTypeOK

\* Committing and taking events keeps events in the event queue.
LEMMA EventsTyped ==
  ASSUME Typed
  PROVE  /\ \A e \in EventSet : Append(events, e) \in Seq(EventSet)
         /\ events # <<>> => Tail(events) \in Seq(EventSet) /\ Head(events) \in EventSet
         /\ \A w \in Workers : WorkerEvent(w) \in EventSet
         /\ \A s \in Sockets, t \in SocketEvents : SocketEvent(t, s) \in EventSet
         /\ NoWaitingThreadsEvent \in EventSet
  <1>1. events \in Seq(EventSet)
    BY DEF Typed
  <1> QED
    BY <1>1 DEF EventSet

\* The handler of an event finds what was committed.
LEMMA HeadEvent ==
  ASSUME Typed, NEW type, Handles(type)
  PROVE  /\ events # <<>> /\ Head(events) \in EventSet /\ Tail(events) \in Seq(EventSet)
         /\ type = "ThreadTerminated" => \E w \in Workers : Head(events) = WorkerEvent(w)
         /\ type \in SocketEvents => \E s \in Sockets : Head(events) = SocketEvent(type, s)
         /\ type = "ServerStart" => Head(events) = ServerStartEvent
         /\ type = "NoWaitingThreads" => Head(events) = NoWaitingThreadsEvent
         /\ loop \in {"run", "drain"} /\ runmode # "Starting"
  <1>1. /\ events # <<>> /\ Head(events) \in EventSet /\ Tail(events) \in Seq(EventSet)
        /\ Head(events).type = type /\ loop \in {"run", "drain"} /\ runmode # "Starting"
    BY EventsTyped DEF Handles
  <1> QED
    BY <1>1 DEF EventSet, WorkerEvent, SocketEvent, ServerStartEvent, NoWaitingThreadsEvent, SocketEvents

\* _queue.put(new Socket(*s)): the new socket is at a free address.
LEMMA PutTyped ==
  ASSUME Typed, NEW s \in Sockets, NEW gone, PutAcceptSocket(s, gone)
  PROVE  /\ \E n \in Sockets \ (alive \cup Referenced) :
              /\ queue' = Append(queue, n)
              /\ alive' = (alive \cup {n}) \ gone
              /\ home' = [home EXCEPT ![n] = home[s]]
         /\ queue' \in Seq(Sockets \cup {Null}) /\ alive' \subseteq Sockets
         /\ alive \ gone \subseteq alive' /\ connected' = connected \ gone
         /\ accepted' = accepted /\ input' = input /\ writing' = writing
         /\ home' \in [Sockets -> Listeners]
  <1>1. PICK n \in Allocate(Free) :
            /\ queue' = Append(queue, n)
            /\ alive' = (alive \cup {n}) \ gone
            /\ connected' = connected \ gone
            /\ home' = [home EXCEPT ![n] = home[s]]
            /\ UNCHANGED <<accepted, input, writing>>
    BY DEF PutAcceptSocket
  <1>2. n \in Sockets \ (alive \cup Referenced)
    BY <1>1 DEF Allocate, Free
  <1>3. home[s] \in Listeners /\ home \in [Sockets -> Listeners] /\ alive \subseteq Sockets
    BY DEF Typed, PoolTypeOK
  <1> QED
    BY <1>1, <1>2, <1>3, QueueTyped

\* A worker beyond the look at the run mode has a socket that exists, and has
\* it alone.
LEMMA HeldSocket ==
  ASSUME Typed, NullInTheEnd, HeldOnce, OnePlace, AliveIsSomewhere,
         NEW w \in Workers, Holding(w), sock[w] # Null
  PROVE  /\ sock[w] \in Sockets /\ sock[w] \in alive /\ sock[w] \notin idle
         /\ ~Queued(sock[w]) /\ ~Told("IdleSocket", sock[w]) /\ ~Told("ActiveSocket", sock[w])
         /\ ~Told("KeepAliveTimeout", sock[w])
         /\ \A v \in Workers \ {w} : Holding(v) => sock[v] # sock[w]
  <1>1. sock[w] \in Sockets /\ Held(sock[w])
    BY DEF Typed, PoolTypeOK, Held
  <1>2. sock[w] \in alive
    BY <1>1 DEF AliveIsSomewhere
  <1>3. \A v \in Workers \ {w} : Holding(v) => sock[v] # sock[w]
    BY DEF HeldOnce
  <1> QED
    BY <1>1, <1>2, <1>3 DEF OnePlace

\* Only a worker that has just returned from get() may have the null pointer.
LEMMA NotNull ==
  ASSUME NullInTheEnd, NEW w \in Workers,
         pc[w] \in {"starve", "tell", "serve", "accept", "accepted", "post", "io", "commit"}
  PROVE  Holding(w) /\ sock[w] # Null
  BY DEF NullInTheEnd, Holding

\* There are enough workers for the first threads.
LEMMA FirstThreads ==
  LET new == CHOOSE n \in SUBSET Workers : Cardinality(n) = MinThreads
  IN  new \in SUBSET Workers /\ Cardinality(new) = MinThreads
  <1>1. IsFiniteSet(Workers) /\ MinThreads \in Nat /\ Cardinality(Workers) \in Nat
        /\ MinThreads <= Cardinality(Workers)
    BY PoolAssumption, ResourceAssumption, FS_CardinalityType
  <1>2. PICK f : f \in Bijection(1..Cardinality(Workers), Workers)
    BY <1>1, FS_CardinalityType DEF ExistsBijection
  <1> DEFINE first == {f[i] : i \in 1..MinThreads}
  <1>3. f \in [1..Cardinality(Workers) -> Workers] /\ IsInjective(f)
    BY <1>2 DEF Bijection, Injection
  <1>4. 1..MinThreads \subseteq 1..Cardinality(Workers)
    BY <1>1
  <1>5. [i \in 1..MinThreads |-> f[i]] \in Bijection(1..MinThreads, first)
    BY <1>3, <1>4 DEF Bijection, Injection, Surjection, IsInjective
  <1>6. IsFiniteSet(1..MinThreads) /\ Cardinality(1..MinThreads) = MinThreads
    BY <1>1, FS_Interval
  <1>7. Cardinality(first) = MinThreads
    BY <1>5, <1>6, FS_Bijection DEF ExistsBijection
  <1>8. first \in SUBSET Workers
    BY <1>3, <1>4
  <1> QED
    BY <1>7, <1>8

\* Every step of the pool keeps the types.
LEMMA PoolTyped ==
  ASSUME PoolInv, PoolNext
  PROVE  Typed'
  <1>0. Typed /\ NullInTheEnd /\ HeldOnce /\ OnePlace /\ AliveIsSomewhere /\ Kinds
    BY DEF PoolInv, Control, SocketPlaces
  <1> USE <1>0
  <1>1. ASSUME NEW w \in Workers, WorkerLoop(w)
        PROVE  Typed'
    BY <1>1 DEF WorkerLoop, Typed, PoolTypeOK, Goto, Leave, Delete, Close, pool, objects, net
  <1>2. ASSUME NEW w \in Workers, WorkerCount(w)
        PROVE  Typed'
    BY <1>2 DEF WorkerCount, Typed, PoolTypeOK, Goto, Leave, Delete, Close, pool, objects, net
  <1>3. ASSUME NEW w \in Workers, WorkerWaits(w)
        PROVE  Typed'
    BY <1>3 DEF WorkerWaits, Typed, PoolTypeOK, Goto, Leave, Delete, Close, pool, objects, net
  <1>4. ASSUME NEW w \in Workers, WorkerGets(w)
        PROVE  Typed'
    <2>1. queue' \in Seq(Sockets \cup {Null}) /\ Head(queue) \in Sockets \cup {Null}
      BY <1>4, QueueTyped DEF WorkerGets
    <2> QED
      BY <1>4, <2>1 DEF WorkerGets, Typed, PoolTypeOK, Goto, Leave, Delete, Close, pool, objects, net
  <1>5. ASSUME NEW w \in Workers, WorkerGot(w)
        PROVE  Typed'
    <2>1. sock[w] \in Sockets \cup {Null}
      BY DEF Typed, PoolTypeOK
    <2>2. queue' = queue \/ queue' = Append(queue, sock[w])
      BY <1>5 DEF WorkerGot
    <2>3. queue' \in Seq(Sockets \cup {Null})
      BY <2>1, <2>2, QueueTyped DEF Typed, PoolTypeOK
    <2> QED
      BY <1>5, <2>1, <2>3 DEF WorkerGot, Typed, PoolTypeOK, Goto, Leave, Delete, Close, pool, objects, net
  <1>6. ASSUME NEW w \in Workers, NEW locks \in BOOLEAN, NoWaitingThreads(w, locks)
        PROVE  Typed'
    <2>1. events' \in Seq(EventSet)
      BY <1>6, EventsTyped DEF NoWaitingThreads
    <2> QED
      BY <1>6, <2>1 DEF NoWaitingThreads, Typed, PoolTypeOK, Goto, Leave, Delete, Close, pool, objects, net
  <1>7. ASSUME NEW w \in Workers, WorkerServe(w)
        PROVE  Typed'
    BY <1>7 DEF WorkerServe, Typed, PoolTypeOK, Goto, Leave, Delete, Close, pool, objects, net
  <1>8. ASSUME NEW w \in Workers, AcceptTerminated(w)
        PROVE  Typed'
    <2>1. sock[w] \in Sockets /\ sock[w] \in alive
      BY <1>8, NotNull, HeldSocket DEF AcceptTerminated
    <2>2. sock[w] \notin accepted
      BY <1>8 DEF AcceptTerminated, Kinds
    <2>3. input \subseteq accepted /\ writing \subseteq accepted
      BY DEF Kinds
    <2>4. PutAcceptSocket(sock[w], {sock[w]}) /\ events' = events
      BY <1>8 DEF AcceptTerminated
    <2>5. /\ queue' \in Seq(Sockets \cup {Null}) /\ alive' \subseteq Sockets
          /\ alive \ {sock[w]} \subseteq alive' /\ connected' = connected \ {sock[w]}
          /\ accepted' = accepted /\ input' = input /\ writing' = writing
          /\ home' \in [Sockets -> Listeners]
      BY <2>1, <2>4, PutTyped
    <2>6. /\ connected' \subseteq alive' /\ accepted' \subseteq alive'
          /\ input' \subseteq alive' /\ writing' \subseteq alive'
      BY <2>2, <2>3, <2>5 DEF Typed, PoolTypeOK
    <2>7. sock' \in [Workers -> Sockets \cup {Null}] /\ home[sock[w]] \in Listeners
      BY <1>8, <2>1 DEF AcceptTerminated, Leave, Typed, PoolTypeOK
    <2> HIDE DEF PutAcceptSocket
    <2> QED
      BY <1>8, <2>4, <2>5, <2>6, <2>7 DEF AcceptTerminated, Typed, PoolTypeOK, Goto, Leave, Delete, Close, pool, objects, net
  <1>9. ASSUME NEW w \in Workers, AcceptConnection(w)
        PROVE  Typed'
    <2>1. sock[w] \in Sockets /\ sock[w] \in alive
      BY <1>9, NotNull, HeldSocket DEF AcceptConnection
    <2>2. sock[w] \notin accepted
      BY <1>9 DEF AcceptConnection, Kinds
    <2>3. input \subseteq accepted /\ writing \subseteq accepted
      BY DEF Kinds
    <2> QED
      BY <1>9, <2>1 DEF AcceptConnection, Typed, PoolTypeOK, Goto, Leave, Delete, Close, pool, objects, net
  <1>10. ASSUME NEW w \in Workers, AcceptFails(w)
        PROVE  Typed'
    <2>1. sock[w] \in Sockets /\ sock[w] \in alive
      BY <1>10, NotNull, HeldSocket DEF AcceptFails
    <2>2. sock[w] \notin accepted
      BY <1>10 DEF AcceptFails, Kinds
    <2>3. input \subseteq accepted /\ writing \subseteq accepted
      BY DEF Kinds
    <2>4. PutAcceptSocket(sock[w], {sock[w]}) /\ events' = events
      BY <1>10 DEF AcceptFails
    <2>5. /\ queue' \in Seq(Sockets \cup {Null}) /\ alive' \subseteq Sockets
          /\ alive \ {sock[w]} \subseteq alive' /\ connected' = connected \ {sock[w]}
          /\ accepted' = accepted /\ input' = input /\ writing' = writing
          /\ home' \in [Sockets -> Listeners]
      BY <2>1, <2>4, PutTyped
    <2>6. /\ connected' \subseteq alive' /\ accepted' \subseteq alive'
          /\ input' \subseteq alive' /\ writing' \subseteq alive'
      BY <2>2, <2>3, <2>5 DEF Typed, PoolTypeOK
    <2>7. sock' \in [Workers -> Sockets \cup {Null}] /\ home[sock[w]] \in Listeners
      BY <1>10, <2>1 DEF AcceptFails, Leave, Typed, PoolTypeOK
    <2> HIDE DEF PutAcceptSocket
    <2> QED
      BY <1>10, <2>4, <2>5, <2>6, <2>7 DEF AcceptFails, Typed, PoolTypeOK, Goto, Leave, Delete, Close, pool, objects, net
  <1>11. ASSUME NEW w \in Workers, WorkerAccepted(w)
        PROVE  Typed'
    <2>1. sock[w] \in Sockets /\ sock[w] \in alive
      BY <1>11, NotNull, HeldSocket DEF WorkerAccepted
    <2>2. sock[w] \notin accepted
      BY <1>11 DEF WorkerAccepted, Kinds
    <2>3. input \subseteq accepted /\ writing \subseteq accepted
      BY DEF Kinds
    <2>4. CASE isTerminating
      <3>1. queue' \in Seq(Sockets \cup {Null})
        BY <1>11, <2>1, <2>4, QueueTyped DEF WorkerAccepted
      <3> QED
        BY <1>11, <2>4, <3>1 DEF WorkerAccepted, Typed, PoolTypeOK, Goto, Leave, Delete, Close, pool, objects, net
    <2>5. CASE ~(isTerminating)
      <3>1. PutAcceptSocket(sock[w], {}) /\ events' = events
        BY <1>11, <2>5 DEF WorkerAccepted
      <3>2. /\ queue' \in Seq(Sockets \cup {Null}) /\ alive' \subseteq Sockets
            /\ alive \ {} \subseteq alive' /\ connected' = connected \ {}
            /\ accepted' = accepted /\ input' = input /\ writing' = writing
            /\ home' \in [Sockets -> Listeners]
        BY <2>1, <3>1, PutTyped
      <3>3. /\ connected' \subseteq alive' /\ accepted' \subseteq alive'
            /\ input' \subseteq alive' /\ writing' \subseteq alive'
        BY <2>2, <2>3, <3>2 DEF Typed, PoolTypeOK
      <3> QED
        BY <1>11, <2>5, <3>1, <3>2, <3>3 DEF WorkerAccepted, Typed, PoolTypeOK, Goto, Leave, Delete, Close, pool, objects, net
    <2> QED
      BY <2>4, <2>5
  <1>12. ASSUME NEW w \in Workers, PostAccept(w)
        PROVE  Typed'
    <2>1. sock[w] \in Sockets /\ sock[w] \in alive
      BY <1>12, NotNull, HeldSocket DEF PostAccept
    <2>2. sock[w] \notin accepted
      BY <1>12 DEF PostAccept, Kinds
    <2>3. input \subseteq accepted /\ writing \subseteq accepted
      BY DEF Kinds
    <2>4. CASE accepted' = accepted \cup {sock[w]} /\ UNCHANGED <<queue, alive, connected, input, writing, home>> /\ Goto(w, "io")
      BY <1>12, <2>1, <2>4 DEF PostAccept, Typed, PoolTypeOK, Goto, Leave, Delete, Close, pool, objects, net
    <2>5. CASE PutAcceptSocket(sock[w], {sock[w]}) /\ Leave(w, "loop")
      <3>1. PutAcceptSocket(sock[w], {sock[w]}) /\ events' = events
        BY <1>12, <2>5 DEF PostAccept
      <3>2. /\ queue' \in Seq(Sockets \cup {Null}) /\ alive' \subseteq Sockets
            /\ alive \ {sock[w]} \subseteq alive' /\ connected' = connected \ {sock[w]}
            /\ accepted' = accepted /\ input' = input /\ writing' = writing
            /\ home' \in [Sockets -> Listeners]
        BY <2>1, <3>1, PutTyped
      <3>3. /\ connected' \subseteq alive' /\ accepted' \subseteq alive'
            /\ input' \subseteq alive' /\ writing' \subseteq alive'
        BY <2>2, <2>3, <3>2 DEF Typed, PoolTypeOK
      <3> QED
        BY <1>12, <2>5, <3>1, <3>2, <3>3 DEF PostAccept, Typed, PoolTypeOK, Goto, Leave, Delete, Close, pool, objects, net
    <2> QED
      BY <1>12, <2>4, <2>5 DEF PostAccept
  <1>13. ASSUME NEW w \in Workers, WorkerReads(w)
        PROVE  Typed'
    <2>1. sock[w] \in Sockets /\ sock[w] \in alive
      BY <1>13, NotNull, HeldSocket DEF WorkerReads
    <2> QED
      BY <1>13, <2>1 DEF WorkerReads, Typed, PoolTypeOK, Goto, Leave, Delete, Close, pool, objects, net
  <1>14. ASSUME NEW w \in Workers, WorkerFails(w)
        PROVE  Typed'
    BY <1>14 DEF WorkerFails, Typed, PoolTypeOK, Goto, Leave, Delete, Close, pool, objects, net
  <1>15. ASSUME NEW w \in Workers, WorkerClosed(w)
        PROVE  Typed'
    <2>1. sock[w] \in Sockets \cup {Null}
      BY DEF Typed, PoolTypeOK
    <2>2. queue' = queue \/ queue' = Append(queue, sock[w])
      BY <1>15 DEF WorkerClosed
    <2>3. queue' \in Seq(Sockets \cup {Null})
      BY <2>1, <2>2, QueueTyped DEF Typed, PoolTypeOK
    <2> QED
      BY <1>15, <2>1, <2>3 DEF WorkerClosed, Typed, PoolTypeOK, Goto, Leave, Delete, Close, pool, objects, net
  <1>16. ASSUME NEW w \in Workers, ThreadTerminated(w)
        PROVE  Typed'
    <2>1. events' \in Seq(EventSet)
      BY <1>16, EventsTyped DEF ThreadTerminated
    <2> QED
      BY <1>16, <2>1 DEF ThreadTerminated, Typed, PoolTypeOK, Goto, Leave, Delete, Close, pool, objects, net
  <1>17. ASSUME NEW w \in Workers, WorkerWrites(w)
        PROVE  Typed'
    BY <1>17 DEF WorkerWrites, Typed, PoolTypeOK, Goto, Leave, Delete, Close, pool, objects, net
  <1>18. ASSUME NEW w \in Workers, AddIdleSocket(w)
        PROVE  Typed'
    BY <1>18 DEF AddIdleSocket, Typed, PoolTypeOK, Goto, Leave, Delete, Close, pool, objects, net
  <1>19. CASE OnServerStart
    <2>1. Handles("ServerStart") /\ events' = Tail(events)
      BY <1>19 DEF OnServerStart
    <2>2. events' \in Seq(EventSet)
      BY <2>1, HeadEvent
    <2>3. PICK new \in SUBSET Workers :
            /\ threads' = threads \cup new
            /\ pc' = [w \in Workers |-> IF w \in new THEN "loop" ELSE pc[w]]
      BY <1>19, FirstThreads DEF OnServerStart
    <2> QED
      BY <1>19, <2>2, <2>3 DEF OnServerStart, Typed, PoolTypeOK, Goto, Leave, Delete, Close, pool, objects, net
  <1>20. CASE Running
    BY <1>20 DEF Running, Typed, PoolTypeOK, Goto, Leave, Delete, Close, pool, objects, net
  <1>21. CASE OnNoWaitingThreads
    <2>1. Handles("NoWaitingThreads") /\ events' = Tail(events)
      BY <1>21 DEF OnNoWaitingThreads
    <2>2. events' \in Seq(EventSet)
      BY <2>1, HeadEvent
    <2>3. CASE UNCHANGED <<threads, pc, sock>>
      BY <1>21, <2>2, <2>3 DEF OnNoWaitingThreads, Typed, PoolTypeOK, Goto, Leave, Delete, Close, pool, objects, net
    <2>4. ASSUME NEW w \in Workers, threads' = threads \cup {w}, Goto(w, "loop")
          PROVE  Typed'
      BY <1>21, <2>2, <2>4 DEF OnNoWaitingThreads, Typed, PoolTypeOK, Goto, Leave, Delete, Close, pool, objects, net
    <2> QED
      BY <1>21, <2>3, <2>4 DEF OnNoWaitingThreads, Allocate
  <1>22. CASE OnThreadTerminated
    <2>1. Handles("ThreadTerminated")
      BY <1>22 DEF OnThreadTerminated
    <2> QED
      BY <1>22, <2>1, HeadEvent DEF OnThreadTerminated, Typed, PoolTypeOK, Goto, Leave, Delete, Close, pool, objects, net, SocketEvents, WorkerEvent, SocketEvent
  <1>23. CASE OnIdleSocket
    <2>1. Handles("IdleSocket")
      BY <1>23 DEF OnIdleSocket
    <2> QED
      BY <1>23, <2>1, HeadEvent DEF OnIdleSocket, Typed, PoolTypeOK, Goto, Leave, Delete, Close, pool, objects, net, SocketEvents, WorkerEvent, SocketEvent
  <1>24. CASE Drained
    BY <1>24 DEF Drained, Typed, PoolTypeOK, Goto, Leave, Delete, Close, pool, objects, net
  <1>25. CASE Terminating
    BY <1>25 DEF Terminating, Typed, PoolTypeOK, Goto, Leave, Delete, Close, pool, objects, net
  <1>26. CASE WakeThreads
    <2>1. queue' \in Seq(Sockets \cup {Null})
      BY <1>26, QueueTyped DEF WakeThreads
    <2> QED
      BY <1>26, <2>1 DEF WakeThreads, Typed, PoolTypeOK, Goto, Leave, Delete, Close, pool, objects, net
  <1>27. CASE JoinThreads
    BY <1>27 DEF JoinThreads, Typed, PoolTypeOK, Goto, Leave, Delete, Close, pool, objects, net
  <1>28. CASE Stopped
    BY <1>28 DEF Stopped, Typed, PoolTypeOK, Goto, Leave, Delete, Close, pool, objects, net
  <1>29. ASSUME NEW l \in Listeners, ClientConnects(l)
        PROVE  Typed'
    BY <1>29 DEF ClientConnects, Typed, PoolTypeOK, Goto, Leave, Delete, Close, pool, objects, net
  <1>30. ASSUME NEW s \in Sockets, ClientSends(s)
        PROVE  Typed'
    BY <1>30 DEF ClientSends, Typed, PoolTypeOK, Goto, Leave, Delete, Close, pool, objects, net
  <1>31. CASE Exit
    BY <1>31 DEF Exit, Typed, PoolTypeOK, Goto, Leave, Delete, Close, pool, objects, net
  <1>32. ASSUME NEW w \in Workers, CommitIdleSocket(w)
        PROVE  Typed'
    <2>1. sock[w] \in Sockets
      BY <1>32, NotNull, HeldSocket DEF CommitIdleSocket
    <2>2. events' \in Seq(EventSet)
      BY <1>32, <2>1, EventsTyped DEF CommitIdleSocket, SocketEvents
    <2> QED
      BY <1>32, <2>2 DEF CommitIdleSocket, Typed, PoolTypeOK, Goto, Leave, Delete, Close, pool, objects, net
  <1>33. ASSUME NEW w \in Workers, CommitNoWaitingThreads(w)
        PROVE  Typed'
    <2>1. events' \in Seq(EventSet)
      BY <1>33, EventsTyped DEF CommitNoWaitingThreads
    <2> QED
      BY <1>33, <2>1 DEF CommitNoWaitingThreads, Typed, PoolTypeOK, Goto, Leave, Delete, Close, pool, objects, net
  <1> QED
    BY <1>1, <1>2, <1>3, <1>4, <1>5, <1>6, <1>7, <1>8, <1>9, <1>10, <1>11, <1>12, <1>13, <1>14, <1>15, <1>16, <1>17, <1>18, <1>19, <1>20, <1>21, <1>22, <1>23, <1>24, <1>25, <1>26, <1>27, <1>28, <1>29, <1>30, <1>31, <1>32, <1>33 DEF PoolNext, WorkerStep, LoopStep, ClientStep

-----------------------------------------------------------------------------
(* Effects on queues, events and workers.                                  *)

\* Events are told apart by their type and what they are about.
LEMMA EventsDiffer ==
  /\ \A w, v : WorkerEvent(w) = WorkerEvent(v) => w = v
  /\ \A t, u, s, r : SocketEvent(t, s) = SocketEvent(u, r) => t = u /\ s = r
  /\ \A t \in SocketEvents : \A s, w :
       /\ SocketEvent(t, s) # WorkerEvent(w)
       /\ SocketEvent(t, s) # NoWaitingThreadsEvent
       /\ SocketEvent(t, s) # ServerStartEvent
  /\ \A w : WorkerEvent(w) # NoWaitingThreadsEvent /\ WorkerEvent(w) # ServerStartEvent
  /\ NoWaitingThreadsEvent # ServerStartEvent
  <1>1. /\ \A w : WorkerEvent(w).type = "ThreadTerminated" /\ WorkerEvent(w).worker = w
        /\ \A t, s : SocketEvent(t, s).type = t /\ SocketEvent(t, s).socket = s
        /\ NoWaitingThreadsEvent.type = "NoWaitingThreads"
        /\ ServerStartEvent.type = "ServerStart"
    BY DEF WorkerEvent, SocketEvent, NoWaitingThreadsEvent, ServerStartEvent
  <1> QED
    BY <1>1 DEF SocketEvents

\* What a put, a get, a commit and a handled event do to who is queued and told.
LEMMA QueuePut ==
  ASSUME Typed, NEW s \in Sockets \cup {Null}, queue' = Append(queue, s)
  PROVE  /\ \A x : Queued(x)' <=> Queued(x) \/ x = s
         /\ QueuedOnce /\ (s \in Sockets => ~Queued(s)) => QueuedOnce'
  <1>1. queue \in Seq(Sockets \cup {Null})
    BY DEF Typed, PoolTypeOK
  <1> QED
    BY <1>1, AppendEffect DEF Queued, QueuedOnce

\* Who is queued after a get.
LEMMA QueueGet ==
  ASSUME Typed, queue # <<>>, queue' = Tail(queue)
  PROVE  /\ Head(queue) \in Sockets \cup {Null}
         /\ \A x : Queued(x) <=> Queued(x)' \/ x = Head(queue)
         /\ QueuedOnce => QueuedOnce' /\ (Head(queue) \in Sockets => Head(queue) \notin Range(queue'))
  <1>1. queue \in Seq(Sockets \cup {Null})
    BY DEF Typed, PoolTypeOK
  <1>2. /\ Head(queue) \in Sockets \cup {Null}
        /\ Range(queue) = Range(queue') \cup {Head(queue)}
        /\ \A x : Once(queue, x) =>
             Once(queue', x) /\ (x = Head(queue) => x \notin Range(queue'))
    BY <1>1, TailEffect
  <1> QED
    BY <1>2 DEF Queued, QueuedOnce

\* The event queue after an event is committed.
LEMMA EventPut ==
  ASSUME Typed, NEW e \in EventSet, events' = Append(events, e)
  PROVE  /\ Range(events') = Range(events) \cup {e}
         /\ \A x : Once(events, x) /\ (x = e => x \notin Range(events)) => Once(events', x)
  BY AppendEffect DEF Typed

\* The event queue after an event is taken.
LEMMA EventGet ==
  ASSUME Typed, events # <<>>, events' = Tail(events)
  PROVE  /\ Head(events) \in EventSet
         /\ Range(events) = Range(events') \cup {Head(events)}
         /\ \A x : Once(events, x) =>
              Once(events', x) /\ (x = Head(events) => x \notin Range(events'))
  BY TailEffect DEF Typed

\* Events that are not about sockets.
LEMMA ToldSame ==
  ASSUME Typed, ToldOnce,
         \/ events' = events
         \/ \E e \in EventSet :
              /\ \A t \in SocketEvents, s \in Sockets : e # SocketEvent(t, s)
              /\ \/ events' = Append(events, e)
                 \/ events # <<>> /\ events' = Tail(events) /\ Head(events) = e
  PROVE  /\ \A t \in SocketEvents, s \in Sockets : Told(t, s)' <=> Told(t, s)
         /\ ToldOnce'
  <1>1. CASE events' = events
    BY <1>1 DEF Told, ToldOnce
  <1>2. ASSUME NEW e \in EventSet, events' = Append(events, e),
               \A t \in SocketEvents, s \in Sockets : e # SocketEvent(t, s)
        PROVE  /\ \A t \in SocketEvents, s \in Sockets : Told(t, s)' <=> Told(t, s)
               /\ ToldOnce'
    BY <1>2, EventPut DEF Told, ToldOnce
  <1>3. ASSUME NEW e \in EventSet, events # <<>>, events' = Tail(events), Head(events) = e,
               \A t \in SocketEvents, s \in Sockets : e # SocketEvent(t, s)
        PROVE  /\ \A t \in SocketEvents, s \in Sockets : Told(t, s)' <=> Told(t, s)
               /\ ToldOnce'
    BY <1>3, EventGet DEF Told, ToldOnce
  <1> QED
    BY <1>1, <1>2, <1>3

\* Who is told of after an event about a socket is committed.
LEMMA ToldPut ==
  ASSUME Typed, ToldOnce, NEW u \in SocketEvents, NEW r \in Sockets,
         events' = Append(events, SocketEvent(u, r)), ~Told(u, r)
  PROVE  /\ \A t \in SocketEvents, s \in Sockets : Told(t, s)' <=> Told(t, s) \/ (t = u /\ s = r)
         /\ ToldOnce'
  <1>1. SocketEvent(u, r) \in EventSet
    BY EventsTyped
  <1>2. /\ Range(events') = Range(events) \cup {SocketEvent(u, r)}
        /\ \A x : Once(events, x) /\ (x = SocketEvent(u, r) => x \notin Range(events)) => Once(events', x)
    BY <1>1, EventPut
  <1>3. ASSUME NEW t \in SocketEvents, NEW s \in Sockets
        PROVE  Told(t, s)' <=> Told(t, s) \/ (t = u /\ s = r)
    <2>1. SocketEvent(t, s) = SocketEvent(u, r) <=> t = u /\ s = r
      BY EventsDiffer
    <2> QED
      BY <1>2, <2>1 DEF Told
  <1>4. ToldOnce'
    BY <1>2 DEF Told, ToldOnce
  <1> QED
    BY <1>3, <1>4

\* Who is told of after an event about a socket is taken.
LEMMA ToldGet ==
  ASSUME Typed, ToldOnce, NEW u \in SocketEvents, Handles(u), events' = Tail(events)
  PROVE  \E r \in Sockets :
           /\ Head(events) = SocketEvent(u, r) /\ Head(events).socket = r /\ Told(u, r)
           /\ \A t \in SocketEvents, s \in Sockets : Told(t, s)' <=> Told(t, s) /\ ~(t = u /\ s = r)
           /\ ToldOnce'
  <1>1. PICK r \in Sockets : Head(events) = SocketEvent(u, r)
    BY HeadEvent
  <1>2. Head(events).socket = r
    BY <1>1 DEF SocketEvent
  <1>3. events # <<>>
    BY HeadEvent
  <1>4. Told(u, r) /\ ToldOnce'
    BY <1>1, <1>3, EventGet DEF Told, ToldOnce
  <1>5. \A t \in SocketEvents, s \in Sockets : Told(t, s)' <=> Told(t, s) /\ ~(t = u /\ s = r)
    BY <1>1, <1>3, EventGet, EventsDiffer DEF Told, ToldOnce
  <1> QED
    BY <1>1, <1>2, <1>4, <1>5

\* The sockets that the workers hold.
LEMMA HeldSame ==
  ASSUME HeldOnce, sock' = sock, \A v \in Workers : Holding(v)' <=> Holding(v)
  PROVE  (\A x \in Sockets : Held(x)' <=> Held(x)) /\ HeldOnce'
  BY DEF Held, HeldOnce

\* A worker goes on without its socket.
LEMMA HeldLeft ==
  ASSUME Typed, HeldOnce, NEW w \in Workers, Holding(w), NEW l \in {"loop", "end"}, Leave(w, l)
  PROVE  /\ \A x \in Sockets : Held(x)' <=> Held(x) /\ x # sock[w]
         /\ HeldOnce'
         /\ \A v \in Workers : Holding(v)' <=> Holding(v) /\ v # w
         /\ \A v \in Workers : Holding(v)' => sock'[v] = sock[v] /\ pc'[v] = pc[v]
  <1>1. /\ \A v \in Workers : Holding(v)' <=> Holding(v) /\ v # w
        /\ \A v \in Workers \ {w} : sock'[v] = sock[v] /\ pc'[v] = pc[v]
    BY DEF Leave, Holding, Typed, PoolTypeOK
  <1>2. \A x \in Sockets : x # Null
    BY PoolAssumption
  <1>3. HeldOnce'
    BY <1>1 DEF HeldOnce
  <1>4. ASSUME NEW x \in Sockets
        PROVE  Held(x)' <=> Held(x) /\ x # sock[w]
    BY <1>1, <1>2 DEF Held, HeldOnce
  <1> QED
    BY <1>1, <1>3, <1>4

-----------------------------------------------------------------------------
(* One place for each socket.                                              *)

\* What becomes of the sockets when nobody hands one over, ...
LEMMA PlacesStay ==
  ASSUME Typed, SocketPlaces,
         queue' = queue, idle' = idle, alive' = alive, sock' = sock,
         \A v \in Workers : Holding(v)' <=> Holding(v),
         \/ events' = events
         \/ \E e \in EventSet :
              /\ \A t \in SocketEvents, s \in Sockets : e # SocketEvent(t, s)
              /\ \/ events' = Append(events, e)
                 \/ events # <<>> /\ events' = Tail(events) /\ Head(events) = e
  PROVE  SocketPlaces'
  <1>1. (\A t \in SocketEvents, s \in Sockets : Told(t, s)' <=> Told(t, s)) /\ ToldOnce'
    BY ToldSame DEF SocketPlaces
  <1>2. (\A s \in Sockets : Held(s)' <=> Held(s)) /\ HeldOnce'
    BY HeldSame DEF SocketPlaces
  <1>3. (\A s \in Sockets : Queued(s)' <=> Queued(s)) /\ QueuedOnce'
    BY DEF SocketPlaces, Queued, QueuedOnce
  <1> QED
    BY <1>1, <1>2, <1>3 DEF SocketPlaces, OnePlace, AliveIsSomewhere, SocketEvents

\* ... when a worker puts its socket back into the queue, ...
LEMMA PlacesPutBack ==
  ASSUME Typed, SocketPlaces, NullInTheEnd,
         NEW w \in Workers, Holding(w), NEW l \in {"loop", "end"}, Leave(w, l),
         queue' = Append(queue, sock[w]), events' = events, idle' = idle, alive' = alive
  PROVE  SocketPlaces'
  <1>1. /\ sock[w] \in Sockets \cup {Null}
        /\ sock[w] \in Sockets => /\ Held(sock[w]) /\ sock[w] \notin idle
                                  /\ ~Queued(sock[w]) /\ ~Told("IdleSocket", sock[w])
                                  /\ ~Told("ActiveSocket", sock[w]) /\ ~Told("KeepAliveTimeout", sock[w])
    BY HeldSocket, PoolAssumption DEF Typed, PoolTypeOK, SocketPlaces, Held
  <1>2. (\A t \in SocketEvents, s \in Sockets : Told(t, s)' <=> Told(t, s)) /\ ToldOnce'
    BY ToldSame DEF SocketPlaces
  <1>3. (\A s \in Sockets : Held(s)' <=> Held(s) /\ s # sock[w]) /\ HeldOnce'
    BY HeldLeft DEF SocketPlaces
  <1>4. (\A s \in Sockets : Queued(s)' <=> Queued(s) \/ s = sock[w]) /\ QueuedOnce'
    BY <1>1, QueuePut DEF SocketPlaces
  <1> QED
    BY <1>1, <1>2, <1>3, <1>4 DEF SocketPlaces, OnePlace, AliveIsSomewhere, SocketEvents

\* ... when it deletes the socket, ...
LEMMA PlacesDelete ==
  ASSUME Typed, SocketPlaces, NullInTheEnd,
         NEW w \in Workers, Holding(w), sock[w] # Null, NEW l \in {"loop", "end"}, Leave(w, l),
         queue' = queue, events' = events, idle' = idle, alive' = alive \ {sock[w]}
  PROVE  SocketPlaces'
  <1>1. /\ sock[w] \in Sockets /\ Held(sock[w]) /\ sock[w] \notin idle
        /\ ~Queued(sock[w]) /\ ~Told("IdleSocket", sock[w])
        /\ ~Told("ActiveSocket", sock[w]) /\ ~Told("KeepAliveTimeout", sock[w])
    BY HeldSocket DEF SocketPlaces, Held
  <1>2. (\A t \in SocketEvents, s \in Sockets : Told(t, s)' <=> Told(t, s)) /\ ToldOnce'
    BY ToldSame DEF SocketPlaces
  <1>3. (\A s \in Sockets : Held(s)' <=> Held(s) /\ s # sock[w]) /\ HeldOnce'
    BY HeldLeft DEF SocketPlaces
  <1>4. (\A s \in Sockets : Queued(s)' <=> Queued(s)) /\ QueuedOnce'
    BY DEF SocketPlaces, Queued, QueuedOnce
  <1> QED
    BY <1>1, <1>2, <1>3, <1>4 DEF SocketPlaces, OnePlace, AliveIsSomewhere, SocketEvents

\* ... and when it puts a new one into the queue and keeps or deletes its own.
LEMMA NewIsNowhere ==
  ASSUME Typed, NEW n \in Sockets \ (alive \cup Referenced)
  PROVE  /\ n \notin alive /\ ~Queued(n) /\ ~Held(n) /\ n \notin idle
         /\ \A t \in SocketEvents : ~Told(t, n)
  <1>1. n \notin Range(queue) /\ n \notin idle /\ ~Held(n)
    BY DEF Referenced, Held
  <1>2. ASSUME NEW t \in SocketEvents, Told(t, n)
        PROVE  FALSE
    <2>1. PICK i \in DOMAIN events : events[i] = SocketEvent(t, n)
      BY <1>2 DEF Told, Range
    <2>2. events[i].type = t /\ events[i].socket = n
      BY <2>1 DEF SocketEvent
    <2>3. n \in EventSockets(CarryingEvents \cup {"KeepAliveTimeout"})
      BY <2>1, <2>2 DEF EventSockets, CarryingEvents, SocketEvents
    <2> QED
      BY <2>3 DEF Referenced
  <1> QED
    BY <1>1, <1>2 DEF Queued

\* A worker queues a new accept socket, and deletes the one it has or keeps it.
LEMMA PlacesPutAccept ==
  ASSUME Typed, SocketPlaces, NullInTheEnd,
         NEW w \in Workers, Holding(w), sock[w] # Null,
         NEW gone, PutAcceptSocket(sock[w], gone), events' = events, idle' = idle,
         \/ gone = {sock[w]} /\ \E l \in {"loop", "end"} : Leave(w, l)
         \/ gone = {} /\ sock' = sock /\ \A v \in Workers : Holding(v)' <=> Holding(v)
  PROVE  SocketPlaces'
  <1>1. /\ sock[w] \in Sockets /\ Held(sock[w]) /\ sock[w] \notin idle /\ sock[w] \in alive
        /\ ~Queued(sock[w]) /\ ~Told("IdleSocket", sock[w])
        /\ ~Told("ActiveSocket", sock[w]) /\ ~Told("KeepAliveTimeout", sock[w])
    BY HeldSocket DEF SocketPlaces, Held
  <1>2. PICK n \in Sockets \ (alive \cup Referenced) :
          queue' = Append(queue, n) /\ alive' = (alive \cup {n}) \ gone
    BY <1>1, PutTyped
  <1>3. /\ n \notin alive /\ ~Queued(n) /\ ~Held(n) /\ n \notin idle
        /\ \A t \in SocketEvents : ~Told(t, n)
    BY NewIsNowhere
  <1>4. (\A t \in SocketEvents, s \in Sockets : Told(t, s)' <=> Told(t, s)) /\ ToldOnce'
    BY ToldSame DEF SocketPlaces
  <1>5. (\A s \in Sockets : Queued(s)' <=> Queued(s) \/ s = n) /\ QueuedOnce'
    BY <1>2, <1>3, QueuePut DEF SocketPlaces
  <1>6. (\A s \in Sockets : Held(s)' <=> Held(s) /\ s \notin gone) /\ HeldOnce'
    <2>1. CASE gone = {sock[w]} /\ \E l \in {"loop", "end"} : Leave(w, l)
      BY <2>1, HeldLeft DEF SocketPlaces
    <2>2. CASE gone = {} /\ sock' = sock /\ \A v \in Workers : Holding(v)' <=> Holding(v)
      BY <2>2, HeldSame DEF SocketPlaces
    <2> QED
      BY <2>1, <2>2
  <1>7. gone \subseteq {sock[w]}
    OBVIOUS
  <1> QED
    BY <1>1, <1>2, <1>3, <1>4, <1>5, <1>6, <1>7
    DEF SocketPlaces, OnePlace, AliveIsSomewhere, SocketEvents

\* Every step of the pool keeps each socket in one place.
LEMMA PoolPlaces ==
  ASSUME PoolInv, PoolNext
  PROVE  SocketPlaces'
  <1>0. /\ Typed /\ NullInTheEnd /\ SocketPlaces /\ Phases /\ NotStarted /\ Registered
        /\ QueuedOnce /\ ToldOnce /\ HeldOnce /\ OnePlace /\ AliveIsSomewhere
    BY DEF PoolInv, Control, SocketPlaces
  <1> USE <1>0
  <1>1. ASSUME NEW w \in Workers, WorkerLoop(w)
        PROVE  SocketPlaces'
    BY <1>1, PlacesStay DEF WorkerLoop, Goto, Holding, Typed, PoolTypeOK, objects, pool, Close
  <1>2. ASSUME NEW w \in Workers, WorkerCount(w)
        PROVE  SocketPlaces'
    BY <1>2, PlacesStay DEF WorkerCount, Goto, Holding, Typed, PoolTypeOK, objects, pool, Close
  <1>3. ASSUME NEW w \in Workers, WorkerWaits(w)
        PROVE  SocketPlaces'
    BY <1>3, PlacesStay DEF WorkerWaits, Goto, Holding, Typed, PoolTypeOK, objects, pool, Close
  <1>4. ASSUME NEW w \in Workers, WorkerGets(w)
        PROVE  SocketPlaces'
    <2>1. /\ Head(queue) \in Sockets \cup {Null}
          /\ \A x : Queued(x) <=> Queued(x)' \/ x = Head(queue)
          /\ QueuedOnce'
          /\ Head(queue) \in Sockets => Head(queue) \notin Range(queue')
      BY <1>4, QueueGet DEF WorkerGets, SocketPlaces
    <2>2. /\ (\A t \in SocketEvents, s \in Sockets : Told(t, s)' <=> Told(t, s)) /\ ToldOnce'
          /\ idle' = idle /\ alive' = alive
      BY <1>4, ToldSame DEF WorkerGets, objects
    <2>3. /\ ~Holding(w) /\ Holding(w)' /\ sock'[w] = Head(queue)
          /\ \A v \in Workers \ {w} : (Holding(v)' <=> Holding(v)) /\ sock'[v] = sock[v]
      BY <1>4 DEF WorkerGets, Holding, Typed, PoolTypeOK
    <2>4. \A s \in Sockets : Held(s)' <=> Held(s) \/ s = Head(queue)
      BY <2>3 DEF Held
    <2>5. Head(queue) \in Sockets => ~Held(Head(queue))
      BY <2>1 DEF OnePlace
    <2>6. HeldOnce'
      BY <2>1, <2>3, <2>5 DEF HeldOnce, Held
    <2> QED
      BY <2>1, <2>2, <2>4, <2>6 DEF SocketPlaces, OnePlace, AliveIsSomewhere, SocketEvents, Queued
  <1>5. ASSUME NEW w \in Workers, WorkerGot(w)
        PROVE  SocketPlaces'
    <2>1. CASE queue' = Append(queue, sock[w]) /\ Leave(w, "end")
      BY <1>5, <2>1, PlacesPutBack DEF WorkerGot, Holding, objects
    <2>2. CASE queue' = queue /\ ~isTerminating
      BY <1>5, <2>2, PlacesStay DEF WorkerGot, Goto, Holding, Typed, PoolTypeOK, objects
    <2> QED
      BY <1>5, <2>1, <2>2 DEF WorkerGot
  <1>6. ASSUME NEW w \in Workers, NEW locks \in BOOLEAN, NoWaitingThreads(w, locks)
        PROVE  SocketPlaces'
    <2>1. sock' = sock /\ \A v \in Workers : Holding(v)' <=> Holding(v)
      BY <1>6 DEF NoWaitingThreads, Goto, Holding, Typed, PoolTypeOK, pool
    <2>2. \/ events' = events
          \/ \E e \in EventSet :
               /\ \A t \in SocketEvents, s \in Sockets : e # SocketEvent(t, s)
               /\ events' = Append(events, e)
      BY <1>6, EventsTyped, EventsDiffer DEF NoWaitingThreads
    <2>3. queue' = queue /\ idle' = idle /\ alive' = alive
      BY <1>6 DEF NoWaitingThreads, objects
    <2> QED
      BY <2>1, <2>2, <2>3, PlacesStay
  <1>7. ASSUME NEW w \in Workers, WorkerServe(w)
        PROVE  SocketPlaces'
    <2>1. Holding(w) /\ sock[w] # Null
      BY <1>7, NotNull DEF WorkerServe
    <2>2. CASE Leave(w, "loop") /\ Delete({sock[w]})
      BY <1>7, <2>1, <2>2, PlacesDelete DEF WorkerServe, Delete
    <2>3. CASE \E l \in {"accept", "io"} : Goto(w, l) /\ UNCHANGED objects
      BY <1>7, <2>3, PlacesStay DEF WorkerServe, Goto, Holding, Typed, PoolTypeOK, objects
    <2> QED
      BY <1>7, <2>2, <2>3 DEF WorkerServe
  <1>8. ASSUME NEW w \in Workers, AcceptTerminated(w)
        PROVE  SocketPlaces'
    <2>1. Holding(w) /\ sock[w] # Null
      BY <1>8, NotNull DEF AcceptTerminated
    <2> QED
      BY <1>8, <2>1, PlacesPutAccept DEF AcceptTerminated
  <1>9. ASSUME NEW w \in Workers, AcceptConnection(w)
        PROVE  SocketPlaces'
    BY <1>9, PlacesStay DEF AcceptConnection, Goto, Holding, Typed, PoolTypeOK, objects, pool, Close
  <1>10. ASSUME NEW w \in Workers, AcceptFails(w)
        PROVE  SocketPlaces'
    <2>1. Holding(w) /\ sock[w] # Null
      BY <1>10, NotNull DEF AcceptFails
    <2> QED
      BY <1>10, <2>1, PlacesPutAccept DEF AcceptFails
  <1>11. ASSUME NEW w \in Workers, WorkerAccepted(w)
        PROVE  SocketPlaces'
    <2>1. Holding(w) /\ sock[w] # Null
      BY <1>11, NotNull DEF WorkerAccepted
    <2>2. CASE queue' = Append(queue, sock[w]) /\ Leave(w, "end") /\ UNCHANGED objects
      BY <1>11, <2>1, <2>2, PlacesPutBack DEF WorkerAccepted, objects
    <2>3. CASE PutAcceptSocket(sock[w], {}) /\ Goto(w, "post")
      <3>1. sock' = sock /\ \A v \in Workers : Holding(v)' <=> Holding(v)
        BY <1>11, <2>3 DEF WorkerAccepted, Goto, Holding, Typed, PoolTypeOK
      <3> QED
        BY <1>11, <2>1, <2>3, <3>1, PlacesPutAccept DEF WorkerAccepted
    <2> QED
      BY <1>11, <2>2, <2>3 DEF WorkerAccepted
  <1>12. ASSUME NEW w \in Workers, PostAccept(w)
        PROVE  SocketPlaces'
    <2>1. Holding(w) /\ sock[w] # Null
      BY <1>12, NotNull DEF PostAccept
    <2>2. CASE PutAcceptSocket(sock[w], {sock[w]}) /\ Leave(w, "loop")
      BY <1>12, <2>1, <2>2, PlacesPutAccept DEF PostAccept
    <2>3. CASE Goto(w, "io") /\ UNCHANGED <<queue, alive, connected, input, writing, home>>
      BY <1>12, <2>3, PlacesStay DEF PostAccept, Goto, Holding, Typed, PoolTypeOK
    <2> QED
      BY <1>12, <2>2, <2>3 DEF PostAccept
  <1>13. ASSUME NEW w \in Workers, WorkerReads(w)
        PROVE  SocketPlaces'
    BY <1>13, PlacesStay DEF WorkerReads, Goto, Holding, Typed, PoolTypeOK, objects, pool, Close
  <1>14. ASSUME NEW w \in Workers, WorkerFails(w)
        PROVE  SocketPlaces'
    <2>1. Holding(w) /\ sock[w] # Null
      BY <1>14, NotNull DEF WorkerFails
    <2> QED
      BY <1>14, <2>1, PlacesDelete DEF WorkerFails, Delete
  <1>15. ASSUME NEW w \in Workers, WorkerClosed(w)
        PROVE  SocketPlaces'
    <2>1. Holding(w) /\ sock[w] # Null
      BY <1>15, NotNull DEF WorkerClosed
    <2>2. CASE queue' = Append(queue, sock[w]) /\ UNCHANGED objects
      BY <1>15, <2>1, <2>2, PlacesPutBack DEF WorkerClosed, objects
    <2>3. CASE Delete({sock[w]}) /\ UNCHANGED queue
      BY <1>15, <2>1, <2>3, PlacesDelete DEF WorkerClosed, Delete
    <2> QED
      BY <1>15, <2>2, <2>3 DEF WorkerClosed
  <1>16. ASSUME NEW w \in Workers, ThreadTerminated(w)
        PROVE  SocketPlaces'
    <2>1. sock' = sock /\ \A v \in Workers : Holding(v)' <=> Holding(v)
      BY <1>16 DEF ThreadTerminated, Goto, Holding, Typed, PoolTypeOK, pool
    <2>2. \/ events' = events
          \/ \E e \in EventSet :
               /\ \A t \in SocketEvents, s \in Sockets : e # SocketEvent(t, s)
               /\ events' = Append(events, e)
      BY <1>16, EventsTyped, EventsDiffer DEF ThreadTerminated
    <2>3. queue' = queue /\ idle' = idle /\ alive' = alive
      BY <1>16 DEF ThreadTerminated, objects
    <2> QED
      BY <2>1, <2>2, <2>3, PlacesStay
  <1>17. ASSUME NEW w \in Workers, WorkerWrites(w)
        PROVE  SocketPlaces'
    BY <1>17, PlacesStay DEF WorkerWrites, Goto, Holding, Typed, PoolTypeOK, objects, pool, Close
  <1>18. ASSUME NEW w \in Workers, AddIdleSocket(w)
        PROVE  SocketPlaces'
    <2>1. Holding(w) /\ sock[w] # Null
      BY <1>18, NotNull DEF AddIdleSocket
    <2>2. CASE Delete({sock[w]}) /\ Leave(w, "loop")
      BY <1>18, <2>1, <2>2, PlacesDelete DEF AddIdleSocket, Delete
    <2>3. CASE Goto(w, "commit") /\ UNCHANGED objects
      BY <1>18, <2>3, PlacesStay DEF AddIdleSocket, Goto, Holding, Typed, PoolTypeOK, objects
    <2> QED
      BY <1>18, <2>2, <2>3 DEF AddIdleSocket
  <1>19. CASE OnServerStart
    <2>1. Handles("ServerStart") /\ events' = Tail(events)
      BY <1>19 DEF OnServerStart
    <2>2. \E e \in EventSet :
            /\ \A t \in SocketEvents, s \in Sockets : e # SocketEvent(t, s)
            /\ events # <<>> /\ events' = Tail(events) /\ Head(events) = e
      BY <2>1, HeadEvent, EventsDiffer
    <2>3. queue' = queue /\ idle' = idle /\ alive' = alive
      BY <1>19 DEF OnServerStart, objects
    <2>4. sock' = sock /\ \A v \in Workers : Holding(v)' <=> Holding(v)
      <3>1. PICK new \in SUBSET Workers : pc' = [w \in Workers |-> IF w \in new THEN "loop" ELSE pc[w]]
        BY <1>19, FirstThreads DEF OnServerStart
      <3>2. \A v \in Workers : pc[v] = "none"
        BY <2>1, HeadEvent, EventGet DEF NotStarted
      <3> QED
        BY <1>19, <3>1, <3>2 DEF OnServerStart, Holding
    <2> QED
      BY <2>2, <2>3, <2>4, PlacesStay
  <1>20. CASE Running
    BY <1>20, PlacesStay DEF Running, Goto, Holding, Typed, PoolTypeOK, objects, pool, Close
  <1>21. CASE OnNoWaitingThreads
    <2>1. Handles("NoWaitingThreads") /\ events' = Tail(events)
      BY <1>21 DEF OnNoWaitingThreads
    <2>2. \E e \in EventSet :
            /\ \A t \in SocketEvents, s \in Sockets : e # SocketEvent(t, s)
            /\ events # <<>> /\ events' = Tail(events) /\ Head(events) = e
      BY <2>1, HeadEvent, EventsDiffer
    <2>3. queue' = queue /\ idle' = idle /\ alive' = alive
      BY <1>21 DEF OnNoWaitingThreads, objects
    <2>4. sock' = sock /\ \A v \in Workers : Holding(v)' <=> Holding(v)
      <3>1. \/ UNCHANGED <<pc, sock>>
            \/ \E w \in Workers : pc[w] = "none" /\ Goto(w, "loop")
        BY <1>21 DEF OnNoWaitingThreads, Allocate
      <3> QED
        BY <3>1 DEF Goto, Holding, Typed, PoolTypeOK
    <2> QED
      BY <2>2, <2>3, <2>4, PlacesStay
  <1>22. CASE OnThreadTerminated
    <2>1. Handles("ThreadTerminated") /\ events' = Tail(events)
      BY <1>22 DEF OnThreadTerminated
    <2>2. \E e \in EventSet :
            /\ \A t \in SocketEvents, s \in Sockets : e # SocketEvent(t, s)
            /\ events # <<>> /\ events' = Tail(events) /\ Head(events) = e
      BY <2>1, HeadEvent, EventsDiffer
    <2>3. queue' = queue /\ idle' = idle /\ alive' = alive
      BY <1>22 DEF OnThreadTerminated, objects
    <2>4. sock' = sock /\ \A v \in Workers : Holding(v)' <=> Holding(v)
      <3>1. PICK w \in Workers : Head(events) = WorkerEvent(w)
        BY <2>1, HeadEvent
      <3>2. Goto(w, "none")
        BY <1>22, <3>1 DEF OnThreadTerminated, WorkerEvent
      <3>3. pc[w] = "done"
        BY <2>1, <3>1, HeadEvent, EventGet DEF Registered
      <3> QED
        BY <3>2, <3>3 DEF Goto, Holding, Typed, PoolTypeOK
    <2> QED
      BY <2>2, <2>3, <2>4, PlacesStay
  <1>23. CASE OnIdleSocket
    <2>1. Handles("IdleSocket") /\ events' = Tail(events)
      BY <1>23 DEF OnIdleSocket
    <2>2. PICK s \in Sockets :
            /\ Head(events).socket = s /\ Told("IdleSocket", s) /\ ToldOnce'
            /\ \A t \in SocketEvents, x \in Sockets :
                 Told(t, x)' <=> Told(t, x) /\ ~(t = "IdleSocket" /\ x = s)
      BY <2>1, ToldGet DEF SocketEvents
    <2>3. (\A x \in Sockets : Held(x)' <=> Held(x)) /\ HeldOnce'
      BY <1>23, HeldSame DEF OnIdleSocket, Holding
    <2>4. /\ (\A x \in Sockets : Queued(x)' <=> Queued(x)) /\ QueuedOnce'
          /\ idle' = idle \cup {s} /\ alive' = alive
      BY <1>23, <2>2 DEF OnIdleSocket, objects, Queued, QueuedOnce
    <2> QED
      BY <2>2, <2>3, <2>4 DEF SocketPlaces, OnePlace, AliveIsSomewhere, SocketEvents
  <1>24. CASE Drained
    BY <1>24, PlacesStay DEF Drained, Goto, Holding, Typed, PoolTypeOK, objects, pool, Close
  <1>25. CASE Terminating
    BY <1>25, PlacesStay DEF Terminating, Goto, Holding, Typed, PoolTypeOK, objects, pool, Close
  <1>26. CASE WakeThreads
    <2>1. \A x \in Sockets : x # Null
      BY PoolAssumption
    <2>2. (\A x \in Sockets : Queued(x)' <=> Queued(x)) /\ QueuedOnce'
      BY <1>26, <2>1, QueuePut DEF WakeThreads
    <2>3. (\A t \in SocketEvents, s \in Sockets : Told(t, s)' <=> Told(t, s)) /\ ToldOnce'
      BY <1>26, ToldSame DEF WakeThreads
    <2>4. (\A x \in Sockets : Held(x)' <=> Held(x)) /\ HeldOnce'
      BY <1>26, HeldSame DEF WakeThreads, Holding
    <2>5. idle' = idle /\ alive' = alive
      BY <1>26 DEF WakeThreads, objects
    <2> QED
      BY <2>2, <2>3, <2>4, <2>5 DEF SocketPlaces, OnePlace, AliveIsSomewhere, SocketEvents
  <1>27. CASE JoinThreads
    <2>1. sock' = sock /\ \A v \in Workers : Holding(v)' <=> Holding(v)
      BY <1>27 DEF JoinThreads, Registered, Holding, Typed, PoolTypeOK
    <2> QED
      BY <1>27, <2>1, PlacesStay DEF JoinThreads, objects
  <1>28. CASE Stopped
    <2>1. queue' = <<>> /\ Range(queue') = {} /\ idle' = {} /\ alive' = alive \ (idle \cup Range(queue))
      BY <1>28 DEF Stopped, Delete, Range
    <2>2. \A v \in Workers : ~Holding(v) /\ ~Holding(v)'
      BY <1>28 DEF Stopped, Registered, Holding
    <2>3. (\A t \in SocketEvents, s \in Sockets : Told(t, s)' <=> Told(t, s)) /\ ToldOnce'
      BY <1>28, ToldSame DEF Stopped
    <2>4. QueuedOnce' /\ HeldOnce'
      BY <2>1, <2>2 DEF QueuedOnce, Once, HeldOnce
    <2>5. \A s \in Sockets : ~Queued(s)' /\ ~Held(s) /\ ~Held(s)' /\ ~Told("KeepAliveTimeout", s)
      BY <1>28, <2>1, <2>2 DEF Stopped, Queued, Held, Phases
    <2> QED
      BY <2>1, <2>3, <2>4, <2>5 DEF SocketPlaces, OnePlace, AliveIsSomewhere, SocketEvents, Queued
  <1>29. ASSUME NEW l \in Listeners, ClientConnects(l)
        PROVE  SocketPlaces'
    BY <1>29, PlacesStay DEF ClientConnects, Goto, Holding, Typed, PoolTypeOK, objects, pool, Close
  <1>30. ASSUME NEW s \in Sockets, ClientSends(s)
        PROVE  SocketPlaces'
    BY <1>30, PlacesStay DEF ClientSends, Goto, Holding, Typed, PoolTypeOK, objects, pool, Close
  <1>31. CASE Exit
    BY <1>31, PlacesStay DEF Exit, Goto, Holding, Typed, PoolTypeOK, objects, pool, Close
  <1>32. ASSUME NEW w \in Workers, CommitIdleSocket(w)
        PROVE  SocketPlaces'
    <2>1. Holding(w) /\ sock[w] # Null
      BY <1>32, NotNull DEF CommitIdleSocket
    <2>2. /\ sock[w] \in Sockets /\ Held(sock[w]) /\ sock[w] \notin idle
          /\ ~Queued(sock[w]) /\ ~Told("IdleSocket", sock[w])
          /\ ~Told("ActiveSocket", sock[w]) /\ ~Told("KeepAliveTimeout", sock[w])
      BY <2>1, HeldSocket DEF Held
    <2>3. /\ \A t \in SocketEvents, s \in Sockets :
               Told(t, s)' <=> Told(t, s) \/ (t = "IdleSocket" /\ s = sock[w])
          /\ ToldOnce'
      BY <1>32, <2>2, ToldPut DEF CommitIdleSocket, SocketEvents
    <2>4. (\A s \in Sockets : Held(s)' <=> Held(s) /\ s # sock[w]) /\ HeldOnce'
      BY <1>32, <2>1, HeldLeft DEF CommitIdleSocket
    <2>5. (\A s \in Sockets : Queued(s)' <=> Queued(s)) /\ QueuedOnce' /\ idle' = idle /\ alive' = alive
      BY <1>32 DEF CommitIdleSocket, objects, Queued, QueuedOnce
    <2> QED
      BY <2>2, <2>3, <2>4, <2>5 DEF SocketPlaces, OnePlace, AliveIsSomewhere, SocketEvents
  <1>33. ASSUME NEW w \in Workers, CommitNoWaitingThreads(w)
        PROVE  SocketPlaces'
    <2>1. sock' = sock /\ \A v \in Workers : Holding(v)' <=> Holding(v)
      BY <1>33 DEF CommitNoWaitingThreads, Goto, Holding, Typed, PoolTypeOK, pool
    <2>2. \/ events' = events
          \/ \E e \in EventSet :
               /\ \A t \in SocketEvents, s \in Sockets : e # SocketEvent(t, s)
               /\ events' = Append(events, e)
      BY <1>33, EventsTyped, EventsDiffer DEF CommitNoWaitingThreads
    <2>3. queue' = queue /\ idle' = idle /\ alive' = alive
      BY <1>33 DEF CommitNoWaitingThreads, objects
    <2> QED
      BY <2>1, <2>2, <2>3, PlacesStay
  <1> QED
    BY <1>1, <1>2, <1>3, <1>4, <1>5, <1>6, <1>7, <1>8, <1>9, <1>10, <1>11, <1>12, <1>13, <1>14, <1>15, <1>16, <1>17, <1>18, <1>19, <1>20, <1>21, <1>22, <1>23, <1>24, <1>25, <1>26, <1>27, <1>28, <1>29, <1>30, <1>31, <1>32, <1>33 DEF PoolNext, WorkerStep, LoopStep, ClientStep

-----------------------------------------------------------------------------
(* Start, end and join.                                                    *)

\* A worker that has not ended is registered, so terminate() is not done.
LEMMA WorkerRuns ==
  ASSUME Phases, NotStarted, Registered, NEW w \in Workers, pc[w] \notin {"none", "done"}
  PROVE  /\ w \in threads /\ loop # "done" /\ ServerStartEvent \notin Range(events)
         /\ WorkerEvent(w) \notin Range(events) /\ w \notin terminated
  BY DEF Phases, NotStarted, Registered

\* Most steps of a worker change neither the phase nor what is registered.
LEMMA ControlStays ==
  ASSUME Typed, Phases, NotStarted, Registered,
         NEW w \in Workers, pc[w] \notin {"none", "done"}, pc'[w] \notin {"none", "done"},
         \A v \in Workers \ {w} : pc'[v] = pc[v],
         UNCHANGED <<runmode, loop, threads, terminated>>,
         \/ events' = events
         \/ \E e \in EventSet :
              /\ e # ServerStartEvent
              /\ \A s \in Sockets : e # SocketEvent("KeepAliveTimeout", s)
              /\ \A v \in Workers : e # WorkerEvent(v)
              /\ events' = Append(events, e)
  PROVE  Phases' /\ NotStarted' /\ Registered'
  <1>1. /\ \A v \in Workers : /\ WorkerEvent(v) \in Range(events') <=> WorkerEvent(v) \in Range(events)
                              /\ Once(events', WorkerEvent(v))
        /\ ServerStartEvent \in Range(events') => ServerStartEvent \in Range(events)
        /\ \A s \in Sockets : Told("KeepAliveTimeout", s)' => Told("KeepAliveTimeout", s)
    BY EventPut DEF Told, Registered
  <1>2. loop # "done" /\ ServerStartEvent \notin Range(events)
    BY WorkerRuns
  <1>3. Phases'
    BY <1>1, <1>2 DEF Phases
  <1>4. NotStarted'
    BY <1>1, <1>2 DEF NotStarted
  <1>5. Registered'
    <2>1. /\ \A v \in Workers : pc'[v] \notin {"none", "done"} <=> pc[v] \notin {"none", "done"}
          /\ \A v \in Workers : pc'[v] = "done" <=> pc[v] = "done"
          /\ terminated \subseteq Workers
      BY DEF Typed, PoolTypeOK
    <2>2. threads' = {v \in Workers : pc'[v] \notin {"none", "done"}}
      BY <2>1 DEF Registered
    <2> QED
      BY <1>1, <2>1, <2>2 DEF Registered
  <1> QED
    BY <1>3, <1>4, <1>5

\* A new accept socket is not null.
LEMMA PutNull ==
  ASSUME Typed, NEW w \in Workers, NEW gone, PutAcceptSocket(sock[w], gone), sock[w] \in Sockets
  PROVE  Queued(Null)' => Queued(Null)
  <1>1. \E n \in Sockets : queue' = Append(queue, n)
    BY PutTyped
  <1> QED
    BY <1>1, QueuePut, PoolAssumption

\* Every step of the pool keeps the order of start, end and join.
LEMMA PoolControl ==
  ASSUME PoolInv, PoolNext
  PROVE  Control'
  <1>0. /\ Typed /\ NullInTheEnd /\ SocketPlaces /\ Phases /\ NotStarted /\ Registered
        /\ HeldOnce /\ OnePlace /\ AliveIsSomewhere
    BY DEF PoolInv, SocketPlaces, Control
  <1> USE <1>0
  <1>1. ASSUME NEW w \in Workers, WorkerLoop(w)
        PROVE  Control'
    <2>1. /\ pc[w] \notin {"none", "done"} /\ pc'[w] \notin {"none", "done"}
          /\ \A v \in Workers \ {w} : pc'[v] = pc[v]
          /\ UNCHANGED <<runmode, loop, threads, terminated>>
      BY <1>1 DEF WorkerLoop, Goto, Leave, Typed, PoolTypeOK, pool
    <2>2. Phases' /\ NotStarted' /\ Registered'
      BY <1>1, <2>1, ControlStays DEF WorkerLoop
    <2>3. Queued(Null)' => Queued(Null)
      BY <1>1 DEF WorkerLoop, Queued
    <2>4. \A v \in Workers : Holding(v)' /\ sock'[v] = Null => pc'[v] = "got" /\ runmode = "Terminating"
      BY <1>1 DEF WorkerLoop, Goto, Leave, Typed, PoolTypeOK, NullInTheEnd, Holding, isTerminating
    <2> QED
      BY <2>1, <2>2, <2>3, <2>4 DEF Control, NullInTheEnd, isTerminating
  <1>2. ASSUME NEW w \in Workers, WorkerCount(w)
        PROVE  Control'
    <2>1. /\ pc[w] \notin {"none", "done"} /\ pc'[w] \notin {"none", "done"}
          /\ \A v \in Workers \ {w} : pc'[v] = pc[v]
          /\ UNCHANGED <<runmode, loop, threads, terminated>>
      BY <1>2 DEF WorkerCount, Goto, Leave, Typed, PoolTypeOK, pool
    <2>2. Phases' /\ NotStarted' /\ Registered'
      BY <1>2, <2>1, ControlStays DEF WorkerCount
    <2>3. Queued(Null)' => Queued(Null)
      BY <1>2 DEF WorkerCount, Queued
    <2>4. \A v \in Workers : Holding(v)' /\ sock'[v] = Null => pc'[v] = "got" /\ runmode = "Terminating"
      BY <1>2 DEF WorkerCount, Goto, Leave, Typed, PoolTypeOK, NullInTheEnd, Holding, isTerminating
    <2> QED
      BY <2>1, <2>2, <2>3, <2>4 DEF Control, NullInTheEnd, isTerminating
  <1>3. ASSUME NEW w \in Workers, WorkerWaits(w)
        PROVE  Control'
    <2>1. /\ pc[w] \notin {"none", "done"} /\ pc'[w] \notin {"none", "done"}
          /\ \A v \in Workers \ {w} : pc'[v] = pc[v]
          /\ UNCHANGED <<runmode, loop, threads, terminated>>
      BY <1>3 DEF WorkerWaits, Goto, Leave, Typed, PoolTypeOK, pool
    <2>2. Phases' /\ NotStarted' /\ Registered'
      BY <1>3, <2>1, ControlStays DEF WorkerWaits
    <2>3. Queued(Null)' => Queued(Null)
      BY <1>3 DEF WorkerWaits, Queued
    <2>4. \A v \in Workers : Holding(v)' /\ sock'[v] = Null => pc'[v] = "got" /\ runmode = "Terminating"
      BY <1>3 DEF WorkerWaits, Goto, Leave, Typed, PoolTypeOK, NullInTheEnd, Holding, isTerminating
    <2> QED
      BY <2>1, <2>2, <2>3, <2>4 DEF Control, NullInTheEnd, isTerminating
  <1>4. ASSUME NEW w \in Workers, WorkerGets(w)
        PROVE  Control'
    <2>1. /\ pc[w] \notin {"none", "done"} /\ pc'[w] \notin {"none", "done"}
          /\ \A v \in Workers \ {w} : pc'[v] = pc[v]
          /\ UNCHANGED <<runmode, loop, threads, terminated>>
      BY <1>4 DEF WorkerGets, Goto, Leave, Typed, PoolTypeOK, pool
    <2>2. Phases' /\ NotStarted' /\ Registered'
      BY <1>4, <2>1, ControlStays DEF WorkerGets
    <2>3. Queued(Null)' => Queued(Null)
      BY <1>4, QueueGet DEF WorkerGets
    <2>4. \A v \in Workers : Holding(v)' /\ sock'[v] = Null => pc'[v] = "got" /\ runmode = "Terminating"
      <3>1. Head(queue) = Null => Queued(Null)
        BY <1>4, QueueGet DEF WorkerGets
      <3> QED
        BY <1>4, <3>1 DEF WorkerGets, NullInTheEnd, Holding, Typed, PoolTypeOK
    <2> QED
      BY <2>1, <2>2, <2>3, <2>4 DEF Control, NullInTheEnd
  <1>5. ASSUME NEW w \in Workers, WorkerGot(w)
        PROVE  Control'
    <2>1. /\ pc[w] \notin {"none", "done"} /\ pc'[w] \notin {"none", "done"}
          /\ \A v \in Workers \ {w} : pc'[v] = pc[v]
          /\ UNCHANGED <<runmode, loop, threads, terminated>>
      BY <1>5 DEF WorkerGot, Goto, Leave, Typed, PoolTypeOK, pool
    <2>2. Phases' /\ NotStarted' /\ Registered'
      BY <1>5, <2>1, ControlStays DEF WorkerGot
    <2>3. Queued(Null)' => Queued(Null) \/ isTerminating
      BY <1>5, QueuePut DEF WorkerGot, Queued, Typed, PoolTypeOK
    <2>4. \A v \in Workers : Holding(v)' /\ sock'[v] = Null => pc'[v] = "got" /\ runmode = "Terminating"
      BY <1>5 DEF WorkerGot, Goto, Leave, Typed, PoolTypeOK, NullInTheEnd, Holding, isTerminating
    <2> QED
      BY <2>1, <2>2, <2>3, <2>4 DEF Control, NullInTheEnd, isTerminating
  <1>6. ASSUME NEW w \in Workers, NEW locks \in BOOLEAN, NoWaitingThreads(w, locks)
        PROVE  Control'
    <2>1. /\ pc[w] \notin {"none", "done"} /\ pc'[w] \notin {"none", "done"}
          /\ \A v \in Workers \ {w} : pc'[v] = pc[v]
          /\ UNCHANGED <<runmode, loop, threads, terminated>>
      BY <1>6 DEF NoWaitingThreads, Goto, Leave, Typed, PoolTypeOK, pool
    <2>2. \/ events' = events
          \/ \E e \in EventSet :
               /\ e # ServerStartEvent
               /\ \A s \in Sockets : e # SocketEvent("KeepAliveTimeout", s)
               /\ \A v \in Workers : e # WorkerEvent(v)
               /\ events' = Append(events, e)
      BY <1>6, EventsTyped, EventsDiffer DEF NoWaitingThreads, SocketEvents
    <2>3. Phases' /\ NotStarted' /\ Registered'
      BY <2>1, <2>2, ControlStays
    <2>4. Queued(Null)' => Queued(Null)
      BY <1>6 DEF NoWaitingThreads, Queued
    <2>5. \A v \in Workers : Holding(v)' /\ sock'[v] = Null => pc'[v] = "got" /\ runmode = "Terminating"
      BY <1>6 DEF NoWaitingThreads, Goto, Leave, Typed, PoolTypeOK, NullInTheEnd, Holding, isTerminating
    <2> QED
      BY <2>1, <2>3, <2>4, <2>5 DEF Control, NullInTheEnd, isTerminating
  <1>7. ASSUME NEW w \in Workers, WorkerServe(w)
        PROVE  Control'
    <2>1. /\ pc[w] \notin {"none", "done"} /\ pc'[w] \notin {"none", "done"}
          /\ \A v \in Workers \ {w} : pc'[v] = pc[v]
          /\ UNCHANGED <<runmode, loop, threads, terminated>>
      BY <1>7 DEF WorkerServe, Goto, Leave, Typed, PoolTypeOK, pool
    <2>2. Phases' /\ NotStarted' /\ Registered'
      BY <1>7, <2>1, ControlStays DEF WorkerServe
    <2>3. Queued(Null)' => Queued(Null)
      BY <1>7 DEF WorkerServe, Queued
    <2>4. \A v \in Workers : Holding(v)' /\ sock'[v] = Null => pc'[v] = "got" /\ runmode = "Terminating"
      <3>1. sock[w] # Null /\ Holding(w) /\ pc[w] = "serve"
        BY <1>7 DEF WorkerServe, NullInTheEnd, Holding
      <3>2. sock' = sock \/ (pc'[w] = "loop" /\ sock'[w] = Null /\ \A v \in Workers \ {w} : sock'[v] = sock[v])
        BY <1>7 DEF WorkerServe, Goto, Leave, Typed, PoolTypeOK
      <3>3. \A v \in Workers \ {w} : Holding(v)' <=> Holding(v)
        BY <2>1 DEF Holding
      <3> QED
        BY <2>1, <3>1, <3>2, <3>3 DEF NullInTheEnd, Holding
    <2> QED
      BY <2>1, <2>2, <2>3, <2>4 DEF Control, NullInTheEnd, isTerminating
  <1>8. ASSUME NEW w \in Workers, AcceptTerminated(w)
        PROVE  Control'
    <2>1. /\ pc[w] \notin {"none", "done"} /\ pc'[w] \notin {"none", "done"}
          /\ \A v \in Workers \ {w} : pc'[v] = pc[v]
          /\ UNCHANGED <<runmode, loop, threads, terminated>>
      BY <1>8 DEF AcceptTerminated, Goto, Leave, Typed, PoolTypeOK, pool
    <2>2. Phases' /\ NotStarted' /\ Registered'
      BY <1>8, <2>1, ControlStays DEF AcceptTerminated
    <2>3. sock[w] \in Sockets
      BY <1>8, NotNull, HeldSocket DEF AcceptTerminated
    <2>4. Queued(Null)' => Queued(Null)
      BY <1>8, <2>3, PutNull DEF AcceptTerminated, Queued
    <2>5. \A v \in Workers : Holding(v)' /\ sock'[v] = Null => pc'[v] = "got" /\ runmode = "Terminating"
      BY <1>8 DEF AcceptTerminated, Goto, Leave, Typed, PoolTypeOK, NullInTheEnd, Holding, isTerminating
    <2> QED
      BY <2>1, <2>2, <2>4, <2>5 DEF Control, NullInTheEnd, isTerminating
  <1>9. ASSUME NEW w \in Workers, AcceptConnection(w)
        PROVE  Control'
    <2>1. /\ pc[w] \notin {"none", "done"} /\ pc'[w] \notin {"none", "done"}
          /\ \A v \in Workers \ {w} : pc'[v] = pc[v]
          /\ UNCHANGED <<runmode, loop, threads, terminated>>
      BY <1>9 DEF AcceptConnection, Goto, Leave, Typed, PoolTypeOK, pool
    <2>2. Phases' /\ NotStarted' /\ Registered'
      BY <1>9, <2>1, ControlStays DEF AcceptConnection
    <2>3. Queued(Null)' => Queued(Null)
      BY <1>9 DEF AcceptConnection, Queued
    <2>4. \A v \in Workers : Holding(v)' /\ sock'[v] = Null => pc'[v] = "got" /\ runmode = "Terminating"
      BY <1>9 DEF AcceptConnection, Goto, Leave, Typed, PoolTypeOK, NullInTheEnd, Holding, isTerminating
    <2> QED
      BY <2>1, <2>2, <2>3, <2>4 DEF Control, NullInTheEnd, isTerminating
  <1>10. ASSUME NEW w \in Workers, AcceptFails(w)
        PROVE  Control'
    <2>1. /\ pc[w] \notin {"none", "done"} /\ pc'[w] \notin {"none", "done"}
          /\ \A v \in Workers \ {w} : pc'[v] = pc[v]
          /\ UNCHANGED <<runmode, loop, threads, terminated>>
      BY <1>10 DEF AcceptFails, Goto, Leave, Typed, PoolTypeOK, pool
    <2>2. Phases' /\ NotStarted' /\ Registered'
      BY <1>10, <2>1, ControlStays DEF AcceptFails
    <2>3. sock[w] \in Sockets
      BY <1>10, NotNull, HeldSocket DEF AcceptFails
    <2>4. Queued(Null)' => Queued(Null)
      BY <1>10, <2>3, PutNull DEF AcceptFails, Queued
    <2>5. \A v \in Workers : Holding(v)' /\ sock'[v] = Null => pc'[v] = "got" /\ runmode = "Terminating"
      BY <1>10 DEF AcceptFails, Goto, Leave, Typed, PoolTypeOK, NullInTheEnd, Holding, isTerminating
    <2> QED
      BY <2>1, <2>2, <2>4, <2>5 DEF Control, NullInTheEnd, isTerminating
  <1>11. ASSUME NEW w \in Workers, WorkerAccepted(w)
        PROVE  Control'
    <2>1. /\ pc[w] \notin {"none", "done"} /\ pc'[w] \notin {"none", "done"}
          /\ \A v \in Workers \ {w} : pc'[v] = pc[v]
          /\ UNCHANGED <<runmode, loop, threads, terminated>>
      BY <1>11 DEF WorkerAccepted, Goto, Leave, Typed, PoolTypeOK, pool
    <2>2. Phases' /\ NotStarted' /\ Registered'
      BY <1>11, <2>1, ControlStays DEF WorkerAccepted
    <2>3. sock[w] \in Sockets
      BY <1>11, NotNull, HeldSocket DEF WorkerAccepted
    <2>4. Queued(Null)' => Queued(Null) \/ isTerminating
      BY <1>11, <2>3, PutNull, QueuePut DEF WorkerAccepted, Queued, Typed, PoolTypeOK
    <2>5. \A v \in Workers : Holding(v)' /\ sock'[v] = Null => pc'[v] = "got" /\ runmode = "Terminating"
      BY <1>11 DEF WorkerAccepted, Goto, Leave, Typed, PoolTypeOK, NullInTheEnd, Holding, isTerminating
    <2> QED
      BY <2>1, <2>2, <2>4, <2>5 DEF Control, NullInTheEnd, isTerminating
  <1>12. ASSUME NEW w \in Workers, PostAccept(w)
        PROVE  Control'
    <2>1. /\ pc[w] \notin {"none", "done"} /\ pc'[w] \notin {"none", "done"}
          /\ \A v \in Workers \ {w} : pc'[v] = pc[v]
          /\ UNCHANGED <<runmode, loop, threads, terminated>>
      BY <1>12 DEF PostAccept, Goto, Leave, Typed, PoolTypeOK, pool
    <2>2. Phases' /\ NotStarted' /\ Registered'
      BY <1>12, <2>1, ControlStays DEF PostAccept
    <2>3. sock[w] \in Sockets
      BY <1>12, NotNull, HeldSocket DEF PostAccept
    <2>4. Queued(Null)' => Queued(Null)
      BY <1>12, <2>3, PutNull DEF PostAccept, Queued
    <2>5. \A v \in Workers : Holding(v)' /\ sock'[v] = Null => pc'[v] = "got" /\ runmode = "Terminating"
      BY <1>12 DEF PostAccept, Goto, Leave, Typed, PoolTypeOK, NullInTheEnd, Holding, isTerminating
    <2> QED
      BY <2>1, <2>2, <2>4, <2>5 DEF Control, NullInTheEnd, isTerminating
  <1>13. ASSUME NEW w \in Workers, WorkerReads(w)
        PROVE  Control'
    <2>1. /\ pc[w] \notin {"none", "done"} /\ pc'[w] \notin {"none", "done"}
          /\ \A v \in Workers \ {w} : pc'[v] = pc[v]
          /\ UNCHANGED <<runmode, loop, threads, terminated>>
      BY <1>13 DEF WorkerReads, Goto, Leave, Typed, PoolTypeOK, pool
    <2>2. Phases' /\ NotStarted' /\ Registered'
      BY <1>13, <2>1, ControlStays DEF WorkerReads
    <2>3. Queued(Null)' => Queued(Null)
      BY <1>13 DEF WorkerReads, Queued
    <2>4. \A v \in Workers : Holding(v)' /\ sock'[v] = Null => pc'[v] = "got" /\ runmode = "Terminating"
      BY <1>13 DEF WorkerReads, Goto, Leave, Typed, PoolTypeOK, NullInTheEnd, Holding, isTerminating
    <2> QED
      BY <2>1, <2>2, <2>3, <2>4 DEF Control, NullInTheEnd, isTerminating
  <1>14. ASSUME NEW w \in Workers, WorkerFails(w)
        PROVE  Control'
    <2>1. /\ pc[w] \notin {"none", "done"} /\ pc'[w] \notin {"none", "done"}
          /\ \A v \in Workers \ {w} : pc'[v] = pc[v]
          /\ UNCHANGED <<runmode, loop, threads, terminated>>
      BY <1>14 DEF WorkerFails, Goto, Leave, Typed, PoolTypeOK, pool
    <2>2. Phases' /\ NotStarted' /\ Registered'
      BY <1>14, <2>1, ControlStays DEF WorkerFails
    <2>3. Queued(Null)' => Queued(Null)
      BY <1>14 DEF WorkerFails, Queued
    <2>4. \A v \in Workers : Holding(v)' /\ sock'[v] = Null => pc'[v] = "got" /\ runmode = "Terminating"
      BY <1>14 DEF WorkerFails, Goto, Leave, Typed, PoolTypeOK, NullInTheEnd, Holding, isTerminating
    <2> QED
      BY <2>1, <2>2, <2>3, <2>4 DEF Control, NullInTheEnd, isTerminating
  <1>15. ASSUME NEW w \in Workers, WorkerClosed(w)
        PROVE  Control'
    <2>1. /\ pc[w] \notin {"none", "done"} /\ pc'[w] \notin {"none", "done"}
          /\ \A v \in Workers \ {w} : pc'[v] = pc[v]
          /\ UNCHANGED <<runmode, loop, threads, terminated>>
      BY <1>15 DEF WorkerClosed, Goto, Leave, Typed, PoolTypeOK, pool
    <2>2. Phases' /\ NotStarted' /\ Registered'
      BY <1>15, <2>1, ControlStays DEF WorkerClosed
    <2>3. Queued(Null)' => Queued(Null) \/ isTerminating
      BY <1>15, QueuePut DEF WorkerClosed, Queued, Typed, PoolTypeOK
    <2>4. \A v \in Workers : Holding(v)' /\ sock'[v] = Null => pc'[v] = "got" /\ runmode = "Terminating"
      BY <1>15 DEF WorkerClosed, Goto, Leave, Typed, PoolTypeOK, NullInTheEnd, Holding, isTerminating
    <2> QED
      BY <2>1, <2>2, <2>3, <2>4 DEF Control, NullInTheEnd, isTerminating
  <1>16. ASSUME NEW w \in Workers, ThreadTerminated(w)
        PROVE  Control'
    <2>1. /\ w \in threads /\ loop # "done" /\ ServerStartEvent \notin Range(events)
          /\ WorkerEvent(w) \notin Range(events) /\ w \notin terminated
      BY <1>16, WorkerRuns DEF ThreadTerminated
    <2>2. NullInTheEnd'
      BY <1>16 DEF ThreadTerminated, Queued, NullInTheEnd, Holding, Goto, Typed, PoolTypeOK
    <2>3. /\ pc[w] = "end" /\ pc'[w] = "done" /\ \A v \in Workers \ {w} : pc'[v] = pc[v]
          /\ threads' = threads \ {w} /\ UNCHANGED <<runmode, loop>>
      BY <1>16 DEF ThreadTerminated, Goto, Typed, PoolTypeOK
    <2>4. CASE runmode = "Running" /\ events' = Append(events, WorkerEvent(w)) /\ terminated' = terminated
      <3>1. /\ Range(events') = Range(events) \cup {WorkerEvent(w)}
            /\ \A v \in Workers : Once(events', WorkerEvent(v))
        BY <2>1, <2>4, EventPut, EventsTyped DEF Registered
      <3>2. /\ \A v \in Workers : WorkerEvent(v) \in Range(events') <=> WorkerEvent(v) \in Range(events) \/ v = w
            /\ ServerStartEvent \notin Range(events')
            /\ \A s \in Sockets : Told("KeepAliveTimeout", s)' => Told("KeepAliveTimeout", s)
        BY <2>1, <3>1, EventsDiffer DEF Told, SocketEvents
      <3>3. Registered'
        <4>1. \A v \in Workers : pc'[v] \notin {"none", "done"} <=> pc[v] \notin {"none", "done"} /\ v # w
          BY <2>3
        <4>2. threads' = {v \in Workers : pc'[v] \notin {"none", "done"}}
          BY <2>3, <4>1 DEF Registered
        <4>3. terminated \subseteq Workers
          BY DEF Typed, PoolTypeOK
        <4> QED
          BY <2>1, <2>3, <2>4, <3>1, <3>2, <4>2, <4>3 DEF Registered
      <3>4. Phases' /\ NotStarted'
        BY <2>1, <2>3, <2>4, <3>2 DEF Phases, NotStarted
      <3> QED
        BY <2>2, <3>3, <3>4 DEF Control
    <2>5. CASE events' = events /\ terminated' = terminated \cup {w}
      <3>1. Registered'
        <4>1. \A v \in Workers : pc'[v] \notin {"none", "done"} <=> pc[v] \notin {"none", "done"} /\ v # w
          BY <2>3
        <4>2. threads' = {v \in Workers : pc'[v] \notin {"none", "done"}}
          BY <2>3, <4>1 DEF Registered
        <4>3. terminated \subseteq Workers
          BY DEF Typed, PoolTypeOK
        <4> QED
          BY <2>1, <2>3, <2>5, <4>2, <4>3 DEF Registered
      <3>2. Phases' /\ NotStarted'
        BY <2>1, <2>3, <2>5 DEF Phases, NotStarted, Told
      <3> QED
        BY <2>2, <3>1, <3>2 DEF Control
    <2> QED
      BY <1>16, <2>4, <2>5 DEF ThreadTerminated
  <1>17. ASSUME NEW w \in Workers, WorkerWrites(w)
        PROVE  Control'
    <2>1. /\ pc[w] \notin {"none", "done"} /\ pc'[w] \notin {"none", "done"}
          /\ \A v \in Workers \ {w} : pc'[v] = pc[v]
          /\ UNCHANGED <<runmode, loop, threads, terminated>>
      BY <1>17 DEF WorkerWrites, Goto, Leave, Typed, PoolTypeOK, pool
    <2>2. Phases' /\ NotStarted' /\ Registered'
      BY <1>17, <2>1, ControlStays DEF WorkerWrites
    <2>3. Queued(Null)' => Queued(Null)
      BY <1>17 DEF WorkerWrites, Queued
    <2>4. \A v \in Workers : Holding(v)' /\ sock'[v] = Null => pc'[v] = "got" /\ runmode = "Terminating"
      BY <1>17 DEF WorkerWrites, Goto, Leave, Typed, PoolTypeOK, NullInTheEnd, Holding, isTerminating
    <2> QED
      BY <2>1, <2>2, <2>3, <2>4 DEF Control, NullInTheEnd, isTerminating
  <1>18. ASSUME NEW w \in Workers, AddIdleSocket(w)
        PROVE  Control'
    <2>1. /\ pc[w] \notin {"none", "done"} /\ pc'[w] \notin {"none", "done"}
          /\ \A v \in Workers \ {w} : pc'[v] = pc[v]
          /\ UNCHANGED <<runmode, loop, threads, terminated>>
      BY <1>18 DEF AddIdleSocket, Goto, Leave, Typed, PoolTypeOK, pool
    <2>2. Phases' /\ NotStarted' /\ Registered'
      BY <1>18, <2>1, ControlStays DEF AddIdleSocket
    <2>3. Queued(Null)' => Queued(Null)
      BY <1>18 DEF AddIdleSocket, Queued
    <2>4. \A v \in Workers : Holding(v)' /\ sock'[v] = Null => pc'[v] = "got" /\ runmode = "Terminating"
      BY <1>18 DEF AddIdleSocket, Goto, Leave, Typed, PoolTypeOK, NullInTheEnd, Holding, isTerminating
    <2> QED
      BY <2>1, <2>2, <2>3, <2>4 DEF Control, NullInTheEnd, isTerminating
  <1>19. CASE OnServerStart
    <2>1. Handles("ServerStart") /\ events' = Tail(events)
      BY <1>19 DEF OnServerStart
    <2>2. Head(events) = ServerStartEvent /\ ServerStartEvent \in Range(events) /\ loop \in {"run", "drain"}
      BY <2>1, HeadEvent, EventGet
    <2>3. /\ threads = {} /\ terminated = {} /\ \A v \in Workers : pc[v] = "none"
          /\ runmode = "Stopped" /\ events = <<ServerStartEvent>>
      BY <2>2 DEF NotStarted
    <2>4. events' = <<>> /\ Range(events') = {}
      BY <2>1, <2>3 DEF Range
    <2>5. PICK new \in SUBSET Workers :
            /\ threads' = threads \cup new
            /\ pc' = [w \in Workers |-> IF w \in new THEN "loop" ELSE pc[w]]
      BY <1>19, FirstThreads DEF OnServerStart
    <2>6. UNCHANGED <<loop, terminated, queue, sock>> /\ runmode' = "Starting"
      BY <1>19 DEF OnServerStart
    <2>7. Registered'
      BY <2>3, <2>4, <2>5, <2>6 DEF Registered, Once
    <2>8. Phases' /\ NotStarted'
      BY <2>2, <2>3, <2>4, <2>6 DEF Phases, NotStarted, Told
    <2>9. NullInTheEnd'
      BY <2>3, <2>5, <2>6 DEF NullInTheEnd, Queued, Holding
    <2> QED
      BY <2>7, <2>8, <2>9 DEF Control
  <1>20. CASE Running
    <2>1. Registered'
      BY <1>20 DEF Running, Registered, pool
    <2>2. Phases' /\ NotStarted'
      BY <1>20 DEF Running, Phases, NotStarted, Told, pool, Range
    <2>3. NullInTheEnd'
      BY <1>20 DEF Running, NullInTheEnd, Queued, Holding, pool, Phases
    <2> QED
      BY <2>1, <2>2, <2>3 DEF Control
  <1>21. CASE OnNoWaitingThreads
    <2>1. Handles("NoWaitingThreads") /\ events' = Tail(events)
      BY <1>21 DEF OnNoWaitingThreads
    <2>2. /\ Head(events) = NoWaitingThreadsEvent /\ events # <<>> /\ loop \in {"run", "drain"}
          /\ Range(events) = Range(events') \cup {NoWaitingThreadsEvent}
          /\ \A x : Once(events, x) => Once(events', x)
      BY <2>1, HeadEvent, EventGet
    <2>3. ServerStartEvent \notin Range(events)
      BY <2>2, EventsDiffer DEF NotStarted
    <2>4. \A v \in Workers : WorkerEvent(v) \in Range(events') <=> WorkerEvent(v) \in Range(events)
      BY <2>2, EventsDiffer
    <2>5. UNCHANGED <<runmode, loop, terminated, queue, sock>>
      BY <1>21 DEF OnNoWaitingThreads, Goto
    <2>6. \/ pc' = pc /\ threads' = threads
          \/ \E w \in Workers : pc[w] = "none" /\ pc' = [pc EXCEPT ![w] = "loop"] /\ threads' = threads \cup {w}
      BY <1>21 DEF OnNoWaitingThreads, Allocate, Goto
    <2>7. Registered'
      BY <2>2, <2>4, <2>5, <2>6 DEF Registered, Typed, PoolTypeOK
    <2>8. Phases' /\ NotStarted'
      BY <2>2, <2>3, <2>5 DEF Phases, NotStarted, Told
    <2>9. NullInTheEnd'
      BY <2>5, <2>6 DEF NullInTheEnd, Queued, Holding, Typed, PoolTypeOK
    <2> QED
      BY <2>7, <2>8, <2>9 DEF Control
  <1>22. CASE OnThreadTerminated
    <2>1. Handles("ThreadTerminated") /\ events' = Tail(events)
      BY <1>22 DEF OnThreadTerminated
    <2>2. PICK w \in Workers : Head(events) = WorkerEvent(w)
      BY <2>1, HeadEvent
    <2>3. /\ events # <<>> /\ loop \in {"run", "drain"}
          /\ Range(events) = Range(events') \cup {WorkerEvent(w)}
          /\ \A v \in Workers : Once(events', WorkerEvent(v))
          /\ WorkerEvent(w) \notin Range(events')
      BY <2>1, <2>2, HeadEvent, EventGet DEF Registered
    <2>4. ServerStartEvent \notin Range(events)
      BY <2>2, <2>3, EventsDiffer DEF NotStarted
    <2>5. \A v \in Workers \ {w} : WorkerEvent(v) \in Range(events') <=> WorkerEvent(v) \in Range(events)
      BY <2>3, EventsDiffer
    <2>6. Head(events).worker = w
      BY <2>2 DEF WorkerEvent
    <2>7. UNCHANGED <<runmode, loop, threads, terminated, queue, sock>> /\ pc' = [pc EXCEPT ![w] = "none"]
      BY <1>22, <2>6 DEF OnThreadTerminated, Goto, pool
    <2>8. pc[w] = "done" /\ w \notin terminated
      BY <2>3 DEF Registered
    <2>9. Registered'
      BY <2>3, <2>5, <2>7, <2>8 DEF Registered, Typed, PoolTypeOK
    <2>10. Phases' /\ NotStarted'
      BY <2>3, <2>4, <2>7 DEF Phases, NotStarted, Told
    <2>11. NullInTheEnd'
      BY <2>7, <2>8 DEF NullInTheEnd, Queued, Holding, Typed, PoolTypeOK
    <2> QED
      BY <2>9, <2>10, <2>11 DEF Control
  <1>23. CASE OnIdleSocket
    <2>1. Handles("IdleSocket") /\ events' = Tail(events)
      BY <1>23 DEF OnIdleSocket
    <2>2. PICK s \in Sockets : Head(events) = SocketEvent("IdleSocket", s)
      BY <2>1, HeadEvent DEF SocketEvents
    <2>3. /\ events # <<>> /\ loop \in {"run", "drain"}
          /\ Range(events) = Range(events') \cup {SocketEvent("IdleSocket", s)}
          /\ \A x : Once(events, x) => Once(events', x)
      BY <2>1, <2>2, HeadEvent, EventGet
    <2>4. /\ ServerStartEvent \notin Range(events)
          /\ \A v \in Workers : WorkerEvent(v) \in Range(events') <=> WorkerEvent(v) \in Range(events)
      BY <2>2, <2>3, EventsDiffer DEF NotStarted, SocketEvents
    <2>5. UNCHANGED <<runmode, loop, threads, terminated, queue, pc, sock>>
      BY <1>23 DEF OnIdleSocket, pool
    <2>6. Registered'
      BY <2>3, <2>4, <2>5 DEF Registered
    <2>7. Phases' /\ NotStarted'
      BY <2>3, <2>4, <2>5 DEF Phases, NotStarted, Told
    <2>8. NullInTheEnd'
      BY <2>5 DEF NullInTheEnd, Queued, Holding
    <2> QED
      BY <2>6, <2>7, <2>8 DEF Control
  <1>24. CASE Drained
    <2>1. Registered'
      BY <1>24 DEF Drained, Registered, pool
    <2>2. Phases' /\ NotStarted'
      BY <1>24 DEF Drained, Phases, NotStarted, Told, pool, Range
    <2>3. NullInTheEnd'
      BY <1>24 DEF Drained, NullInTheEnd, Queued, Holding, pool, Phases
    <2> QED
      BY <2>1, <2>2, <2>3 DEF Control
  <1>25. CASE Terminating
    <2>1. Registered'
      BY <1>25 DEF Terminating, Registered, pool
    <2>2. Phases' /\ NotStarted'
      BY <1>25 DEF Terminating, Phases, NotStarted, Told, pool, Range
    <2>3. NullInTheEnd'
      BY <1>25 DEF Terminating, NullInTheEnd, Queued, Holding, pool, Phases
    <2> QED
      BY <2>1, <2>2, <2>3 DEF Control
  <1>26. CASE WakeThreads
    <2>1. Registered'
      BY <1>26 DEF WakeThreads, Registered, pool
    <2>2. Phases' /\ NotStarted'
      BY <1>26 DEF WakeThreads, Phases, NotStarted, Told, pool, Range
    <2>3. NullInTheEnd'
      BY <1>26 DEF WakeThreads, NullInTheEnd, Queued, Holding, pool, Phases
    <2> QED
      BY <2>1, <2>2, <2>3 DEF Control
  <1>27. CASE JoinThreads
    <2>1. /\ UNCHANGED <<runmode, loop, threads, events, queue, idle, sock>> /\ terminated' = {} /\ loop = "join"
          /\ \A v \in Workers : pc'[v] = IF v \in terminated THEN "none" ELSE pc[v]
      BY <1>27 DEF JoinThreads
    <2>2. Registered'
      BY <2>1 DEF Registered
    <2>3. Phases' /\ NotStarted'
      BY <2>1 DEF Phases, NotStarted, Told
    <2>4. NullInTheEnd'
      BY <2>1 DEF NullInTheEnd, Queued, Holding
    <2> QED
      BY <2>2, <2>3, <2>4 DEF Control
  <1>28. CASE Stopped
    <2>1. /\ UNCHANGED <<threads, events, terminated, pc, sock>> /\ threads = {} /\ terminated = {}
          /\ loop = "join" /\ loop' = "done" /\ runmode' = "Stopped" /\ queue' = <<>> /\ idle' = {}
      BY <1>28 DEF Stopped
    <2>2. Registered'
      BY <2>1 DEF Registered
    <2>3. Phases' /\ NotStarted'
      BY <2>1 DEF Phases, NotStarted, Told
    <2>4. NullInTheEnd'
      BY <2>1 DEF NullInTheEnd, Queued, Holding, Range, Registered
    <2> QED
      BY <2>2, <2>3, <2>4 DEF Control
  <1>29. ASSUME NEW l \in Listeners, ClientConnects(l)
        PROVE  Control'
    <2>1. Registered'
      BY <1>29 DEF ClientConnects, Registered, pool
    <2>2. Phases' /\ NotStarted'
      BY <1>29 DEF ClientConnects, Phases, NotStarted, Told, pool, Range
    <2>3. NullInTheEnd'
      BY <1>29 DEF ClientConnects, NullInTheEnd, Queued, Holding, pool, Phases
    <2> QED
      BY <2>1, <2>2, <2>3 DEF Control
  <1>30. ASSUME NEW s \in Sockets, ClientSends(s)
        PROVE  Control'
    <2>1. Registered'
      BY <1>30 DEF ClientSends, Registered, pool
    <2>2. Phases' /\ NotStarted'
      BY <1>30 DEF ClientSends, Phases, NotStarted, Told, pool, Range
    <2>3. NullInTheEnd'
      BY <1>30 DEF ClientSends, NullInTheEnd, Queued, Holding, pool, Phases
    <2> QED
      BY <2>1, <2>2, <2>3 DEF Control
  <1>31. CASE Exit
    <2>1. Registered'
      BY <1>31 DEF Exit, Registered, pool
    <2>2. Phases' /\ NotStarted'
      BY <1>31 DEF Exit, Phases, NotStarted, Told, pool, Range
    <2>3. NullInTheEnd'
      BY <1>31 DEF Exit, NullInTheEnd, Queued, Holding, pool, Phases
    <2> QED
      BY <2>1, <2>2, <2>3 DEF Control
  <1>32. ASSUME NEW w \in Workers, CommitIdleSocket(w)
        PROVE  Control'
    <2>1. /\ pc[w] \notin {"none", "done"} /\ pc'[w] \notin {"none", "done"}
          /\ \A v \in Workers \ {w} : pc'[v] = pc[v]
          /\ UNCHANGED <<runmode, loop, threads, terminated>>
      BY <1>32 DEF CommitIdleSocket, Goto, Leave, Typed, PoolTypeOK, pool
    <2>2. \/ events' = events
          \/ \E e \in EventSet :
               /\ e # ServerStartEvent
               /\ \A s \in Sockets : e # SocketEvent("KeepAliveTimeout", s)
               /\ \A v \in Workers : e # WorkerEvent(v)
               /\ events' = Append(events, e)
      BY <1>32, EventsTyped, EventsDiffer, NotNull, HeldSocket DEF CommitIdleSocket, SocketEvents
    <2>3. Phases' /\ NotStarted' /\ Registered'
      BY <2>1, <2>2, ControlStays
    <2>4. Queued(Null)' => Queued(Null)
      BY <1>32 DEF CommitIdleSocket, Queued
    <2>5. \A v \in Workers : Holding(v)' /\ sock'[v] = Null => pc'[v] = "got" /\ runmode = "Terminating"
      BY <1>32 DEF CommitIdleSocket, Goto, Leave, Typed, PoolTypeOK, NullInTheEnd, Holding, isTerminating
    <2> QED
      BY <2>1, <2>3, <2>4, <2>5 DEF Control, NullInTheEnd, isTerminating
  <1>33. ASSUME NEW w \in Workers, CommitNoWaitingThreads(w)
        PROVE  Control'
    <2>1. /\ pc[w] \notin {"none", "done"} /\ pc'[w] \notin {"none", "done"}
          /\ \A v \in Workers \ {w} : pc'[v] = pc[v]
          /\ UNCHANGED <<runmode, loop, threads, terminated>>
      BY <1>33 DEF CommitNoWaitingThreads, Goto, Leave, Typed, PoolTypeOK, pool
    <2>2. \/ events' = events
          \/ \E e \in EventSet :
               /\ e # ServerStartEvent
               /\ \A s \in Sockets : e # SocketEvent("KeepAliveTimeout", s)
               /\ \A v \in Workers : e # WorkerEvent(v)
               /\ events' = Append(events, e)
      BY <1>33, EventsTyped, EventsDiffer DEF CommitNoWaitingThreads, SocketEvents
    <2>3. Phases' /\ NotStarted' /\ Registered'
      BY <2>1, <2>2, ControlStays
    <2>4. Queued(Null)' => Queued(Null)
      BY <1>33 DEF CommitNoWaitingThreads, Queued
    <2>5. \A v \in Workers : Holding(v)' /\ sock'[v] = Null => pc'[v] = "got" /\ runmode = "Terminating"
      BY <1>33 DEF CommitNoWaitingThreads, Goto, Leave, Typed, PoolTypeOK, NullInTheEnd, Holding, isTerminating
    <2> QED
      BY <2>1, <2>3, <2>4, <2>5 DEF Control, NullInTheEnd, isTerminating
  <1> QED
    BY <1>1, <1>2, <1>3, <1>4, <1>5, <1>6, <1>7, <1>8, <1>9, <1>10, <1>11, <1>12, <1>13, <1>14, <1>15, <1>16, <1>17, <1>18, <1>19, <1>20, <1>21, <1>22, <1>23, <1>24, <1>25, <1>26, <1>27, <1>28, <1>29, <1>30, <1>31, <1>32, <1>33 DEF PoolNext, WorkerStep, LoopStep, ClientStep

-----------------------------------------------------------------------------
(* Listening sockets and connections.                                      *)

\* What is known of the sockets where they are, when no socket changes its kind, ...
LEMMA KindsStay ==
  ASSUME Typed, Kinds, UNCHANGED <<accepted, connected, idle, input, writing, sock>>,
         Serving' => Serving,
         \A s \in Sockets : Queued(s)' => Queued(s),
         \A t \in SocketEvents, s \in Sockets : Told(t, s)' => Told(t, s),
         \A v \in Workers :
           \/ pc'[v] = pc[v] \/ ~Holding(v)'
           \/ pc[v] \in {"got", "starve", "tell"} /\ pc'[v] \in {"starve", "tell", "serve"}
           \/ pc[v] = "serve" /\ pc'[v] = "accept" /\ sock[v] \notin accepted
           \/ pc[v] = "serve" /\ pc'[v] = "io" /\ sock[v] \in accepted
           \/ pc[v] = "io" /\ pc'[v] = "commit"
  PROVE  Kinds'
  <1>1. \A v \in Workers :
          /\ pc'[v] \in {"io", "commit"} => sock[v] \in accepted
          /\ pc'[v] \in {"accept", "accepted", "post"} => sock[v] \notin accepted
    BY DEF Kinds, Holding
  <1>2. Serving => \A v \in Workers :
          /\ pc'[v] \in {"got", "starve", "tell", "serve"} => sock[v] \in accepted \/ sock[v] \notin connected
          /\ pc'[v] = "accept" => sock[v] \notin connected
          /\ pc'[v] \in {"accepted", "post"} => sock[v] \in connected
    BY DEF Kinds, Holding
  <1> QED
    BY <1>1, <1>2 DEF Kinds, SocketEvents

\* ... when a worker puts its socket back, which it does in the end only, ...
LEMMA KindsPutBack ==
  ASSUME Typed, Kinds, HeldOnce, isTerminating, UNCHANGED <<runmode, events, idle, objects>>,
         NEW w \in Workers, Holding(w), NEW l \in {"loop", "end"}, Leave(w, l)
  PROVE  Kinds'
  <1>1. \A v \in Workers : Holding(v)' => sock'[v] = sock[v] /\ pc'[v] = pc[v]
    BY HeldLeft
  <1> QED
    BY <1>1 DEF Kinds, Holding, Serving, isTerminating, Told, objects

\* ... when a socket is deleted, ...
LEMMA KindsDelete ==
  ASSUME Typed, Kinds, SocketPlaces, NullInTheEnd,
         NEW w \in Workers, Holding(w), sock[w] # Null, NEW l \in {"loop", "end"}, Leave(w, l),
         Delete({sock[w]}), UNCHANGED <<runmode, loop, queue, events, idle>>
  PROVE  Kinds'
  <1>1. /\ sock[w] \in Sockets /\ sock[w] \notin idle
        /\ ~Queued(sock[w]) /\ ~Told("IdleSocket", sock[w]) /\ ~Told("ActiveSocket", sock[w])
        /\ \A v \in Workers \ {w} : Holding(v) => sock[v] # sock[w]
    BY HeldSocket DEF SocketPlaces
  <1>2. /\ \A v \in Workers : Holding(v)' <=> Holding(v) /\ v # w
        /\ \A v \in Workers : Holding(v)' => sock'[v] = sock[v] /\ pc'[v] = pc[v]
    BY HeldLeft DEF SocketPlaces
  <1>3. /\ accepted' = accepted \ {sock[w]} /\ connected' = connected \ {sock[w]}
        /\ input' = input \ {sock[w]} /\ writing' = writing \ {sock[w]}
    BY DEF Delete
  <1>4. \A v \in Workers :
          /\ pc'[v] \in {"io", "commit"} => sock'[v] \in accepted'
          /\ pc'[v] \in {"accept", "accepted", "post"} => sock'[v] \notin accepted'
    BY <1>1, <1>2, <1>3 DEF Kinds, Holding
  <1>5. Serving => \A v \in Workers :
          /\ pc'[v] \in {"got", "starve", "tell", "serve"} => sock'[v] \in accepted' \/ sock'[v] \notin connected'
          /\ pc'[v] = "accept" => sock'[v] \notin connected'
          /\ pc'[v] \in {"accepted", "post"} => sock'[v] \in connected'
    BY <1>1, <1>2, <1>3 DEF Kinds, Holding
  <1> QED
    BY <1>1, <1>3, <1>4, <1>5 DEF Kinds, Queued, Told, Serving

\* ... and when one is made.
LEMMA KindsPutAccept ==
  ASSUME Typed, Kinds, SocketPlaces, NullInTheEnd,
         NEW w \in Workers, Holding(w), sock[w] # Null,
         NEW gone, PutAcceptSocket(sock[w], gone), UNCHANGED <<runmode, loop, events, idle>>,
         \/ gone = {sock[w]} /\ \E l \in {"loop", "end"} : Leave(w, l)
         \/ gone = {} /\ Goto(w, "post") /\ pc[w] = "accepted"
  PROVE  Kinds'
  <1>1. /\ sock[w] \in Sockets
        /\ ~Queued(sock[w])
        /\ \A v \in Workers \ {w} : Holding(v) => sock[v] # sock[w]
    BY HeldSocket DEF SocketPlaces
  <1>2. /\ \E n \in Sockets \ (alive \cup Referenced) : queue' = Append(queue, n)
        /\ connected' = connected \ gone
        /\ accepted' = accepted /\ input' = input /\ writing' = writing
    BY <1>1, PutTyped
  <1>3. PICK n \in Sockets \ (alive \cup Referenced) : \A x : Queued(x)' <=> Queued(x) \/ x = n
    BY <1>2, QueuePut
  <1>4. n \notin accepted /\ n \notin connected
    BY <1>3 DEF Typed, PoolTypeOK
  <1>5. \A v \in Workers : Holding(v)' =>
          /\ Holding(v) /\ sock'[v] = sock[v] /\ sock[v] \notin gone
          /\ pc'[v] = pc[v] \/ (pc[v] = "accepted" /\ pc'[v] = "post")
    <2>1. CASE gone = {sock[w]} /\ \E l \in {"loop", "end"} : Leave(w, l)
      BY <1>1, <2>1, HeldLeft DEF SocketPlaces
    <2>2. CASE gone = {} /\ Goto(w, "post") /\ pc[w] = "accepted"
      BY <2>2 DEF Goto, Holding, Typed, PoolTypeOK
    <2> QED
      BY <2>1, <2>2
  <1>6. \A v \in Workers :
          /\ pc'[v] \in {"io", "commit"} => sock'[v] \in accepted'
          /\ pc'[v] \in {"accept", "accepted", "post"} => sock'[v] \notin accepted'
    BY <1>2, <1>5 DEF Kinds, Holding
  <1>7. Serving => \A v \in Workers :
          /\ pc'[v] \in {"got", "starve", "tell", "serve"} => sock'[v] \in accepted' \/ sock'[v] \notin connected'
          /\ pc'[v] = "accept" => sock'[v] \notin connected'
          /\ pc'[v] \in {"accepted", "post"} => sock'[v] \in connected'
    BY <1>2, <1>5 DEF Kinds, Holding
  <1>8. Serving => \A s \in Sockets : Queued(s)' => s \in accepted' \/ s \notin connected'
    BY <1>2, <1>3, <1>4 DEF Kinds
  <1>9. \A s \in Sockets : Told("IdleSocket", s)' \/ Told("ActiveSocket", s)' => s \in accepted'
    BY <1>2 DEF Kinds, Told
  <1> QED
    BY <1>2, <1>6, <1>7, <1>8, <1>9 DEF Kinds, Serving

\* Every step of the pool keeps listening sockets and connections apart.
LEMMA PoolKinds ==
  ASSUME PoolInv, PoolNext
  PROVE  Kinds'
  <1>0. /\ Typed /\ NullInTheEnd /\ SocketPlaces /\ Phases /\ NotStarted /\ Registered /\ Kinds
        /\ ToldOnce /\ HeldOnce /\ OnePlace /\ AliveIsSomewhere
    BY DEF PoolInv, SocketPlaces, Control
  <1> USE <1>0
  <1>1. ASSUME NEW w \in Workers, WorkerLoop(w)
        PROVE  Kinds'
    <2>1. \A t \in SocketEvents, s \in Sockets : Told(t, s)' => Told(t, s)
      BY <1>1, ToldSame DEF WorkerLoop
    <2>2. \A v \in Workers :
            \/ pc'[v] = pc[v] \/ ~Holding(v)'
            \/ pc[v] \in {"got", "starve", "tell"} /\ pc'[v] \in {"starve", "tell", "serve"}
      BY <1>1 DEF WorkerLoop, Goto, Holding, Typed, PoolTypeOK
    <2> QED
      BY <1>1, <2>1, <2>2, KindsStay DEF WorkerLoop, Goto, Serving, Queued, pool, objects
  <1>2. ASSUME NEW w \in Workers, WorkerCount(w)
        PROVE  Kinds'
    <2>1. \A t \in SocketEvents, s \in Sockets : Told(t, s)' => Told(t, s)
      BY <1>2, ToldSame DEF WorkerCount
    <2>2. \A v \in Workers :
            \/ pc'[v] = pc[v] \/ ~Holding(v)'
            \/ pc[v] \in {"got", "starve", "tell"} /\ pc'[v] \in {"starve", "tell", "serve"}
      BY <1>2 DEF WorkerCount, Goto, Holding, Typed, PoolTypeOK
    <2> QED
      BY <1>2, <2>1, <2>2, KindsStay DEF WorkerCount, Goto, Serving, Queued, pool, objects
  <1>3. ASSUME NEW w \in Workers, WorkerWaits(w)
        PROVE  Kinds'
    <2>1. \A t \in SocketEvents, s \in Sockets : Told(t, s)' => Told(t, s)
      BY <1>3, ToldSame DEF WorkerWaits
    <2>2. \A v \in Workers :
            \/ pc'[v] = pc[v] \/ ~Holding(v)'
            \/ pc[v] \in {"got", "starve", "tell"} /\ pc'[v] \in {"starve", "tell", "serve"}
      BY <1>3 DEF WorkerWaits, Goto, Holding, Typed, PoolTypeOK
    <2> QED
      BY <1>3, <2>1, <2>2, KindsStay DEF WorkerWaits, Goto, Serving, Queued, pool, objects
  <1>4. ASSUME NEW w \in Workers, WorkerGets(w)
        PROVE  Kinds'
    <2>1. \A x : Queued(x) <=> Queued(x)' \/ x = Head(queue)
      BY <1>4, QueueGet DEF WorkerGets
    <2>2. /\ UNCHANGED <<accepted, connected, idle, input, writing, events, runmode, loop>>
          /\ pc'[w] = "got" /\ sock'[w] = Head(queue)
          /\ \A v \in Workers \ {w} : pc'[v] = pc[v] /\ sock'[v] = sock[v]
      BY <1>4 DEF WorkerGets, objects, pool, Typed, PoolTypeOK
    <2>3. Head(queue) \in Sockets \cup {Null}
      BY <1>4, QueueGet DEF WorkerGets
    <2>4. Serving => Head(queue) \in accepted \/ Head(queue) \notin connected
      <3>1. Serving => Head(queue) # Null
        BY <2>1 DEF NullInTheEnd, Serving
      <3> QED
        BY <2>1, <2>3, <3>1 DEF Kinds
    <2>5. \A v \in Workers :
            /\ pc'[v] \in {"io", "commit"} => sock'[v] \in accepted
            /\ pc'[v] \in {"accept", "accepted", "post"} => sock'[v] \notin accepted
      BY <2>2 DEF Kinds
    <2>6. Serving => \A v \in Workers :
            /\ pc'[v] \in {"got", "starve", "tell", "serve"} => sock'[v] \in accepted \/ sock'[v] \notin connected
            /\ pc'[v] = "accept" => sock'[v] \notin connected
            /\ pc'[v] \in {"accepted", "post"} => sock'[v] \in connected
      BY <2>2, <2>4 DEF Kinds
    <2> QED
      BY <2>1, <2>2, <2>5, <2>6 DEF Kinds, Serving, Told
  <1>5. ASSUME NEW w \in Workers, WorkerGot(w)
        PROVE  Kinds'
    <2>1. CASE isTerminating /\ Leave(w, "end")
      BY <1>5, <2>1, KindsPutBack DEF WorkerGot, Holding, objects, pool
    <2>2. CASE queue' = queue /\ \E l \in {"starve", "serve"} : Goto(w, l)
      <3>1. \A v \in Workers :
              \/ pc'[v] = pc[v]
              \/ pc[v] \in {"got", "starve", "tell"} /\ pc'[v] \in {"starve", "tell", "serve"}
        BY <1>5, <2>2 DEF WorkerGot, Goto, Typed, PoolTypeOK
      <3> QED
        BY <1>5, <2>2, <3>1, KindsStay DEF WorkerGot, Goto, Queued, Told, Serving, pool, objects
    <2> QED
      BY <1>5, <2>1, <2>2 DEF WorkerGot
  <1>6. ASSUME NEW w \in Workers, NEW locks \in BOOLEAN, NoWaitingThreads(w, locks)
        PROVE  Kinds'
    <2>1. \A t \in SocketEvents, s \in Sockets : Told(t, s)' => Told(t, s)
      <3>1. \/ events' = events
            \/ \E e \in EventSet :
                 /\ \A t \in SocketEvents, s \in Sockets : e # SocketEvent(t, s)
                 /\ events' = Append(events, e)
        BY <1>6, EventsTyped, EventsDiffer DEF NoWaitingThreads
      <3> QED
        BY <3>1, ToldSame
    <2>2. \A v \in Workers :
            \/ pc'[v] = pc[v] \/ ~Holding(v)'
            \/ pc[v] \in {"got", "starve", "tell"} /\ pc'[v] \in {"starve", "tell", "serve"}
      BY <1>6 DEF NoWaitingThreads, Goto, Holding, Typed, PoolTypeOK
    <2> QED
      BY <1>6, <2>1, <2>2, KindsStay DEF NoWaitingThreads, Goto, Serving, Queued, pool, objects
  <1>7. ASSUME NEW w \in Workers, WorkerServe(w)
        PROVE  Kinds'
    <2>1. Holding(w) /\ sock[w] # Null /\ sock[w] \in Sockets
      BY <1>7, NotNull, HeldSocket DEF WorkerServe
    <2>2. CASE Leave(w, "loop") /\ Delete({sock[w]})
      BY <1>7, <2>1, <2>2, KindsDelete DEF WorkerServe, pool
    <2>3. CASE \/ Goto(w, "accept") /\ sock[w] \notin accepted /\ UNCHANGED objects
               \/ Goto(w, "io") /\ sock[w] \in accepted /\ UNCHANGED objects
      <3>1. \A v \in Workers :
              \/ pc'[v] = pc[v]
              \/ pc[v] = "serve" /\ pc'[v] = "accept" /\ sock[v] \notin accepted
              \/ pc[v] = "serve" /\ pc'[v] = "io" /\ sock[v] \in accepted
        BY <1>7, <2>3 DEF WorkerServe, Goto, Typed, PoolTypeOK
      <3> QED
        BY <1>7, <2>3, <3>1, KindsStay DEF WorkerServe, Goto, Queued, Told, Serving, pool, objects
    <2> QED
      BY <1>7, <2>2, <2>3 DEF WorkerServe
  <1>8. ASSUME NEW w \in Workers, AcceptTerminated(w)
        PROVE  Kinds'
    <2>1. Holding(w) /\ sock[w] # Null /\ sock[w] \in Sockets
      BY <1>8, NotNull, HeldSocket DEF AcceptTerminated
    <2> QED
      BY <1>8, <2>1, KindsPutAccept DEF AcceptTerminated, pool
  <1>9. ASSUME NEW w \in Workers, AcceptConnection(w)
        PROVE  Kinds'
    <2>1. Holding(w) /\ sock[w] # Null /\ sock[w] \in Sockets
      BY <1>9, NotNull, HeldSocket DEF AcceptConnection
    <2>2. /\ \A v \in Workers \ {w} : Holding(v) => sock[v] # sock[w]
          /\ ~Queued(sock[w])
      BY <2>1, HeldSocket
    <2>3. /\ UNCHANGED <<runmode, loop, queue, events, idle, accepted, input, writing, sock>>
          /\ connected' = connected \cup {sock[w]} /\ pc[w] = "accept" /\ pc'[w] = "accepted"
          /\ \A v \in Workers \ {w} : pc'[v] = pc[v]
      BY <1>9 DEF AcceptConnection, Goto, pool, Typed, PoolTypeOK
    <2>4. \A v \in Workers :
            /\ pc'[v] \in {"io", "commit"} => sock[v] \in accepted
            /\ pc'[v] \in {"accept", "accepted", "post"} => sock[v] \notin accepted
      BY <2>3 DEF Kinds
    <2>5. Serving => \A v \in Workers :
            /\ pc'[v] \in {"got", "starve", "tell", "serve"} => sock[v] \in accepted \/ sock[v] \notin connected'
            /\ pc'[v] = "accept" => sock[v] \notin connected'
            /\ pc'[v] \in {"accepted", "post"} => sock[v] \in connected'
      BY <2>2, <2>3 DEF Kinds, Holding
    <2> QED
      BY <2>2, <2>3, <2>4, <2>5 DEF Kinds, Serving, Queued, Told
  <1>10. ASSUME NEW w \in Workers, AcceptFails(w)
        PROVE  Kinds'
    <2>1. Holding(w) /\ sock[w] # Null /\ sock[w] \in Sockets
      BY <1>10, NotNull, HeldSocket DEF AcceptFails
    <2> QED
      BY <1>10, <2>1, KindsPutAccept DEF AcceptFails, pool
  <1>11. ASSUME NEW w \in Workers, WorkerAccepted(w)
        PROVE  Kinds'
    <2>1. Holding(w) /\ sock[w] # Null /\ sock[w] \in Sockets
      BY <1>11, NotNull, HeldSocket DEF WorkerAccepted
    <2>2. CASE isTerminating /\ Leave(w, "end") /\ UNCHANGED objects
      BY <1>11, <2>1, <2>2, KindsPutBack DEF WorkerAccepted, pool
    <2>3. CASE PutAcceptSocket(sock[w], {}) /\ Goto(w, "post")
      BY <1>11, <2>1, <2>3, KindsPutAccept DEF WorkerAccepted, pool
    <2> QED
      BY <1>11, <2>2, <2>3 DEF WorkerAccepted
  <1>12. ASSUME NEW w \in Workers, PostAccept(w)
        PROVE  Kinds'
    <2>1. Holding(w) /\ sock[w] # Null /\ sock[w] \in Sockets
      BY <1>12, NotNull, HeldSocket DEF PostAccept
    <2>2. CASE PutAcceptSocket(sock[w], {sock[w]}) /\ Leave(w, "loop")
      BY <1>12, <2>1, <2>2, KindsPutAccept DEF PostAccept, pool
    <2>3. CASE /\ accepted' = accepted \cup {sock[w]} /\ Goto(w, "io")
               /\ UNCHANGED <<queue, alive, connected, input, writing, home>>
      <3>1. \A v \in Workers \ {w} : Holding(v) => sock[v] # sock[w]
        BY <2>1, HeldSocket
      <3>2. /\ pc'[w] = "io" /\ sock' = sock
            /\ \A v \in Workers \ {w} : pc'[v] = pc[v]
            /\ UNCHANGED <<runmode, loop, events, idle>>
        BY <1>12, <2>3 DEF PostAccept, Goto, pool, Typed, PoolTypeOK
      <3>3. \A v \in Workers :
              /\ pc'[v] \in {"io", "commit"} => sock[v] \in accepted'
              /\ pc'[v] \in {"accept", "accepted", "post"} => sock[v] \notin accepted'
        BY <2>3, <3>1, <3>2 DEF Kinds, Holding
      <3>4. Serving => \A v \in Workers :
              /\ pc'[v] \in {"got", "starve", "tell", "serve"} => sock[v] \in accepted' \/ sock[v] \notin connected'
              /\ pc'[v] = "accept" => sock[v] \notin connected'
              /\ pc'[v] \in {"accepted", "post"} => sock[v] \in connected'
        BY <2>3, <3>2 DEF Kinds
      <3> QED
        BY <2>3, <3>2, <3>3, <3>4 DEF Kinds, Serving, Queued, Told
    <2> QED
      BY <1>12, <2>2, <2>3 DEF PostAccept
  <1>13. ASSUME NEW w \in Workers, WorkerReads(w)
        PROVE  Kinds'
    <2>1. Holding(w) /\ sock[w] # Null /\ sock[w] \in Sockets
      BY <1>13, NotNull, HeldSocket DEF WorkerReads
    <2>2. sock[w] \in accepted /\ pc[w] = "io"
      BY <1>13 DEF WorkerReads, Kinds
    <2>3. \A v \in Workers \ {w} : Holding(v) => sock[v] # sock[w]
      BY <2>1, HeldSocket
    <2>4. /\ input' \subseteq input /\ writing' \subseteq writing \cup {sock[w]}
          /\ connected' \in {connected, connected \ {sock[w]}}
          /\ UNCHANGED <<runmode, loop, events, queue, idle, accepted, pc, sock>>
      BY <1>13 DEF WorkerReads, Close, pool
    <2>5. Serving => \A v \in Workers :
            /\ pc[v] \in {"got", "starve", "tell", "serve"} => sock[v] \in accepted \/ sock[v] \notin connected'
            /\ pc[v] = "accept" => sock[v] \notin connected'
            /\ pc[v] \in {"accepted", "post"} => sock[v] \in connected'
      BY <2>2, <2>3, <2>4 DEF Kinds, Holding
    <2> QED
      BY <2>2, <2>4, <2>5 DEF Kinds, Serving, Queued, Told
  <1>14. ASSUME NEW w \in Workers, WorkerFails(w)
        PROVE  Kinds'
    <2>1. Holding(w) /\ sock[w] # Null /\ sock[w] \in Sockets
      BY <1>14, NotNull, HeldSocket DEF WorkerFails
    <2> QED
      BY <1>14, <2>1, KindsDelete DEF WorkerFails, pool
  <1>15. ASSUME NEW w \in Workers, WorkerClosed(w)
        PROVE  Kinds'
    <2>1. Holding(w) /\ sock[w] # Null /\ sock[w] \in Sockets
      BY <1>15, NotNull, HeldSocket DEF WorkerClosed
    <2>2. CASE isTerminating /\ UNCHANGED objects
      BY <1>15, <2>1, <2>2, KindsPutBack DEF WorkerClosed, pool
    <2>3. CASE Delete({sock[w]}) /\ UNCHANGED queue
      BY <1>15, <2>1, <2>3, KindsDelete DEF WorkerClosed, pool
    <2> QED
      BY <1>15, <2>2, <2>3 DEF WorkerClosed
  <1>16. ASSUME NEW w \in Workers, ThreadTerminated(w)
        PROVE  Kinds'
    <2>1. \A t \in SocketEvents, s \in Sockets : Told(t, s)' => Told(t, s)
      <3>1. \/ events' = events
            \/ \E e \in EventSet :
                 /\ \A t \in SocketEvents, s \in Sockets : e # SocketEvent(t, s)
                 /\ events' = Append(events, e)
        BY <1>16, EventsTyped, EventsDiffer DEF ThreadTerminated
      <3> QED
        BY <3>1, ToldSame
    <2>2. \A v \in Workers :
            \/ pc'[v] = pc[v] \/ ~Holding(v)'
            \/ pc[v] \in {"got", "starve", "tell"} /\ pc'[v] \in {"starve", "tell", "serve"}
      BY <1>16 DEF ThreadTerminated, Goto, Holding, Typed, PoolTypeOK
    <2> QED
      BY <1>16, <2>1, <2>2, KindsStay DEF ThreadTerminated, Goto, Serving, Queued, pool, objects
  <1>17. ASSUME NEW w \in Workers, WorkerWrites(w)
        PROVE  Kinds'
    <2>1. Holding(w) /\ sock[w] # Null /\ sock[w] \in Sockets
      BY <1>17, NotNull, HeldSocket DEF WorkerWrites
    <2>2. sock[w] \in accepted /\ pc[w] = "io"
      BY <1>17 DEF WorkerWrites, Kinds
    <2>3. \A v \in Workers \ {w} : Holding(v) => sock[v] # sock[w]
      BY <2>1, HeldSocket
    <2>4. /\ input' \subseteq input /\ writing' \subseteq writing \cup {sock[w]}
          /\ connected' \in {connected, connected \ {sock[w]}}
          /\ UNCHANGED <<runmode, loop, events, queue, idle, accepted, pc, sock>>
      BY <1>17 DEF WorkerWrites, Close, pool
    <2>5. Serving => \A v \in Workers :
            /\ pc[v] \in {"got", "starve", "tell", "serve"} => sock[v] \in accepted \/ sock[v] \notin connected'
            /\ pc[v] = "accept" => sock[v] \notin connected'
            /\ pc[v] \in {"accepted", "post"} => sock[v] \in connected'
      BY <2>2, <2>3, <2>4 DEF Kinds, Holding
    <2> QED
      BY <2>2, <2>4, <2>5 DEF Kinds, Serving, Queued, Told
  <1>18. ASSUME NEW w \in Workers, AddIdleSocket(w)
        PROVE  Kinds'
    <2>1. Holding(w) /\ sock[w] # Null /\ sock[w] \in Sockets
      BY <1>18, NotNull, HeldSocket DEF AddIdleSocket
    <2>2. CASE Delete({sock[w]}) /\ Leave(w, "loop")
      BY <1>18, <2>1, <2>2, KindsDelete DEF AddIdleSocket, pool
    <2>3. CASE Goto(w, "commit") /\ UNCHANGED objects
      <3>1. \A v \in Workers : pc'[v] = pc[v] \/ (pc[v] = "io" /\ pc'[v] = "commit")
        BY <1>18, <2>3 DEF AddIdleSocket, Goto, Typed, PoolTypeOK
      <3> QED
        BY <1>18, <2>3, <3>1, KindsStay DEF AddIdleSocket, Goto, Queued, Told, Serving, pool, objects
    <2> QED
      BY <1>18, <2>2, <2>3 DEF AddIdleSocket
  <1>19. CASE OnServerStart
    <2>1. Handles("ServerStart") /\ events' = Tail(events)
      BY <1>19 DEF OnServerStart
    <2>2. \A t \in SocketEvents, s \in Sockets : Told(t, s)' => Told(t, s)
      BY <2>1, HeadEvent, EventGet DEF Told
    <2>3. PICK new \in SUBSET Workers : pc' = [v \in Workers |-> IF v \in new THEN "loop" ELSE pc[v]]
      BY <1>19, FirstThreads DEF OnServerStart
    <2>4. Serving /\ \A v \in Workers : pc'[v] = pc[v] \/ ~Holding(v)'
      BY <2>1, <2>3, HeadEvent DEF Holding, Serving, Phases
    <2> QED
      BY <1>19, <2>2, <2>4, KindsStay DEF OnServerStart, Goto, Serving, Queued, pool, objects
  <1>20. CASE Running
    <2>1. \A t \in SocketEvents, s \in Sockets : Told(t, s)' => Told(t, s)
      BY <1>20, ToldSame DEF Running
    <2>2. \A v \in Workers :
            \/ pc'[v] = pc[v] \/ ~Holding(v)'
            \/ pc[v] \in {"got", "starve", "tell"} /\ pc'[v] \in {"starve", "tell", "serve"}
      BY <1>20 DEF Running, Goto, Holding, Typed, PoolTypeOK
    <2> QED
      BY <1>20, <2>1, <2>2, KindsStay DEF Running, Goto, Serving, Queued, pool, objects
  <1>21. CASE OnNoWaitingThreads
    <2>1. Handles("NoWaitingThreads") /\ events' = Tail(events)
      BY <1>21 DEF OnNoWaitingThreads
    <2>2. \A t \in SocketEvents, s \in Sockets : Told(t, s)' => Told(t, s)
      BY <2>1, HeadEvent, EventGet DEF Told
    <2>3. \/ UNCHANGED pc
          \/ \E w \in Workers : Goto(w, "loop")
      BY <1>21 DEF OnNoWaitingThreads, Allocate
    <2>4. sock' = sock /\ \A v \in Workers : pc'[v] = pc[v] \/ ~Holding(v)'
      BY <1>21, <2>3 DEF OnNoWaitingThreads, Holding, Goto, Typed, PoolTypeOK
    <2> QED
      BY <1>21, <2>2, <2>4, KindsStay DEF OnNoWaitingThreads, Goto, Serving, Queued, pool, objects
  <1>22. CASE OnThreadTerminated
    <2>1. Handles("ThreadTerminated") /\ events' = Tail(events)
      BY <1>22 DEF OnThreadTerminated
    <2>2. \A t \in SocketEvents, s \in Sockets : Told(t, s)' => Told(t, s)
      BY <2>1, HeadEvent, EventGet DEF Told
    <2>3. \A v \in Workers : pc'[v] = pc[v] \/ ~Holding(v)'
      BY <1>22 DEF OnThreadTerminated, Holding, Goto, Typed, PoolTypeOK
    <2> QED
      BY <1>22, <2>2, <2>3, KindsStay DEF OnThreadTerminated, Goto, Serving, Queued, pool, objects
  <1>23. CASE OnIdleSocket
    <2>1. Handles("IdleSocket") /\ events' = Tail(events)
      BY <1>23 DEF OnIdleSocket
    <2>2. PICK s \in Sockets :
            /\ Head(events).socket = s /\ Told("IdleSocket", s)
            /\ \A t \in SocketEvents, x \in Sockets :
                 Told(t, x)' <=> Told(t, x) /\ ~(t = "IdleSocket" /\ x = s)
      BY <2>1, ToldGet DEF SocketEvents
    <2>3. s \in accepted /\ idle' = idle \cup {s}
      BY <1>23, <2>2 DEF OnIdleSocket, Kinds
    <2>4. UNCHANGED <<runmode, loop, queue, pc, sock, accepted, connected, input, writing>>
      BY <1>23 DEF OnIdleSocket, pool, objects
    <2> QED
      BY <2>2, <2>3, <2>4 DEF Kinds, Serving, Queued, SocketEvents
  <1>24. CASE Drained
    <2>1. \A t \in SocketEvents, s \in Sockets : Told(t, s)' => Told(t, s)
      BY <1>24, ToldSame DEF Drained
    <2>2. \A v \in Workers :
            \/ pc'[v] = pc[v] \/ ~Holding(v)'
            \/ pc[v] \in {"got", "starve", "tell"} /\ pc'[v] \in {"starve", "tell", "serve"}
      BY <1>24 DEF Drained, Goto, Holding, Typed, PoolTypeOK
    <2> QED
      BY <1>24, <2>1, <2>2, KindsStay DEF Drained, Goto, Serving, Queued, pool, objects
  <1>25. CASE Terminating
    <2>1. \A t \in SocketEvents, s \in Sockets : Told(t, s)' => Told(t, s)
      BY <1>25, ToldSame DEF Terminating
    <2>2. \A v \in Workers :
            \/ pc'[v] = pc[v] \/ ~Holding(v)'
            \/ pc[v] \in {"got", "starve", "tell"} /\ pc'[v] \in {"starve", "tell", "serve"}
      BY <1>25 DEF Terminating, Goto, Holding, Typed, PoolTypeOK
    <2> QED
      BY <1>25, <2>1, <2>2, KindsStay DEF Terminating, Goto, Serving, Queued, pool, objects
  <1>26. CASE WakeThreads
    <2>1. ~Serving'
      BY <1>26 DEF WakeThreads, Serving, Phases
    <2>2. UNCHANGED <<events, pc, sock, accepted, connected, idle, input, writing>>
      BY <1>26 DEF WakeThreads, objects
    <2> QED
      BY <2>1, <2>2 DEF Kinds, Told
  <1>27. CASE JoinThreads
    <2>1. \A t \in SocketEvents, s \in Sockets : Told(t, s)' => Told(t, s)
      BY <1>27, ToldSame DEF JoinThreads
    <2>2. \A v \in Workers :
            \/ pc'[v] = pc[v] \/ ~Holding(v)'
            \/ pc[v] \in {"got", "starve", "tell"} /\ pc'[v] \in {"starve", "tell", "serve"}
      BY <1>27 DEF JoinThreads, Goto, Holding, Typed, PoolTypeOK
    <2> QED
      BY <1>27, <2>1, <2>2, KindsStay DEF JoinThreads, Goto, Serving, Queued, pool, objects
  <1>28. CASE Stopped
    <2>1. ~Serving' /\ UNCHANGED <<events, pc, sock>> /\ idle' = {} /\ \A v \in Workers : ~Holding(v)
      BY <1>28 DEF Stopped, Serving, Registered, Holding
    <2>2. accepted' = accepted \ (idle \cup Range(queue))
      BY <1>28 DEF Stopped, Delete
    <2>3. input' \subseteq accepted' /\ writing' \subseteq accepted'
      BY <1>28 DEF Stopped, Delete, Kinds
    <2>4. \A s \in Sockets : Told("IdleSocket", s) \/ Told("ActiveSocket", s) => s \in accepted'
      BY <2>2 DEF Kinds, OnePlace, Queued
    <2> QED
      BY <2>1, <2>3, <2>4 DEF Kinds, Told, Holding
  <1>29. ASSUME NEW l \in Listeners, ClientConnects(l)
        PROVE  Kinds'
    <2>1. \A t \in SocketEvents, s \in Sockets : Told(t, s)' => Told(t, s)
      BY <1>29, ToldSame DEF ClientConnects
    <2>2. \A v \in Workers :
            \/ pc'[v] = pc[v] \/ ~Holding(v)'
            \/ pc[v] \in {"got", "starve", "tell"} /\ pc'[v] \in {"starve", "tell", "serve"}
      BY <1>29 DEF ClientConnects, Goto, Holding, Typed, PoolTypeOK
    <2> QED
      BY <1>29, <2>1, <2>2, KindsStay DEF ClientConnects, Goto, Serving, Queued, pool, objects
  <1>30. ASSUME NEW s \in Sockets, ClientSends(s)
        PROVE  Kinds'
    <2> QED
      BY <1>30 DEF ClientSends, Kinds, Serving, Queued, Told, pool
  <1>31. CASE Exit
    <2>1. \A t \in SocketEvents, s \in Sockets : Told(t, s)' => Told(t, s)
      BY <1>31, ToldSame DEF Exit
    <2>2. \A v \in Workers :
            \/ pc'[v] = pc[v] \/ ~Holding(v)'
            \/ pc[v] \in {"got", "starve", "tell"} /\ pc'[v] \in {"starve", "tell", "serve"}
      BY <1>31 DEF Exit, Goto, Holding, Typed, PoolTypeOK
    <2> QED
      BY <1>31, <2>1, <2>2, KindsStay DEF Exit, Goto, Serving, Queued, pool, objects
  <1>32. ASSUME NEW w \in Workers, CommitIdleSocket(w)
        PROVE  Kinds'
    <2>1. Holding(w) /\ sock[w] # Null /\ sock[w] \in Sockets
      BY <1>32, NotNull, HeldSocket DEF CommitIdleSocket
    <2>2. \A t \in SocketEvents, s \in Sockets :
            Told(t, s)' <=> Told(t, s) \/ (t = "IdleSocket" /\ s = sock[w])
      BY <1>32, <2>1, HeldSocket, ToldPut DEF CommitIdleSocket, SocketEvents
    <2>3. \A v \in Workers : Holding(v)' => sock'[v] = sock[v] /\ pc'[v] = pc[v]
      BY <1>32, <2>1, HeldLeft DEF CommitIdleSocket
    <2>4. sock[w] \in accepted
      BY <1>32 DEF CommitIdleSocket, Kinds
    <2>5. UNCHANGED <<runmode, loop, queue, idle, accepted, connected, input, writing>>
      BY <1>32 DEF CommitIdleSocket, pool, objects
    <2>6. \A v \in Workers :
            /\ pc'[v] \in {"io", "commit"} => sock'[v] \in accepted
            /\ pc'[v] \in {"accept", "accepted", "post"} => sock'[v] \notin accepted
      BY <2>3 DEF Kinds, Holding
    <2>7. Serving => \A v \in Workers :
            /\ pc'[v] \in {"got", "starve", "tell", "serve"} => sock'[v] \in accepted \/ sock'[v] \notin connected
            /\ pc'[v] = "accept" => sock'[v] \notin connected
            /\ pc'[v] \in {"accepted", "post"} => sock'[v] \in connected
      BY <2>3 DEF Kinds, Holding
    <2> QED
      BY <2>2, <2>4, <2>5, <2>6, <2>7 DEF Kinds, Serving, Queued, SocketEvents
  <1>33. ASSUME NEW w \in Workers, CommitNoWaitingThreads(w)
        PROVE  Kinds'
    <2>1. \A t \in SocketEvents, s \in Sockets : Told(t, s)' => Told(t, s)
      <3>1. \/ events' = events
            \/ \E e \in EventSet :
                 /\ \A t \in SocketEvents, s \in Sockets : e # SocketEvent(t, s)
                 /\ events' = Append(events, e)
        BY <1>33, EventsTyped, EventsDiffer DEF CommitNoWaitingThreads
      <3> QED
        BY <3>1, ToldSame
    <2>2. \A v \in Workers :
            \/ pc'[v] = pc[v] \/ ~Holding(v)'
            \/ pc[v] \in {"got", "starve", "tell"} /\ pc'[v] \in {"starve", "tell", "serve"}
      BY <1>33 DEF CommitNoWaitingThreads, Goto, Holding, Typed, PoolTypeOK
    <2> QED
      BY <1>33, <2>1, <2>2, KindsStay DEF CommitNoWaitingThreads, Goto, Serving, Queued, pool, objects
  <1> QED
    BY <1>1, <1>2, <1>3, <1>4, <1>5, <1>6, <1>7, <1>8, <1>9, <1>10, <1>11, <1>12, <1>13, <1>14, <1>15, <1>16, <1>17, <1>18, <1>19, <1>20, <1>21, <1>22, <1>23, <1>24, <1>25, <1>26, <1>27, <1>28, <1>29, <1>30, <1>31, <1>32, <1>33 DEF PoolNext, WorkerStep, LoopStep, ClientStep

-----------------------------------------------------------------------------
(* Listeners are served.                                                   *)

\* Who accepts connections, when no socket becomes one that listens, ...
LEMMA AcceptingStays ==
  ASSUME Accepting, Serving' => Serving,
         \A l \in Listeners : Acceptors(l)' = Acceptors(l),
         \A l \in Listeners, v \in Workers : Accepts(l, v)' <=> Accepts(l, v)
  PROVE  Accepting'
  BY DEF Accepting, Served, ServedOnce

\* ... when a connection comes or goes, ...
LEMMA AcceptorsStay ==
  ASSUME home' = home,
         \A s : s \in alive' \ (accepted' \cup connected') <=> s \in alive \ (accepted \cup connected)
  PROVE  \A l \in Listeners : Acceptors(l)' = Acceptors(l)
  BY DEF Acceptors

\* A worker that has accepted stays where it is.
LEMMA AcceptsStay ==
  ASSUME home' = home,
         \A v \in Workers : pc'[v] = "accepted" <=> pc[v] = "accepted",
         \A v \in Workers : pc[v] = "accepted" => sock'[v] = sock[v]
  PROVE  \A l \in Listeners, v \in Workers : Accepts(l, v)' <=> Accepts(l, v)
  BY DEF Accepts

\* ... and when a new socket listens beside or instead of the one of a worker.
LEMMA AcceptorsPut ==
  ASSUME Typed, SocketPlaces, Kinds, NullInTheEnd, NEW w \in Workers, Holding(w), sock[w] # Null,
         NEW gone \in {{}, {sock[w]}}, PutAcceptSocket(sock[w], gone),
         \A v \in Workers \ {w} : sock'[v] = sock[v] /\ pc'[v] = pc[v]
  PROVE  \E n \in Sockets :
           /\ home[sock[w]] \in Listeners
           /\ \A l \in Listeners :
                Acceptors(l)' = (Acceptors(l) \ gone) \cup (IF home[sock[w]] = l THEN {n} ELSE {})
           /\ \A l \in Listeners, v \in Workers \ {w} : Accepts(l, v)' <=> Accepts(l, v)
  <1>1. sock[w] \in Sockets /\ sock[w] \in alive
    BY HeldSocket DEF SocketPlaces
  <1>2. PICK n \in Sockets \ (alive \cup Referenced) :
            /\ alive' = (alive \cup {n}) \ gone
            /\ home' = [home EXCEPT ![n] = home[sock[w]]]
            /\ connected' = connected \ gone /\ accepted' = accepted
    BY <1>1, PutTyped
  <1>3. /\ n \notin alive /\ n \notin accepted /\ n \notin connected /\ ~Held(n)
        /\ home \in [Sockets -> Listeners] /\ alive \subseteq Sockets
    BY <1>2, NewIsNowhere DEF Typed, PoolTypeOK
  <1>4. ASSUME NEW l \in Listeners
        PROVE  Acceptors(l)' = (Acceptors(l) \ gone) \cup (IF home[sock[w]] = l THEN {n} ELSE {})
    <2>1. home'[n] = home[sock[w]] /\ \A s \in Sockets \ {n} : home'[s] = home[s]
      BY <1>2, <1>3
    <2>2. n \notin gone /\ gone \subseteq Sockets
      BY <1>1, <1>3
    <2>3. \A s : s \in Acceptors(l)' <=>
                   s \in Acceptors(l) \ gone \/ (s = n /\ home[sock[w]] = l)
      BY <1>2, <1>3, <2>1, <2>2 DEF Acceptors
    <2> QED
      BY <2>3
  <1>5. ASSUME NEW l \in Listeners, NEW v \in Workers \ {w}
        PROVE  Accepts(l, v)' <=> Accepts(l, v)
    <2>1. pc[v] = "accepted" => sock[v] \in Sockets /\ sock[v] # n
      BY <1>3, NotNull DEF Held, Holding, Typed, PoolTypeOK
    <2> QED
      BY <1>2, <1>3, <2>1 DEF Accepts
  <1> QED
    BY <1>1, <1>3, <1>4, <1>5

\* An acceptor is replaced.
LEMMA AcceptingPut ==
  ASSUME Typed, SocketPlaces, Kinds, NullInTheEnd, Accepting,
         NEW w \in Workers, pc[w] = "accept", sock[w] # Null, UNCHANGED <<runmode, loop>>,
         PutAcceptSocket(sock[w], {sock[w]}), Leave(w, "loop")
  PROVE  Accepting'
  <1>1. /\ \A v \in Workers \ {w} : sock'[v] = sock[v] /\ pc'[v] = pc[v]
        /\ pc'[w] = "loop" /\ Holding(w)
    BY DEF Leave, Typed, PoolTypeOK, Holding
  <1>2. PICK n \in Sockets :
           /\ home[sock[w]] \in Listeners
           /\ \A l \in Listeners :
                Acceptors(l)' = (Acceptors(l) \ {sock[w]}) \cup (IF home[sock[w]] = l THEN {n} ELSE {})
           /\ \A l \in Listeners, v \in Workers \ {w} : Accepts(l, v)' <=> Accepts(l, v)
    BY <1>1, AcceptorsPut
  <1>3. \A l \in Listeners : ~Accepts(l, w) /\ ~Accepts(l, w)'
    BY <1>1 DEF Accepts
  <1>4. Serving => sock[w] \in Acceptors(home[sock[w]])
    BY <1>1, HeldSocket DEF Acceptors, Kinds, SocketPlaces
  <1>5. \A l \in Listeners : l # home[sock[w]] => sock[w] \notin Acceptors(l)
    BY DEF Acceptors
  <1>6. Served'
    BY <1>2, <1>3, <1>5 DEF Accepting, Served, Serving
  <1>7. ServedOnce'
    BY <1>2, <1>3, <1>4, <1>5 DEF Accepting, ServedOnce, Serving
  <1> QED
    BY <1>6, <1>7 DEF Accepting

\* Every step of the pool keeps the listeners served.
LEMMA PoolAccepting ==
  ASSUME PoolInv, PoolNext
  PROVE  Accepting'
  <1>0. /\ Typed /\ NullInTheEnd /\ SocketPlaces /\ Phases /\ NotStarted /\ Registered /\ Kinds
        /\ ToldOnce /\ HeldOnce /\ OnePlace /\ AliveIsSomewhere /\ Accepting
    BY DEF PoolInv, SocketPlaces, Control
  <1> USE <1>0
  <1>1. ASSUME NEW w \in Workers, WorkerLoop(w)
        PROVE  Accepting'
    <2>1. Serving' => Serving
      BY <1>1 DEF WorkerLoop, Serving, pool
    <2>2. /\ UNCHANGED <<alive, accepted, connected, home>>
          /\ \A v \in Workers : pc'[v] = "accepted" <=> pc[v] = "accepted"
          /\ \A v \in Workers : pc[v] = "accepted" => sock'[v] = sock[v]
      BY <1>1 DEF WorkerLoop, Goto, Leave, objects, Typed, PoolTypeOK
    <2> QED
      BY <2>1, <2>2, AcceptingStays, AcceptorsStay, AcceptsStay
  <1>2. ASSUME NEW w \in Workers, WorkerCount(w)
        PROVE  Accepting'
    <2>1. Serving' => Serving
      BY <1>2 DEF WorkerCount, Serving, pool
    <2>2. /\ UNCHANGED <<alive, accepted, connected, home>>
          /\ \A v \in Workers : pc'[v] = "accepted" <=> pc[v] = "accepted"
          /\ \A v \in Workers : pc[v] = "accepted" => sock'[v] = sock[v]
      BY <1>2 DEF WorkerCount, Goto, Leave, objects, Typed, PoolTypeOK
    <2> QED
      BY <2>1, <2>2, AcceptingStays, AcceptorsStay, AcceptsStay
  <1>3. ASSUME NEW w \in Workers, WorkerWaits(w)
        PROVE  Accepting'
    <2>1. Serving' => Serving
      BY <1>3 DEF WorkerWaits, Serving, pool
    <2>2. /\ UNCHANGED <<alive, accepted, connected, home>>
          /\ \A v \in Workers : pc'[v] = "accepted" <=> pc[v] = "accepted"
          /\ \A v \in Workers : pc[v] = "accepted" => sock'[v] = sock[v]
      BY <1>3 DEF WorkerWaits, Goto, Leave, objects, Typed, PoolTypeOK
    <2> QED
      BY <2>1, <2>2, AcceptingStays, AcceptorsStay, AcceptsStay
  <1>4. ASSUME NEW w \in Workers, WorkerGets(w)
        PROVE  Accepting'
    <2>1. Serving' => Serving
      BY <1>4 DEF WorkerGets, Serving, pool
    <2>2. /\ UNCHANGED <<alive, accepted, connected, home>>
          /\ \A v \in Workers : pc'[v] = "accepted" <=> pc[v] = "accepted"
          /\ \A v \in Workers : pc[v] = "accepted" => sock'[v] = sock[v]
      BY <1>4 DEF WorkerGets, Goto, Leave, objects, Typed, PoolTypeOK
    <2> QED
      BY <2>1, <2>2, AcceptingStays, AcceptorsStay, AcceptsStay
  <1>5. ASSUME NEW w \in Workers, WorkerGot(w)
        PROVE  Accepting'
    <2>1. Serving' => Serving
      BY <1>5 DEF WorkerGot, Serving, pool
    <2>2. /\ UNCHANGED <<alive, accepted, connected, home>>
          /\ \A v \in Workers : pc'[v] = "accepted" <=> pc[v] = "accepted"
          /\ \A v \in Workers : pc[v] = "accepted" => sock'[v] = sock[v]
      BY <1>5 DEF WorkerGot, Goto, Leave, objects, Typed, PoolTypeOK
    <2> QED
      BY <2>1, <2>2, AcceptingStays, AcceptorsStay, AcceptsStay
  <1>6. ASSUME NEW w \in Workers, NEW locks \in BOOLEAN, NoWaitingThreads(w, locks)
        PROVE  Accepting'
    <2>1. Serving' => Serving
      BY <1>6 DEF NoWaitingThreads, Serving, pool
    <2>2. /\ UNCHANGED <<alive, accepted, connected, home>>
          /\ \A v \in Workers : pc'[v] = "accepted" <=> pc[v] = "accepted"
          /\ \A v \in Workers : pc[v] = "accepted" => sock'[v] = sock[v]
      BY <1>6 DEF NoWaitingThreads, Goto, Leave, objects, Typed, PoolTypeOK
    <2> QED
      BY <2>1, <2>2, AcceptingStays, AcceptorsStay, AcceptsStay
  <1>7. ASSUME NEW w \in Workers, WorkerServe(w)
        PROVE  Accepting'
    <2>1. CASE Goto(w, "accept") /\ UNCHANGED objects
      BY <1>7, <2>1, AcceptingStays, AcceptorsStay, AcceptsStay
      DEF WorkerServe, Goto, objects, pool, Serving, Typed, PoolTypeOK
    <2>2. CASE Goto(w, "io") /\ UNCHANGED objects
      BY <1>7, <2>2, AcceptingStays, AcceptorsStay, AcceptsStay
      DEF WorkerServe, Goto, objects, pool, Serving, Typed, PoolTypeOK
    <2>3. CASE sock[w] \in accepted /\ Leave(w, "loop") /\ Delete({sock[w]})
      BY <1>7, <2>3, AcceptingStays, AcceptorsStay, AcceptsStay
      DEF WorkerServe, Leave, Delete, pool, Serving, Typed, PoolTypeOK
    <2> QED
      BY <1>7, <2>1, <2>2, <2>3 DEF WorkerServe
  <1>8. ASSUME NEW w \in Workers, AcceptTerminated(w)
        PROVE  Accepting'
    <2>1. sock[w] # Null /\ Holding(w)
      BY <1>8, NotNull DEF AcceptTerminated
    <2> QED
      BY <1>8, <2>1, AcceptingPut DEF AcceptTerminated, pool
  <1>9. ASSUME NEW w \in Workers, AcceptConnection(w)
        PROVE  Accepting'
    <2>1. sock[w] # Null /\ Holding(w)
      BY <1>9, NotNull DEF AcceptConnection
    <2>2. /\ UNCHANGED <<runmode, loop, alive, accepted, home, sock>>
          /\ connected' = connected \cup {sock[w]} /\ pc[w] = "accept" /\ pc'[w] = "accepted"
          /\ \A v \in Workers \ {w} : pc'[v] = pc[v]
      BY <1>9 DEF AcceptConnection, Goto, pool, Typed, PoolTypeOK
    <2>3. sock[w] \in Sockets /\ sock[w] \in alive /\ home[sock[w]] \in Listeners
      BY <2>1, HeldSocket DEF Typed, PoolTypeOK
    <2>4. \A l \in Listeners : Acceptors(l)' = Acceptors(l) \ {sock[w]}
      BY <2>2 DEF Acceptors
    <2>5. \A l \in Listeners, v \in Workers :
            Accepts(l, v)' <=> Accepts(l, v) \/ (v = w /\ l = home[sock[w]])
      BY <2>2 DEF Accepts
    <2>6. Serving => sock[w] \in Acceptors(home[sock[w]])
      BY <2>2, <2>3 DEF Acceptors, Kinds
    <2>7. \A l \in Listeners : l # home[sock[w]] => sock[w] \notin Acceptors(l)
      BY DEF Acceptors
    <2>8. Served'
      BY <2>2, <2>3, <2>4, <2>5, <2>7 DEF Accepting, Served, Serving
    <2>9. ServedOnce'
      BY <2>2, <2>3, <2>4, <2>5, <2>6, <2>7 DEF Accepting, ServedOnce, Serving
    <2> QED
      BY <2>8, <2>9 DEF Accepting
  <1>10. ASSUME NEW w \in Workers, AcceptFails(w)
        PROVE  Accepting'
    <2>1. sock[w] # Null /\ Holding(w)
      BY <1>10, NotNull DEF AcceptFails
    <2> QED
      BY <1>10, <2>1, AcceptingPut DEF AcceptFails, pool
  <1>11. ASSUME NEW w \in Workers, WorkerAccepted(w)
        PROVE  Accepting'
    <2>1. sock[w] # Null /\ Holding(w)
      BY <1>11, NotNull DEF WorkerAccepted
    <2>2. CASE isTerminating /\ UNCHANGED runmode
      BY <2>2 DEF isTerminating, Accepting, Served, ServedOnce, Serving
    <2>3. CASE PutAcceptSocket(sock[w], {}) /\ Goto(w, "post")
      <3>1. /\ \A v \in Workers \ {w} : sock'[v] = sock[v] /\ pc'[v] = pc[v]
            /\ pc[w] = "accepted" /\ pc'[w] = "post" /\ UNCHANGED <<runmode, loop>>
        BY <1>11, <2>3 DEF WorkerAccepted, Goto, Typed, PoolTypeOK, pool
      <3>2. PICK n \in Sockets :
               /\ home[sock[w]] \in Listeners
               /\ \A l \in Listeners :
                    Acceptors(l)' = (Acceptors(l) \ {}) \cup (IF home[sock[w]] = l THEN {n} ELSE {})
               /\ \A l \in Listeners, v \in Workers \ {w} : Accepts(l, v)' <=> Accepts(l, v)
        BY <2>1, <2>3, <3>1, AcceptorsPut
      <3>3. \A l \in Listeners : (Accepts(l, w) <=> l = home[sock[w]]) /\ ~Accepts(l, w)'
        BY <3>1 DEF Accepts
      <3>4. Served'
        BY <3>1, <3>2, <3>3 DEF Accepting, Served, Serving
      <3>5. ServedOnce'
        BY <3>1, <3>2, <3>3 DEF Accepting, ServedOnce, Serving
      <3> QED
        BY <3>4, <3>5 DEF Accepting
    <2> QED
      BY <1>11, <2>2, <2>3 DEF WorkerAccepted, pool
  <1>12. ASSUME NEW w \in Workers, PostAccept(w)
        PROVE  Accepting'
    <2>1. sock[w] # Null /\ Holding(w)
      BY <1>12, NotNull DEF PostAccept
    <2>2. CASE /\ Ssl /\ PutAcceptSocket(sock[w], {sock[w]}) /\ Leave(w, "loop")
      <3>1. /\ \A v \in Workers \ {w} : sock'[v] = sock[v] /\ pc'[v] = pc[v]
            /\ pc[w] = "post" /\ pc'[w] = "loop" /\ UNCHANGED <<runmode, loop>>
        BY <1>12, <2>2 DEF PostAccept, Leave, Typed, PoolTypeOK, pool
      <3>2. PICK n \in Sockets :
               /\ home[sock[w]] \in Listeners
               /\ \A l \in Listeners :
                    Acceptors(l)' = (Acceptors(l) \ {sock[w]}) \cup (IF home[sock[w]] = l THEN {n} ELSE {})
               /\ \A l \in Listeners, v \in Workers \ {w} : Accepts(l, v)' <=> Accepts(l, v)
        BY <2>1, <2>2, <3>1, AcceptorsPut
      <3>3. \A l \in Listeners : ~Accepts(l, w) /\ ~Accepts(l, w)'
        BY <3>1 DEF Accepts
      <3>4. \A l \in Listeners : l # home[sock[w]] => sock[w] \notin Acceptors(l)
        BY DEF Acceptors
      <3>5. Served'
        BY <3>1, <3>2, <3>3, <3>4 DEF Accepting, Served, Serving
      <3> QED
        BY <2>2, <3>5 DEF Accepting, ServedOnce
    <2>3. CASE /\ accepted' = accepted \cup {sock[w]} /\ Goto(w, "io")
               /\ UNCHANGED <<queue, alive, connected, input, writing, home>>
      <3>1. /\ \A v \in Workers \ {w} : pc'[v] = pc[v]
            /\ pc[w] = "post" /\ pc'[w] = "io" /\ UNCHANGED <<runmode, loop, sock>>
        BY <1>12, <2>3 DEF PostAccept, Goto, Typed, PoolTypeOK, pool
      <3>2. Serving => sock[w] \in connected
        BY <3>1 DEF Kinds
      <3>3. CASE Serving
        BY <2>3, <3>1, <3>2, <3>3, AcceptingStays, AcceptorsStay, AcceptsStay DEF Serving
      <3>4. CASE ~Serving
        BY <3>1, <3>4 DEF Serving, Accepting, Served, ServedOnce
      <3> QED
        BY <3>3, <3>4
    <2> QED
      BY <1>12, <2>2, <2>3 DEF PostAccept
  <1>13. ASSUME NEW w \in Workers, WorkerReads(w)
        PROVE  Accepting'
    <2>1. Serving' => Serving
      BY <1>13 DEF WorkerReads, Serving, pool
    <2>2. Serving => sock[w] \in accepted
      BY <1>13 DEF WorkerReads, Kinds
    <2>3. /\ home' = home
          /\ \/ UNCHANGED <<alive, accepted, connected>>
             \/ /\ alive' = alive \ {sock[w]} /\ accepted' = accepted \ {sock[w]}
                /\ connected' = connected \ {sock[w]}
             \/ /\ UNCHANGED <<alive, accepted>> /\ connected' = connected \ {sock[w]}
      BY <1>13 DEF WorkerReads, Delete, Close, objects
    <2>4. Serving => \A s : s \in alive' \ (accepted' \cup connected') <=> s \in alive \ (accepted \cup connected)
      BY <2>2, <2>3
    <2>5. /\ \A v \in Workers : pc'[v] = "accepted" <=> pc[v] = "accepted"
          /\ \A v \in Workers : pc[v] = "accepted" => sock'[v] = sock[v]
      BY <1>13 DEF WorkerReads, Goto, Leave, Typed, PoolTypeOK
    <2>6. CASE Serving
      BY <2>1, <2>3, <2>4, <2>5, <2>6, AcceptingStays, AcceptorsStay, AcceptsStay
    <2>7. CASE ~Serving
      BY <2>1, <2>7 DEF Accepting, Served, ServedOnce
    <2> QED
      BY <2>6, <2>7
  <1>14. ASSUME NEW w \in Workers, WorkerFails(w)
        PROVE  Accepting'
    <2>1. Serving' => Serving
      BY <1>14 DEF WorkerFails, Serving, pool
    <2>2. Serving => sock[w] \in accepted
      BY <1>14 DEF WorkerFails, Kinds
    <2>3. /\ home' = home
          /\ \/ UNCHANGED <<alive, accepted, connected>>
             \/ /\ alive' = alive \ {sock[w]} /\ accepted' = accepted \ {sock[w]}
                /\ connected' = connected \ {sock[w]}
             \/ /\ UNCHANGED <<alive, accepted>> /\ connected' = connected \ {sock[w]}
      BY <1>14 DEF WorkerFails, Delete, Close, objects
    <2>4. Serving => \A s : s \in alive' \ (accepted' \cup connected') <=> s \in alive \ (accepted \cup connected)
      BY <2>2, <2>3
    <2>5. /\ \A v \in Workers : pc'[v] = "accepted" <=> pc[v] = "accepted"
          /\ \A v \in Workers : pc[v] = "accepted" => sock'[v] = sock[v]
      BY <1>14 DEF WorkerFails, Goto, Leave, Typed, PoolTypeOK
    <2>6. CASE Serving
      BY <2>1, <2>3, <2>4, <2>5, <2>6, AcceptingStays, AcceptorsStay, AcceptsStay
    <2>7. CASE ~Serving
      BY <2>1, <2>7 DEF Accepting, Served, ServedOnce
    <2> QED
      BY <2>6, <2>7
  <1>15. ASSUME NEW w \in Workers, WorkerClosed(w)
        PROVE  Accepting'
    <2>1. Serving' => Serving
      BY <1>15 DEF WorkerClosed, Serving, pool
    <2>2. Serving => sock[w] \in accepted
      BY <1>15 DEF WorkerClosed, Kinds
    <2>3. /\ home' = home
          /\ \/ UNCHANGED <<alive, accepted, connected>>
             \/ /\ alive' = alive \ {sock[w]} /\ accepted' = accepted \ {sock[w]}
                /\ connected' = connected \ {sock[w]}
             \/ /\ UNCHANGED <<alive, accepted>> /\ connected' = connected \ {sock[w]}
      BY <1>15 DEF WorkerClosed, Delete, Close, objects
    <2>4. Serving => \A s : s \in alive' \ (accepted' \cup connected') <=> s \in alive \ (accepted \cup connected)
      BY <2>2, <2>3
    <2>5. /\ \A v \in Workers : pc'[v] = "accepted" <=> pc[v] = "accepted"
          /\ \A v \in Workers : pc[v] = "accepted" => sock'[v] = sock[v]
      BY <1>15 DEF WorkerClosed, Goto, Leave, Typed, PoolTypeOK
    <2>6. CASE Serving
      BY <2>1, <2>3, <2>4, <2>5, <2>6, AcceptingStays, AcceptorsStay, AcceptsStay
    <2>7. CASE ~Serving
      BY <2>1, <2>7 DEF Accepting, Served, ServedOnce
    <2> QED
      BY <2>6, <2>7
  <1>16. ASSUME NEW w \in Workers, ThreadTerminated(w)
        PROVE  Accepting'
    <2>1. Serving' => Serving
      BY <1>16 DEF ThreadTerminated, Serving, pool
    <2>2. /\ UNCHANGED <<alive, accepted, connected, home>>
          /\ \A v \in Workers : pc'[v] = "accepted" <=> pc[v] = "accepted"
          /\ \A v \in Workers : pc[v] = "accepted" => sock'[v] = sock[v]
      BY <1>16 DEF ThreadTerminated, Goto, Leave, objects, Typed, PoolTypeOK
    <2> QED
      BY <2>1, <2>2, AcceptingStays, AcceptorsStay, AcceptsStay
  <1>17. ASSUME NEW w \in Workers, WorkerWrites(w)
        PROVE  Accepting'
    <2>1. Serving' => Serving
      BY <1>17 DEF WorkerWrites, Serving, pool
    <2>2. Serving => sock[w] \in accepted
      BY <1>17 DEF WorkerWrites, Kinds
    <2>3. /\ home' = home
          /\ \/ UNCHANGED <<alive, accepted, connected>>
             \/ /\ alive' = alive \ {sock[w]} /\ accepted' = accepted \ {sock[w]}
                /\ connected' = connected \ {sock[w]}
             \/ /\ UNCHANGED <<alive, accepted>> /\ connected' = connected \ {sock[w]}
      BY <1>17 DEF WorkerWrites, Delete, Close, objects
    <2>4. Serving => \A s : s \in alive' \ (accepted' \cup connected') <=> s \in alive \ (accepted \cup connected)
      BY <2>2, <2>3
    <2>5. /\ \A v \in Workers : pc'[v] = "accepted" <=> pc[v] = "accepted"
          /\ \A v \in Workers : pc[v] = "accepted" => sock'[v] = sock[v]
      BY <1>17 DEF WorkerWrites, Goto, Leave, Typed, PoolTypeOK
    <2>6. CASE Serving
      BY <2>1, <2>3, <2>4, <2>5, <2>6, AcceptingStays, AcceptorsStay, AcceptsStay
    <2>7. CASE ~Serving
      BY <2>1, <2>7 DEF Accepting, Served, ServedOnce
    <2> QED
      BY <2>6, <2>7
  <1>18. ASSUME NEW w \in Workers, AddIdleSocket(w)
        PROVE  Accepting'
    <2>1. Serving' => Serving
      BY <1>18 DEF AddIdleSocket, Serving, pool
    <2>2. Serving => sock[w] \in accepted
      BY <1>18 DEF AddIdleSocket, Kinds
    <2>3. /\ home' = home
          /\ \/ UNCHANGED <<alive, accepted, connected>>
             \/ /\ alive' = alive \ {sock[w]} /\ accepted' = accepted \ {sock[w]}
                /\ connected' = connected \ {sock[w]}
             \/ /\ UNCHANGED <<alive, accepted>> /\ connected' = connected \ {sock[w]}
      BY <1>18 DEF AddIdleSocket, Delete, Close, objects
    <2>4. Serving => \A s : s \in alive' \ (accepted' \cup connected') <=> s \in alive \ (accepted \cup connected)
      BY <2>2, <2>3
    <2>5. /\ \A v \in Workers : pc'[v] = "accepted" <=> pc[v] = "accepted"
          /\ \A v \in Workers : pc[v] = "accepted" => sock'[v] = sock[v]
      BY <1>18 DEF AddIdleSocket, Goto, Leave, Typed, PoolTypeOK
    <2>6. CASE Serving
      BY <2>1, <2>3, <2>4, <2>5, <2>6, AcceptingStays, AcceptorsStay, AcceptsStay
    <2>7. CASE ~Serving
      BY <2>1, <2>7 DEF Accepting, Served, ServedOnce
    <2> QED
      BY <2>6, <2>7
  <1>19. CASE OnServerStart
    <2>1. Handles("ServerStart") /\ events' = Tail(events)
      BY <1>19 DEF OnServerStart
    <2>2. Serving /\ \A v \in Workers : pc[v] = "none"
      BY <2>1, HeadEvent, EventGet DEF Serving, Phases, NotStarted
    <2>3. PICK new \in SUBSET Workers : pc' = [v \in Workers |-> IF v \in new THEN "loop" ELSE pc[v]]
      BY <1>19, FirstThreads DEF OnServerStart
    <2>4. UNCHANGED <<alive, accepted, connected, home, sock>>
      BY <1>19 DEF OnServerStart, objects
    <2> QED
      BY <2>2, <2>3, <2>4, AcceptingStays, AcceptorsStay, AcceptsStay
  <1>20. CASE Running
    <2>1. Serving' => Serving
      BY <1>20 DEF Running, Serving, pool
    <2>2. /\ UNCHANGED <<alive, accepted, connected, home>>
          /\ \A v \in Workers : pc'[v] = "accepted" <=> pc[v] = "accepted"
          /\ \A v \in Workers : pc[v] = "accepted" => sock'[v] = sock[v]
      BY <1>20 DEF Running, Goto, Leave, objects, Typed, PoolTypeOK
    <2> QED
      BY <2>1, <2>2, AcceptingStays, AcceptorsStay, AcceptsStay
  <1>21. CASE OnNoWaitingThreads
    <2>1. \/ UNCHANGED <<pc, sock>>
          \/ \E w \in Workers : pc[w] = "none" /\ Goto(w, "loop")
      BY <1>21 DEF OnNoWaitingThreads, Allocate
    <2>2. UNCHANGED <<runmode, loop, alive, accepted, connected, home>>
      BY <1>21 DEF OnNoWaitingThreads, objects
    <2>3. /\ \A v \in Workers : pc'[v] = "accepted" <=> pc[v] = "accepted"
          /\ \A v \in Workers : pc[v] = "accepted" => sock'[v] = sock[v]
      BY <2>1 DEF Goto, Typed, PoolTypeOK
    <2> QED
      BY <2>2, <2>3, AcceptingStays, AcceptorsStay, AcceptsStay DEF Serving
  <1>22. CASE OnThreadTerminated
    <2>1. Handles("ThreadTerminated") /\ events' = Tail(events)
      BY <1>22 DEF OnThreadTerminated
    <2>2. PICK w \in Workers : Head(events) = WorkerEvent(w)
      BY <2>1, HeadEvent
    <2>3. Goto(w, "none")
      BY <1>22, <2>2 DEF OnThreadTerminated, WorkerEvent
    <2>4. pc[w] = "done"
      BY <2>1, <2>2, HeadEvent, EventGet DEF Registered
    <2>5. UNCHANGED <<runmode, loop, alive, accepted, connected, home>>
      BY <1>22 DEF OnThreadTerminated, objects, pool
    <2>6. /\ \A v \in Workers : pc'[v] = "accepted" <=> pc[v] = "accepted"
          /\ \A v \in Workers : pc[v] = "accepted" => sock'[v] = sock[v]
      BY <2>3, <2>4 DEF Goto, Typed, PoolTypeOK
    <2> QED
      BY <2>5, <2>6, AcceptingStays, AcceptorsStay, AcceptsStay DEF Serving
  <1>23. CASE OnIdleSocket
    <2>1. Serving' => Serving
      BY <1>23 DEF OnIdleSocket, Serving, pool
    <2>2. /\ UNCHANGED <<alive, accepted, connected, home>>
          /\ \A v \in Workers : pc'[v] = "accepted" <=> pc[v] = "accepted"
          /\ \A v \in Workers : pc[v] = "accepted" => sock'[v] = sock[v]
      BY <1>23 DEF OnIdleSocket, Goto, Leave, objects, Typed, PoolTypeOK
    <2> QED
      BY <2>1, <2>2, AcceptingStays, AcceptorsStay, AcceptsStay
  <1>24. CASE Drained
    <2>1. Serving' => Serving
      BY <1>24 DEF Drained, Serving, pool
    <2>2. /\ UNCHANGED <<alive, accepted, connected, home>>
          /\ \A v \in Workers : pc'[v] = "accepted" <=> pc[v] = "accepted"
          /\ \A v \in Workers : pc[v] = "accepted" => sock'[v] = sock[v]
      BY <1>24 DEF Drained, Goto, Leave, objects, Typed, PoolTypeOK
    <2> QED
      BY <2>1, <2>2, AcceptingStays, AcceptorsStay, AcceptsStay
  <1>25. CASE Terminating
    BY <1>25 DEF Terminating, Accepting, Served, ServedOnce, Serving, Phases
  <1>26. CASE WakeThreads
    BY <1>26 DEF WakeThreads, Accepting, Served, ServedOnce, Serving, Phases
  <1>27. CASE JoinThreads
    <2>1. Serving' => Serving
      BY <1>27 DEF JoinThreads, Serving, pool
    <2>2. /\ UNCHANGED <<alive, accepted, connected, home>>
          /\ \A v \in Workers : pc'[v] = "accepted" <=> pc[v] = "accepted"
          /\ \A v \in Workers : pc[v] = "accepted" => sock'[v] = sock[v]
      BY <1>27 DEF JoinThreads, Goto, Leave, objects, Typed, PoolTypeOK, Registered
    <2> QED
      BY <2>1, <2>2, AcceptingStays, AcceptorsStay, AcceptsStay
  <1>28. CASE Stopped
    BY <1>28 DEF Stopped, Accepting, Served, ServedOnce, Serving, Phases
  <1>29. ASSUME NEW l \in Listeners, ClientConnects(l)
        PROVE  Accepting'
    <2>1. Serving' => Serving
      BY <1>29 DEF ClientConnects, Serving, pool
    <2>2. /\ UNCHANGED <<alive, accepted, connected, home>>
          /\ \A v \in Workers : pc'[v] = "accepted" <=> pc[v] = "accepted"
          /\ \A v \in Workers : pc[v] = "accepted" => sock'[v] = sock[v]
      BY <1>29 DEF ClientConnects, Goto, Leave, objects, Typed, PoolTypeOK
    <2> QED
      BY <2>1, <2>2, AcceptingStays, AcceptorsStay, AcceptsStay
  <1>30. ASSUME NEW s \in Sockets, ClientSends(s)
        PROVE  Accepting'
    <2>1. Serving' => Serving
      BY <1>30 DEF ClientSends, Serving, pool
    <2>2. /\ UNCHANGED <<alive, accepted, connected, home>>
          /\ \A v \in Workers : pc'[v] = "accepted" <=> pc[v] = "accepted"
          /\ \A v \in Workers : pc[v] = "accepted" => sock'[v] = sock[v]
      BY <1>30 DEF ClientSends, Goto, Leave, objects, Typed, PoolTypeOK
    <2> QED
      BY <2>1, <2>2, AcceptingStays, AcceptorsStay, AcceptsStay
  <1>31. CASE Exit
    <2>1. Serving' => Serving
      BY <1>31 DEF Exit, Serving, pool
    <2>2. /\ UNCHANGED <<alive, accepted, connected, home>>
          /\ \A v \in Workers : pc'[v] = "accepted" <=> pc[v] = "accepted"
          /\ \A v \in Workers : pc[v] = "accepted" => sock'[v] = sock[v]
      BY <1>31 DEF Exit, Goto, Leave, objects, Typed, PoolTypeOK
    <2> QED
      BY <2>1, <2>2, AcceptingStays, AcceptorsStay, AcceptsStay
  <1>32. ASSUME NEW w \in Workers, CommitIdleSocket(w)
        PROVE  Accepting'
    <2>1. Serving' => Serving
      BY <1>32 DEF CommitIdleSocket, Serving, pool
    <2>2. /\ UNCHANGED <<alive, accepted, connected, home>>
          /\ \A v \in Workers : pc'[v] = "accepted" <=> pc[v] = "accepted"
          /\ \A v \in Workers : pc[v] = "accepted" => sock'[v] = sock[v]
      BY <1>32 DEF CommitIdleSocket, Goto, Leave, objects, Typed, PoolTypeOK
    <2> QED
      BY <2>1, <2>2, AcceptingStays, AcceptorsStay, AcceptsStay
  <1>33. ASSUME NEW w \in Workers, CommitNoWaitingThreads(w)
        PROVE  Accepting'
    <2>1. Serving' => Serving
      BY <1>33 DEF CommitNoWaitingThreads, Serving, pool
    <2>2. /\ UNCHANGED <<alive, accepted, connected, home>>
          /\ \A v \in Workers : pc'[v] = "accepted" <=> pc[v] = "accepted"
          /\ \A v \in Workers : pc[v] = "accepted" => sock'[v] = sock[v]
      BY <1>33 DEF CommitNoWaitingThreads, Goto, Leave, objects, Typed, PoolTypeOK
    <2> QED
      BY <2>1, <2>2, AcceptingStays, AcceptorsStay, AcceptsStay
  <1> QED
    BY <1>1, <1>2, <1>3, <1>4, <1>5, <1>6, <1>7, <1>8, <1>9, <1>10, <1>11, <1>12, <1>13, <1>14, <1>15, <1>16, <1>17, <1>18, <1>19, <1>20, <1>21, <1>22, <1>23, <1>24, <1>25, <1>26, <1>27, <1>28, <1>29, <1>30, <1>31, <1>32, <1>33 DEF PoolNext, WorkerStep, LoopStep, ClientStep

-----------------------------------------------------------------------------
(* The invariant of the pool.                                              *)

\* The first sockets and their queue, which PoolInit chooses.
LEMMA FirstSockets ==
  ASSUME PoolInit
  PROVE  \E at \in Injection(Listeners, Sockets) :
           /\ alive = Range(at) /\ alive \subseteq Sockets
           /\ home \in [Sockets -> Listeners] /\ \A l \in Listeners : home[at[l]] = l
           /\ queue \in Seq(Sockets) /\ Range(queue) = alive /\ \A x : Once(queue, x)
  <1> DEFINE n == Cardinality(Listeners)
  <1>1. PICK at \in Injection(Listeners, Sockets) :
          /\ alive = Range(at)
          /\ home = [s \in Sockets |-> IF s \in alive THEN Inverse(at, Listeners, alive)[s]
                                       ELSE CHOOSE l \in Listeners : TRUE]
          /\ queue = CHOOSE q \in [1..n -> alive] : Range(q) = alive
    BY ResourceAssumption DEF PoolInit
  <1>2. at \in [Listeners -> Sockets] /\ \A k, l \in Listeners : at[k] = at[l] => k = l
    BY DEF Injection, IsInjective
  <1>3. alive = {at[l] : l \in Listeners} /\ alive \subseteq Sockets
    BY <1>1, <1>2 DEF Range
  <1>4. IsFiniteSet(Listeners) /\ n \in Nat
    BY FS_Injection, FS_CardinalityType, ResourceAssumption
  <1>5. at \in Bijection(Listeners, alive)
    BY <1>2, <1>3 DEF Bijection, Injection, Surjection, IsInjective
  <1>6. IsFiniteSet(alive) /\ Cardinality(alive) = n
    BY <1>4, <1>5, FS_Bijection DEF ExistsBijection
  <1>7. PICK g : g \in Bijection(1..n, alive)
    BY <1>6, FS_CardinalityType DEF ExistsBijection
  <1>8. g \in [1..n -> alive] /\ Range(g) = alive
    BY <1>7 DEF Bijection, Surjection, Injection, Range
  <1>9. queue \in [1..n -> alive] /\ Range(queue) = alive
    BY <1>1, <1>8
  <1>10. queue \in Surjection(1..n, alive)
    BY <1>9 DEF Surjection, Range
  <1>11. IsFiniteSet(1..n) /\ Cardinality(1..n) = n
    BY <1>4, FS_Interval
  <1>12. \A x : Once(queue, x)
    <2>1. queue \in Injection(1..n, alive)
      BY <1>6, <1>10, <1>11, FS_SurjSameCardinalityImpliesInj
    <2>2. DOMAIN queue = 1..n /\ \A i, j \in 1..n : queue[i] = queue[j] => i = j
      BY <2>1, <1>9 DEF Injection, IsInjective
    <2> QED
      BY <2>2 DEF Once
  <1>13. queue \in Seq(Sockets)
    BY <1>3, <1>4, <1>9
  <1>14. \A l \in Listeners : home[at[l]] = l
    <2> SUFFICES ASSUME NEW l \in Listeners PROVE home[at[l]] = l
      OBVIOUS
    <2>1. at[l] \in alive /\ at[l] \in Sockets
      BY <1>2, <1>3
    <2>2. home[at[l]] = CHOOSE k \in Listeners : at[l] \in Range(at) => at[k] = at[l]
      BY <1>1, <2>1 DEF Inverse
    <2>3. \A k \in Listeners : (at[l] \in Range(at) => at[k] = at[l]) <=> k = l
      BY <1>1, <1>2, <2>1
    <2> QED
      BY <2>2, <2>3
  <1>15. home \in [Sockets -> Listeners]
    <2>1. PICK k \in Listeners : TRUE
      BY ResourceAssumption
    <2>2. (CHOOSE l \in Listeners : TRUE) \in Listeners
      BY <2>1
    <2>3. ASSUME NEW s \in Sockets, s \in alive
          PROVE  home[s] \in Listeners
      <3>1. PICK l \in Listeners : s = at[l]
        BY <1>3, <2>3
      <3> QED
        BY <1>14, <3>1
    <2>4. \A s \in Sockets : home[s] \in Listeners
      BY <1>1, <2>2, <2>3
    <2>5. home = [s \in Sockets |-> home[s]]
      BY <1>1
    <2> QED
      BY <2>4, <2>5
  <1> QED
    BY <1>1, <1>3, <1>9, <1>12, <1>13, <1>14, <1>15

\* The invariant holds when the loop is about to run ...
LEMMA PoolBegins ==
  ASSUME PoolInit
  PROVE  PoolInv
  <1>1. PICK at \in Injection(Listeners, Sockets) :
           /\ alive = Range(at) /\ alive \subseteq Sockets
           /\ home \in [Sockets -> Listeners] /\ \A l \in Listeners : home[at[l]] = l
           /\ queue \in Seq(Sockets) /\ Range(queue) = alive /\ \A x : Once(queue, x)
    BY FirstSockets
  <1>2. /\ runmode = "Stopped" /\ loop = "run" /\ events = <<ServerStartEvent>>
        /\ idle = {} /\ threads = {} /\ terminated = {}
        /\ pc = [w \in Workers |-> "none"] /\ sock = [w \in Workers |-> Null]
        /\ accepted = {} /\ connected = {} /\ input = {} /\ writing = {}
        /\ wake = [l \in Listeners |-> 0] /\ backlog = [l \in Listeners |-> 0]
    BY DEF PoolInit
  <1>3. /\ events \in Seq(EventSet) /\ Range(events) = {ServerStartEvent}
        /\ \A x : Once(events, x)
    BY <1>2 DEF EventSet, Range, Once
  <1>4. /\ \A t \in SocketEvents, s \in Sockets : ~Told(t, s)
        /\ \A w \in Workers : WorkerEvent(w) \notin Range(events)
    BY <1>3, EventsDiffer DEF Told
  <1>5. Typed
    <2>1. queue \in Seq(Sockets \cup {Null})
      BY <1>1
    <2> QED
      BY <1>1, <1>2, <1>3, <2>1 DEF Typed, PoolTypeOK
  <1>6. Control
    <2>1. Null \notin Range(queue)
      BY <1>1, PoolAssumption
    <2>2. \A w \in Workers : ~Holding(w) /\ pc[w] = "none"
      BY <1>2 DEF Holding
    <2> QED
      BY <1>2, <1>3, <1>4, <2>1, <2>2
      DEF Control, Phases, NotStarted, NullInTheEnd, Registered, Queued
  <1>7. SocketPlaces
    <2>1. \A s \in Sockets : (Queued(s) <=> s \in alive) /\ ~Held(s)
      BY <1>1, <1>2 DEF Queued, Held, Holding
    <2> QED
      BY <1>1, <1>2, <1>3, <1>4, <2>1
      DEF SocketPlaces, QueuedOnce, ToldOnce, HeldOnce, OnePlace, AliveIsSomewhere, SocketEvents, Holding
  <1>8. Kinds
    BY <1>2, <1>4 DEF Kinds, SocketEvents
  <1>9. Accepting
    <2>1. at \in [Listeners -> Sockets] /\ alive = {at[l] : l \in Listeners}
      BY <1>1 DEF Injection, Range
    <2>2. \A l \in Listeners : Acceptors(l) = {at[l]}
      BY <1>1, <1>2, <2>1 DEF Acceptors
    <2>3. \A l \in Listeners, w \in Workers : ~Accepts(l, w)
      BY <1>2 DEF Accepts
    <2> QED
      BY <2>2, <2>3 DEF Accepting, Served, ServedOnce
  <1> QED
    BY <1>5, <1>6, <1>7, <1>8, <1>9 DEF PoolInv

\* ... after every step of the pool ...
LEMMA PoolGoesOn ==
  ASSUME PoolInv, PoolNext
  PROVE  PoolInv'
  BY PoolTyped, PoolControl, PoolPlaces, PoolKinds, PoolAccepting DEF PoolInv

\* ... and when nothing happens.
LEMMA PoolStutters ==
  ASSUME PoolInv, UNCHANGED poolVars
  PROVE  PoolInv'
  <1>1. Typed' /\ Control'
    BY DEF PoolInv, poolVars, Typed, PoolTypeOK, Control, Phases, NotStarted, NullInTheEnd, Registered,
           Queued, Told, Holding
  <1>2. SocketPlaces'
    BY DEF PoolInv, poolVars, SocketPlaces, QueuedOnce, ToldOnce, HeldOnce, OnePlace,
           AliveIsSomewhere, Queued, Told, Held, Holding
  <1>3. Kinds' /\ Accepting'
    BY DEF PoolInv, poolVars, Kinds, Accepting, Served, ServedOnce, Accepts, Acceptors, Serving, Queued, Told
  <1> QED
    BY <1>1, <1>2, <1>3 DEF PoolInv

-----------------------------------------------------------------------------
(* What follows from the invariant.                                        *)

\* An event with the type and socket of a socket event is that event.
LEMMA EventsAbout ==
  ASSUME Typed, NEW i \in DOMAIN events
  PROVE  /\ events[i] \in EventSet
         /\ \A t \in SocketEvents : \A s :
              events[i].type = t /\ events[i].socket = s => events[i] = SocketEvent(t, s)
         /\ \A t \in SocketEvents : events[i].type = t => events[i].socket \in Sockets
  <1>1. events[i] \in EventSet
    BY DEF Typed
  <1>2. \A t \in SocketEvents : events[i].type = t =>
          \E r \in Sockets : events[i] = SocketEvent(t, r) /\ events[i].socket = r
    BY <1>1 DEF EventSet, SocketEvents, WorkerEvent, SocketEvent, ServerStartEvent, NoWaitingThreadsEvent
  <1> QED
    BY <1>1, <1>2

\* The sockets that events carry are those somebody was told of.
LEMMA CarriedIsTold ==
  ASSUME Typed, NEW types \in SUBSET SocketEvents
  PROVE  EventSockets(types) = {s \in Sockets : \E t \in types : Told(t, s)}
  <1>1. ASSUME NEW s \in EventSockets(types)
        PROVE  s \in Sockets /\ \E t \in types : Told(t, s)
    <2>1. PICK i \in DOMAIN events : events[i].type \in types /\ events[i].socket = s
      BY <1>1 DEF EventSockets
    <2>2. s \in Sockets /\ events[i] = SocketEvent(events[i].type, s)
      BY <2>1, EventsAbout
    <2> QED
      BY <2>1, <2>2 DEF Told, Range
  <1>2. ASSUME NEW s \in Sockets, NEW t \in types, Told(t, s)
        PROVE  s \in EventSockets(types)
    <2>1. PICK i \in DOMAIN events : events[i] = SocketEvent(t, s)
      BY <1>2 DEF Told, Range
    <2>2. events[i].type = t /\ events[i].socket = s
      BY <2>1 DEF SocketEvent
    <2> QED
      BY <2>1, <2>2 DEF EventSockets
  <1> QED
    BY <1>1, <1>2

\* Nothing refers to a socket that is deleted (NoDanglingSocket).
LEMMA PoolNoDangling ==
  ASSUME PoolInv
  PROVE  NoDanglingSocket
  <1>0. Typed /\ OnePlace /\ AliveIsSomewhere /\ NullInTheEnd
    BY DEF PoolInv, SocketPlaces, Control
  <1>1. Range(queue) \subseteq alive \cup {Null}
    <2>1. Range(queue) \subseteq Sockets \cup {Null}
      BY <1>0 DEF Typed, PoolTypeOK, Range
    <2> QED
      BY <1>0, <2>1 DEF AliveIsSomewhere, Queued
  <1>2. idle \subseteq alive
    BY <1>0 DEF Typed, PoolTypeOK, AliveIsSomewhere
  <1>3. \A w \in Workers : Holding(w) => sock[w] \in alive \cup {Null}
    BY <1>0 DEF Typed, PoolTypeOK, AliveIsSomewhere, Held
  <1>4. EventSockets(CarryingEvents \cup {"KeepAliveTimeout"}) \subseteq alive
    <2>1. CarryingEvents \cup {"KeepAliveTimeout"} \in SUBSET SocketEvents
      BY DEF CarryingEvents, SocketEvents
    <2> QED
      BY <1>0, <2>1, CarriedIsTold DEF AliveIsSomewhere, OnePlace, CarryingEvents
  <1> QED
    BY <1>1, <1>2, <1>3, <1>4 DEF NoDanglingSocket, Referenced

\* Every socket has one owner (OwnedOnce).
LEMMA PoolOwnedOnce ==
  ASSUME PoolInv
  PROVE  OwnedOnce
  <1>0. Typed /\ QueuedOnce /\ ToldOnce /\ HeldOnce /\ OnePlace /\ AliveIsSomewhere
    BY DEF PoolInv, SocketPlaces
  <1> SUFFICES ASSUME NEW s \in alive
               PROVE  Cardinality(Owners(s)) = 1
    BY DEF OwnedOnce
  <1> DEFINE Q == {<<"queue", i>> : i \in {j \in DOMAIN queue : queue[j] = s}}
             E == {<<"event", i>> : i \in {j \in DOMAIN events :
                      events[j].type \in CarryingEvents /\ events[j].socket = s}}
             W == {<<"worker", w>> : w \in {v \in Workers : Holding(v) /\ sock[v] = s}}
             D == {<<"idle", s>> : x \in idle \cap {s}}
  <1>1. s \in Sockets /\ s # Null
    BY <1>0, PoolAssumption DEF Typed, PoolTypeOK
  <1>2. Owners(s) = Q \cup E \cup W \cup D
    BY DEF Owners
  <1>3. \A j \in DOMAIN events :
          events[j].type \in CarryingEvents /\ events[j].socket = s <=>
            \E t \in CarryingEvents : events[j] = SocketEvent(t, s)
    <2> SUFFICES ASSUME NEW j \in DOMAIN events
                 PROVE  events[j].type \in CarryingEvents /\ events[j].socket = s <=>
                          \E t \in CarryingEvents : events[j] = SocketEvent(t, s)
      OBVIOUS
    <2>1. \A t : SocketEvent(t, s).type = t /\ SocketEvent(t, s).socket = s
      BY DEF SocketEvent
    <2> QED
      BY <1>0, <2>1, EventsAbout DEF CarryingEvents, SocketEvents
  <1>4. /\ Q = {} <=> ~Queued(s)
        /\ W = {} <=> ~Held(s)
        /\ D = {} <=> s \notin idle
    BY DEF Queued, Held, Range
  <1>5. E = {} <=> ~Told("IdleSocket", s) /\ ~Told("ActiveSocket", s)
    <2> DEFINE J == {j \in DOMAIN events : events[j].type \in CarryingEvents /\ events[j].socket = s}
    <2>1. E = {} <=> J = {}
      BY ZenonT(60)
    <2>2. J = {} <=> \A j \in DOMAIN events : \A t \in CarryingEvents : events[j] # SocketEvent(t, s)
      BY <1>3
    <2> HIDE DEF J, E
    <2> QED
      BY <2>1, <2>2 DEF Told, Range, CarryingEvents
  <1>6. Q # {} => \E x : Q = {x}
    BY <1>0, <1>1 DEF QueuedOnce, Once
  <1>7. W # {} => \E x : W = {x}
    <2> SUFFICES ASSUME NEW w \in Workers, Holding(w), sock[w] = s
                 PROVE  W = {<<"worker", w>>}
      OBVIOUS
    <2>1. \A v \in Workers : Holding(v) /\ sock[v] = s <=> v = w
      BY <1>0, <1>1 DEF HeldOnce
    <2> QED
      BY <2>1
  <1>8. D # {} => \E x : D = {x}
    OBVIOUS
  <1>9. E # {} => \E x : E = {x}
    <2>1. \A i, j \in DOMAIN events :
            /\ events[i].type \in CarryingEvents /\ events[i].socket = s
            /\ events[j].type \in CarryingEvents /\ events[j].socket = s
            => i = j
      <3> SUFFICES ASSUME NEW i \in DOMAIN events, NEW j \in DOMAIN events,
                          NEW t \in CarryingEvents, events[i] = SocketEvent(t, s),
                          NEW u \in CarryingEvents, events[j] = SocketEvent(u, s)
                   PROVE  i = j
        BY <1>3
      <3>1. Told(t, s) /\ Told(u, s)
        BY DEF Told, Range
      <3>2. t = u
        BY <1>0, <1>1, <3>1 DEF OnePlace, CarryingEvents
      <3> QED
        BY <1>0, <1>1, <3>2 DEF ToldOnce, Once, CarryingEvents, SocketEvents
    <2> QED
      BY <2>1
  <1>10. Queued(s) \/ Held(s) \/ Told("IdleSocket", s) \/ Told("ActiveSocket", s) \/ s \in idle
    BY <1>0, <1>1 DEF AliveIsSomewhere
  <1>11. /\ Queued(s) => ~Held(s) /\ ~Told("IdleSocket", s) /\ ~Told("ActiveSocket", s) /\ s \notin idle
         /\ Held(s) => ~Told("IdleSocket", s) /\ ~Told("ActiveSocket", s) /\ s \notin idle
         /\ Told("IdleSocket", s) \/ Told("ActiveSocket", s) => s \notin idle
    BY <1>0, <1>1 DEF OnePlace
  <1> HIDE DEF Q, E, W, D
  <1>12. \E x : Owners(s) = {x}
    BY <1>2, <1>4, <1>5, <1>6, <1>7, <1>8, <1>9, <1>10, <1>11
  <1> QED
    BY <1>12, FS_Singleton

\* Without SSL a listener has one socket that accepts (OneAcceptor).
LEMMA PoolOneAcceptor ==
  ASSUME PoolInv, ~Ssl
  PROVE  OneAcceptor
  <1> SUFFICES ASSUME Serving, NEW l \in Listeners
               PROVE  Cardinality(Acceptors(l))
                        + Cardinality({w \in Workers : pc[w] = "accepted" /\ home[sock[w]] = l}) = 1
    BY DEF OneAcceptor, Serving
  <1> DEFINE A == {w \in Workers : pc[w] = "accepted" /\ home[sock[w]] = l}
  <1>1. /\ Acceptors(l) # {} \/ A # {}
        /\ \A s, t \in Acceptors(l) : s = t
        /\ \A v, w \in A : v = w
        /\ Acceptors(l) = {} \/ A = {}
    BY DEF PoolInv, Accepting, Served, ServedOnce, Accepts
  <1> HIDE DEF A
  <1>2. \/ A = {} /\ \E x : Acceptors(l) = {x}
        \/ Acceptors(l) = {} /\ \E x : A = {x}
    BY <1>1
  <1>3. Cardinality(Acceptors(l)) + Cardinality(A) = 1
    <2>1. CASE A = {} /\ \E x : Acceptors(l) = {x}
      <3>1. Cardinality(A) = 0 /\ Cardinality(Acceptors(l)) = 1
        BY <2>1, FS_Singleton, FS_EmptySet
      <3> QED
        BY <3>1
    <2>2. CASE Acceptors(l) = {} /\ \E x : A = {x}
      <3>1. Cardinality(A) = 1 /\ Cardinality(Acceptors(l)) = 0
        BY <2>2, FS_Singleton, FS_EmptySet
      <3> QED
        BY <3>1
    <2> QED
      BY <1>2, <2>1, <2>2
  <1> QED
    BY <1>3 DEF A

\* A listener has a socket that accepts (ListenerServed).
LEMMA PoolListenerServed ==
  ASSUME PoolInv
  PROVE  ListenerServed
  BY DEF PoolInv, Accepting, Served, Serving, ListenerServed, Accepts

\* Workers are registered until they end and then joined once (ThreadsAccounted).
LEMMA PoolThreadsAccounted ==
  ASSUME PoolInv
  PROVE  ThreadsAccounted
  <1>1. Registered
    BY DEF PoolInv, Control
  <1>2. \A w : WorkerEvent(w) \in Range(events) <=> \E i \in DOMAIN events : events[i] = WorkerEvent(w)
    BY DEF Range
  <1> QED
    BY <1>1, <1>2 DEF Registered, ThreadsAccounted

\* When terminate() has returned nothing is left (StoppedClean).
LEMMA PoolStoppedClean ==
  ASSUME PoolInv
  PROVE  StoppedClean
  <1> SUFFICES ASSUME loop = "done"
               PROVE  /\ alive = EventSockets(CarryingEvents)
                      /\ \A w \in Workers : pc[w] = "none" \/ WorkerEvent(w) \in Range(events)
    BY DEF StoppedClean
  <1>0. Typed /\ AliveIsSomewhere /\ Phases /\ Registered
    BY DEF PoolInv, SocketPlaces, Control
  <1>1. threads = {} /\ terminated = {} /\ queue = <<>> /\ idle = {} /\ Range(queue) = {}
    BY <1>0 DEF Phases, Range
  <1>2. \A w \in Workers : pc[w] \in {"none", "done"}
    BY <1>0, <1>1 DEF Registered
  <1>3. \A s \in Sockets : ~Queued(s) /\ ~Held(s) /\ s \notin idle
    BY <1>1, <1>2 DEF Queued, Held, Holding
  <1>4. EventSockets(CarryingEvents) = {s \in Sockets : \E t \in CarryingEvents : Told(t, s)}
    BY <1>0, CarriedIsTold DEF CarryingEvents, SocketEvents
  <1>5. alive = {s \in Sockets : \E t \in CarryingEvents : Told(t, s)}
    BY <1>0, <1>3 DEF Typed, PoolTypeOK, AliveIsSomewhere, CarryingEvents
  <1> QED
    BY <1>0, <1>1, <1>2, <1>4, <1>5 DEF Registered

\* The number of threads, which is bounded with the rest of the invariant.
LEMMA LimitBegins ==
  ASSUME PoolInit
  PROVE  ThreadLimit
  BY FS_EmptySet, PoolAssumption DEF PoolInit, ThreadLimit

\* Fewer threads do not exceed the limit,
LEMMA FewerThreads ==
  ASSUME Typed, ThreadLimit, NEW T \in SUBSET threads
  PROVE  Cardinality(T) <= IF MaxThreads > MinThreads THEN MaxThreads ELSE MinThreads
  <1>1. IsFiniteSet(threads)
    BY ResourceAssumption, FS_Subset DEF Typed, PoolTypeOK
  <1>2. Cardinality(T) <= Cardinality(threads) /\ Cardinality(T) \in Nat /\ Cardinality(threads) \in Nat
    BY <1>1, FS_Subset, FS_CardinalityType
  <1> QED
    BY <1>2, PoolAssumption DEF ThreadLimit

\* and onNoWaitingThreads() does not create one too many (ThreadLimit).
LEMMA LimitGoesOn ==
  ASSUME PoolInv, ThreadLimit, PoolNext
  PROVE  ThreadLimit'
  <1>0. Typed /\ NotStarted
    BY DEF PoolInv, Control
  <1>1. CASE threads' \subseteq threads
    BY <1>0, <1>1, FewerThreads DEF ThreadLimit
  <1>2. CASE OnServerStart
    <2>1. Handles("ServerStart")
      BY <1>2 DEF OnServerStart
    <2>2. threads = {}
      BY <1>0, <2>1, HeadEvent, EventGet, TailEffect DEF NotStarted, Typed
    <2>3. Cardinality(threads') = MinThreads
      BY <1>2, <2>2, FirstThreads DEF OnServerStart
    <2> QED
      BY <2>3, PoolAssumption DEF ThreadLimit
  <1>3. ASSUME NEW w \in Workers, threads' = threads \cup {w}, Cardinality(threads) < MaxThreads
        PROVE  ThreadLimit'
    <2>1. IsFiniteSet(threads)
      BY <1>0, ResourceAssumption, FS_Subset DEF Typed, PoolTypeOK
    <2>2. Cardinality(threads) \in Nat /\ Cardinality(threads') \in {Cardinality(threads), Cardinality(threads) + 1}
      BY <1>3, <2>1, FS_AddElement, FS_CardinalityType
    <2> QED
      BY <1>3, <2>2, PoolAssumption DEF ThreadLimit
  <1>4. \/ threads' \subseteq threads
        \/ OnServerStart
        \/ \E w \in Workers : threads' = threads \cup {w} /\ Cardinality(threads) < MaxThreads
    <2>1. ASSUME NEW w \in Workers, NEW locks \in BOOLEAN, WorkerStep(w, locks)
          PROVE  threads' \subseteq threads
      BY <2>1 DEF WorkerStep, WorkerLoop, WorkerCount, WorkerWaits, WorkerGets, WorkerGot, NoWaitingThreads,
           WorkerServe, AcceptTerminated, AcceptConnection, AcceptFails, WorkerAccepted, PostAccept,
           WorkerReads, WorkerFails, WorkerClosed, CommitNoWaitingThreads, CommitIdleSocket,
           ThreadTerminated, pool
    <2>2. ASSUME NEW w \in Workers, WorkerWrites(w) \/ AddIdleSocket(w)
          PROVE  threads' \subseteq threads
      BY <2>2 DEF WorkerWrites, AddIdleSocket, pool
    <2>3. ASSUME LoopStep, ~OnServerStart, ~OnNoWaitingThreads
          PROVE  threads' \subseteq threads
      BY <2>3 DEF LoopStep, Running, OnThreadTerminated, OnIdleSocket, Drained, Terminating, WakeThreads,
           JoinThreads, Stopped, pool
    <2>4. ASSUME OnNoWaitingThreads
          PROVE  \/ threads' \subseteq threads
                 \/ \E w \in Workers : threads' = threads \cup {w} /\ Cardinality(threads) < MaxThreads
      BY <2>4 DEF OnNoWaitingThreads, Allocate
    <2>5. ASSUME ClientStep \/ Exit
          PROVE  threads' \subseteq threads
      BY <2>5 DEF ClientStep, ClientConnects, ClientSends, Exit, pool
    <2> QED
      BY <2>1, <2>2, <2>3, <2>4, <2>5 DEF PoolNext
  <1> QED
    BY <1>1, <1>2, <1>3, <1>4

-----------------------------------------------------------------------------
(* What the event loop does with idle connections: lemmas for the servers. *)

\* A socket that is idle, and what is known of it.
LEMMA IdleSocket ==
  ASSUME PoolInv, NEW s \in Sockets, s \in idle
  PROVE  /\ s \in alive /\ s \in accepted /\ ~Queued(s) /\ ~Held(s)
         /\ ~Told("IdleSocket", s) /\ ~Told("ActiveSocket", s)
         /\ ServerStartEvent \notin Range(events)
  BY DEF PoolInv, Control, NotStarted, SocketPlaces, OnePlace, AliveIsSomewhere, Kinds

\* Bookkeeping is not disturbed by events about sockets.
LEMMA ControlToldMore ==
  ASSUME PoolInv, loop = "run", ServerStartEvent \notin Range(events),
         NEW t \in SocketEvents, NEW s \in Sockets, events' = Append(events, SocketEvent(t, s)),
         UNCHANGED <<runmode, loop, threads, terminated, queue, pc, sock>>
  PROVE  Control'
  <1>1. SocketEvent(t, s) \in EventSet
    BY DEF EventSet
  <1>2. /\ Range(events') = Range(events) \cup {SocketEvent(t, s)}
        /\ ServerStartEvent \notin Range(events')
        /\ \A w \in Workers : WorkerEvent(w) \in Range(events') <=> WorkerEvent(w) \in Range(events)
        /\ \A w \in Workers : Once(events, WorkerEvent(w)) => Once(events', WorkerEvent(w))
    BY <1>1, EventPut, EventsDiffer DEF PoolInv
  <1>3. Registered'
    BY <1>2 DEF PoolInv, Control, Registered
  <1>4. Phases' /\ NotStarted'
    BY <1>2 DEF PoolInv, Control, Phases, NotStarted
  <1>5. NullInTheEnd'
    BY DEF PoolInv, Control, NullInTheEnd, Queued, Holding
  <1> QED
    BY <1>3, <1>4, <1>5 DEF Control

\* The same if an event about a socket is taken.
LEMMA ControlToldLess ==
  ASSUME PoolInv, NEW t \in SocketEvents, Handles(t), events' = Tail(events),
         UNCHANGED <<runmode, loop, threads, terminated, pc, sock>>,
         Queued(Null)' => Queued(Null)
  PROVE  Control'
  <1>1. PICK s \in Sockets : Head(events) = SocketEvent(t, s)
    BY HeadEvent DEF PoolInv, SocketEvents
  <1>2. /\ events # <<>> /\ loop \in {"run", "drain"}
        /\ Range(events) = Range(events') \cup {SocketEvent(t, s)}
        /\ \A x : Once(events, x) => Once(events', x)
    BY <1>1, HeadEvent, EventGet DEF PoolInv
  <1>3. /\ ServerStartEvent \notin Range(events)
        /\ \A v \in Workers : WorkerEvent(v) \in Range(events') <=> WorkerEvent(v) \in Range(events)
    BY <1>1, <1>2, EventsDiffer DEF PoolInv, Control, NotStarted, SocketEvents
  <1>4. Registered'
    BY <1>2, <1>3 DEF PoolInv, Control, Registered
  <1>5. Phases' /\ NotStarted'
    BY <1>2, <1>3 DEF PoolInv, Control, Phases, NotStarted
  <1>6. NullInTheEnd'
    BY DEF PoolInv, Control, NullInTheEnd, Holding
  <1> QED
    BY <1>4, <1>5, <1>6 DEF Control

\* An accept socket is neither connected nor accepted, an idle one is.
LEMMA AcceptingIsNotConcerned ==
  ASSUME PoolInv, UNCHANGED <<runmode, loop, accepted, alive, home, pc, sock>>,
         NEW s \in accepted, connected' \in {connected, connected \ {s}}
  PROVE  Accepting'
  <1>1. \A x : x \in alive' \ (accepted' \cup connected') <=> x \in alive \ (accepted \cup connected)
    OBVIOUS
  <1> QED
    BY <1>1, AcceptorsStay, AcceptsStay, AcceptingStays DEF PoolInv, Serving

\* Socket::onOutput() of an idle connection.
LEMMA IdleWrites ==
  ASSUME PoolInv, NEW s \in Sockets, s \in idle, UNCHANGED <<pool, events, queue, idle, pc, sock, net>>,
         \/ writing' = writing \ {s} /\ UNCHANGED <<alive, accepted, connected, input, home>>
         \/ Close(s)
  PROVE  PoolInv'
  <1>1. /\ writing' = writing \ {s} /\ input' \in {input, input \ {s}}
        /\ connected' \in {connected, connected \ {s}}
        /\ UNCHANGED <<alive, accepted, home, runmode, loop, threads, terminated, wake, backlog>>
    BY DEF Close, pool, net
  <1>2. s \in accepted /\ ~Queued(s) /\ ~Held(s)
    BY IdleSocket
  <1>3. Typed'
    BY <1>1 DEF PoolInv, Typed, PoolTypeOK
  <1>4. Control'
    BY <1>1 DEF PoolInv, Control, Phases, NotStarted, NullInTheEnd, Registered, Queued, Told, Holding
  <1>5. SocketPlaces'
    BY <1>1 DEF PoolInv, SocketPlaces, QueuedOnce, ToldOnce, HeldOnce, OnePlace, AliveIsSomewhere,
           Queued, Told, Held, Holding
  <1>6. Kinds'
    BY <1>1, <1>2 DEF PoolInv, Kinds, Serving, Queued, Told, Held, Holding
  <1>7. Accepting'
    BY <1>1, <1>2, AcceptingIsNotConcerned
  <1> QED
    BY <1>3, <1>4, <1>5, <1>6, <1>7 DEF PoolInv
=============================================================================
