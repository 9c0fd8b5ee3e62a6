-------------------------------- MODULE Queue --------------------------------
(***************************************************************************)
(* cxxtools::Queue<T>, the thread safe queue of include/cxxtools/queue.h   *)
(* that hands sockets to the worker threads of the HTTP and RPC servers.   *)
(*                                                                         *)
(* Every method runs inside a critical section of _mutex, so one action    *)
(* stands for the code between taking the mutex and giving it up, be it by *)
(* returning or by waiting on a condition variable.  A thread that waits   *)
(* is "asleep"; notify_one makes some sleeper "woken", and a woken thread  *)
(* goes on once it has the mutex again: other threads may get it first.    *)
(* A sleeper may also wake spuriously (std::condition_variable).           *)
(*                                                                         *)
(* The one access outside the mutex is maxSize(m), which stores _maxSize   *)
(* before it locks.  That is a data race: a critical section that overlaps *)
(* the store reads the old or the new limit (MaxSizeReads).                *)
(***************************************************************************)
EXTENDS Naturals, Sequences, FiniteSets

CONSTANTS
  Threads,   \* the threads that share the queue
  Elements,  \* the values of value_type that are put
  Calls,     \* the blocking or state changing methods the threads use
  Limits,    \* the arguments of maxSize(m); 0 means "no limit"
  InitLimit, \* the limit in force when the threads start to share the queue
  MaxLen,    \* bound of the model: no element is put beyond this length
  Nothing,   \* no element: the value_type() of a (value_type(), false) pair
  Garbage    \* what front() of an empty deque yields

AllCalls == {"get", "getTimed", "tryGet", "put", "putForced", "remove",
             "waitEmpty", "waitEmptyTimed", "maxSize"}

ASSUME QueueAssumption ==
  /\ Calls \subseteq AllCalls
  /\ Limits \subseteq Nat
  /\ InitLimit \in Nat
  /\ MaxLen \in Nat
  /\ Nothing \notin Elements
  /\ Garbage \notin Elements
  /\ Garbage # Nothing

VARIABLES
  queue,      \* _queue
  maxSize,    \* _maxSize
  numWaiting, \* _numWaiting
  call,       \* call[t]: the method t is inside of, "none" between calls
  wait,       \* wait[t]: "run", "asleep" on a condition variable or "woken"
  arg,        \* arg[t]: the element of a put that has not stored it yet
  stale,      \* stale[t]: the limit that t's maxSize(m) has overwritten
  result,     \* result[t]: what t's last get, tryGet or remove returned
  corrupt     \* TRUE once front/pop_front were applied to an empty deque

vars == <<queue, maxSize, numWaiting, call, wait, arg, stale, result, corrupt>>

-----------------------------------------------------------------------------
(* Condition variables.  _notEmpty is waited for by both gets and by       *)
(* waitEmpty, _notFull by put.                                             *)

NotEmptyCalls == {"get", "getTimed", "waitEmpty", "waitEmptyTimed"}

NotFullCalls == {"put"}

In(methods) == {t \in Threads : call[t] \in methods}

Asleep(methods) == {t \in In(methods) : wait[t] = "asleep"}

Woken(methods) == {t \in In(methods) : wait[t] = "woken"}

\* The sets of threads that notify_one may wake: one sleeper if there is any.
NotifyOne(methods) ==
  IF Asleep(methods) = {} THEN {{}} ELSE {{t} : t \in Asleep(methods)}

\* t goes on to w while the threads in woken receive their notification.
SetWait(t, w, woken) ==
  wait' = [u \in Threads |->
             IF u \in woken THEN "woken" ELSE IF u = t THEN w ELSE wait[u]]

\* t leaves its method; ne and nf say which variables it notifies.
Leave(t, ne, nf) ==
  /\ call' = [call EXCEPT ![t] = "none"]
  /\ \E e \in IF ne THEN NotifyOne(NotEmptyCalls) ELSE {{}},
        f \in IF nf THEN NotifyOne(NotFullCalls) ELSE {{}} :
        SetWait(t, "run", e \cup f)

\* t releases the mutex and sleeps inside method m.
Sleep(t, m) ==
  /\ call' = [call EXCEPT ![t] = m]
  /\ SetWait(t, "asleep", {})

Idle(t, m) == call[t] = "none" /\ m \in Calls /\ ~corrupt

Resumes(t, m) == call[t] = m /\ wait[t] = "woken" /\ ~corrupt

-----------------------------------------------------------------------------
(* Fetching elements.                                                      *)

\* Mutant: the element is taken without telling a blocked put.
FetchWithoutNotFull(t) ==
  /\ queue # <<>>
  /\ queue' = Tail(queue)
  /\ result' = [result EXCEPT ![t] = Head(queue)]
  /\ Leave(t, Tail(queue) # <<>>, FALSE)
  /\ UNCHANGED <<maxSize, arg, stale, corrupt>>

\* The common tail of get, get(timeout) and tryGet: front, pop_front, then
\* pass the wake-up on if elements are left and tell one blocked put.
Fetch(t) ==
  /\ queue # <<>>
  /\ queue' = Tail(queue)
  /\ result' = [result EXCEPT ![t] = Head(queue)]
  /\ Leave(t, Tail(queue) # <<>>, TRUE)
  /\ UNCHANGED <<maxSize, arg, stale, corrupt>>

\* get() and get(timeout) of a non-empty queue: _numWaiting goes up and down
\* within one critical section.
GetAtOnce(t) ==
  /\ \E m \in {"get", "getTimed"} : Idle(t, m)
  /\ Fetch(t)
  /\ UNCHANGED numWaiting

\* get() and get(timeout) of an empty queue: the thread counts as waiting.
GetWait(t, m) ==
  /\ m \in {"get", "getTimed"}
  /\ Idle(t, m)
  /\ queue = <<>>
  /\ numWaiting' = numWaiting + 1
  /\ Sleep(t, m)
  /\ UNCHANGED <<queue, maxSize, arg, stale, result, corrupt>>

\* A woken get() tests the queue again.
GetResume(t) ==
  /\ Resumes(t, "get")
  /\ \/ /\ Fetch(t)
        /\ numWaiting' = numWaiting - 1
     \/ /\ queue = <<>>
        /\ Sleep(t, "get")
        /\ UNCHANGED <<queue, maxSize, numWaiting, arg, stale, result, corrupt>>

\* get(timeout) tests the queue before it waits and never again: when
\* wait_for does not report a timeout it takes front() whatever the queue
\* holds.  On an empty deque that is undefined behaviour.
GetTimedResume(t) ==
  /\ Resumes(t, "getTimed")
  /\ numWaiting' = numWaiting - 1
  /\ \/ Fetch(t)
     \/ /\ queue = <<>>
        /\ corrupt' = TRUE
        /\ result' = [result EXCEPT ![t] = Garbage]
        /\ Leave(t, FALSE, TRUE)
        /\ UNCHANGED <<queue, maxSize, arg, stale>>

\* Mutant: a get that timed out stays counted.
GetTimedExpireStaysCounted(t) ==
  /\ call[t] = "getTimed" /\ ~corrupt
  /\ result' = [result EXCEPT ![t] = Nothing]
  /\ Leave(t, FALSE, FALSE)
  /\ UNCHANGED <<queue, maxSize, numWaiting, arg, stale, corrupt>>

\* wait_for reports a timeout when the deadline has passed once the mutex is
\* held again, whether or not the thread was notified in the meantime.
GetTimedExpire(t) ==
  /\ call[t] = "getTimed" /\ ~corrupt
  /\ numWaiting' = numWaiting - 1
  /\ result' = [result EXCEPT ![t] = Nothing]
  /\ Leave(t, FALSE, FALSE)
  /\ UNCHANGED <<queue, maxSize, arg, stale, corrupt>>

TryGet(t) ==
  /\ Idle(t, "tryGet")
  /\ UNCHANGED numWaiting
  /\ \/ Fetch(t)
     \/ /\ queue = <<>>
        /\ result' = [result EXCEPT ![t] = Nothing]
        /\ UNCHANGED <<queue, maxSize, call, wait, arg, stale, corrupt>>

-----------------------------------------------------------------------------
(* Putting elements.                                                       *)

\* What a read of _maxSize by t may return: the stored limit, or the one a
\* maxSize(m) that has not reached its critical section yet overwrote.
MaxSizeReads(t) ==
  {maxSize} \cup {stale[u] : u \in In({"maxSize"}) \ {t}}

\* _maxSize > 0 && n >= _maxSize: put finds the queue full.
Full(t, n) == \E m1, m2 \in MaxSizeReads(t) : m1 > 0 /\ n >= m2

\* The negation of that condition.
Room(t, n) == \E m1, m2 \in MaxSizeReads(t) : m1 = 0 \/ n < m2

\* Mutant: push_back without waking a get.
StoreSilently(t, e) ==
  /\ Len(queue) < MaxLen
  /\ queue' = Append(queue, e)
  /\ arg' = [arg EXCEPT ![t] = Nothing]
  /\ \E m1, m2 \in MaxSizeReads(t) :
        Leave(t, FALSE, m1 > 0 /\ Len(queue) + 1 < m2)
  /\ UNCHANGED <<maxSize, numWaiting, stale, result, corrupt>>

\* push_back, notify one get, and one more put if there is still room below
\* a limit.
Store(t, e) ==
  /\ Len(queue) < MaxLen
  /\ queue' = Append(queue, e)
  /\ arg' = [arg EXCEPT ![t] = Nothing]
  /\ \E m1, m2 \in MaxSizeReads(t) :
        Leave(t, TRUE, m1 > 0 /\ Len(queue) + 1 < m2)
  /\ UNCHANGED <<maxSize, numWaiting, stale, result, corrupt>>

\* put(e) with room in the queue, or put(e, force = true).
PutAtOnce(t, e) ==
  /\ \/ Idle(t, "put") /\ Room(t, Len(queue))
     \/ Idle(t, "putForced")
  /\ Store(t, e)

\* put(e) of a full queue.
PutWait(t, e) ==
  /\ Idle(t, "put")
  /\ Full(t, Len(queue))
  /\ arg' = [arg EXCEPT ![t] = e]
  /\ Sleep(t, "put")
  /\ UNCHANGED <<queue, maxSize, numWaiting, stale, result, corrupt>>

\* A woken put tests the limit again.
PutResume(t) ==
  /\ Resumes(t, "put")
  /\ \/ /\ Room(t, Len(queue))
        /\ Store(t, arg[t])
     \/ /\ Full(t, Len(queue))
        /\ Sleep(t, "put")
        /\ UNCHANGED <<queue, maxSize, numWaiting, arg, stale, result, corrupt>>

\* remove(e) looks the element up and returns whether it is there.
RemoveCall(t, e) ==
  /\ Idle(t, "remove")
  /\ result' = [result EXCEPT
                  ![t] = IF \E i \in DOMAIN queue : queue[i] = e
                         THEN e ELSE Nothing]
  /\ UNCHANGED <<queue, maxSize, numWaiting, call, wait, arg, stale, corrupt>>

-----------------------------------------------------------------------------
(* waitEmpty and maxSize.                                                  *)

\* waitEmpty() of a queue with elements waits, of all things, on _notEmpty.
WaitEmptyWait(t, m) ==
  /\ m \in {"waitEmpty", "waitEmptyTimed"}
  /\ Idle(t, m)
  /\ queue # <<>>
  /\ Sleep(t, m)
  /\ UNCHANGED <<queue, maxSize, numWaiting, arg, stale, result, corrupt>>

WaitEmptyResume(t, m) ==
  /\ m \in {"waitEmpty", "waitEmptyTimed"}
  /\ Resumes(t, m)
  /\ IF queue = <<>> THEN Leave(t, FALSE, FALSE) ELSE Sleep(t, m)
  /\ UNCHANGED <<queue, maxSize, numWaiting, arg, stale, result, corrupt>>

WaitEmptyExpire(t) ==
  /\ call[t] = "waitEmptyTimed" /\ ~corrupt
  /\ Leave(t, FALSE, FALSE)
  /\ UNCHANGED <<queue, maxSize, numWaiting, arg, stale, result, corrupt>>

\* maxSize(m), first half: the store, without the mutex.
MaxSizeStore(t, m) ==
  /\ Idle(t, "maxSize")
  /\ maxSize' = m
  /\ stale' = [stale EXCEPT ![t] = maxSize]
  /\ call' = [call EXCEPT ![t] = "maxSize"]
  /\ UNCHANGED <<queue, numWaiting, wait, arg, result, corrupt>>

\* maxSize(m), second half: with the mutex, wake one put if there is room.
MaxSizeNotify(t) ==
  /\ call[t] = "maxSize" /\ ~corrupt
  /\ Leave(t, FALSE, Len(queue) < maxSize)
  /\ stale' = [stale EXCEPT ![t] = 0]
  /\ UNCHANGED <<queue, maxSize, numWaiting, arg, result, corrupt>>

\* A condition variable may wake a thread without a notification.
SpuriousWakeup(t) ==
  /\ wait[t] = "asleep" /\ ~corrupt
  /\ SetWait(t, "woken", {})
  /\ UNCHANGED <<queue, maxSize, numWaiting, call, arg, stale, result, corrupt>>

-----------------------------------------------------------------------------

\* The default constructor; the limit is set before the queue is shared.
Init ==
  /\ queue = <<>>
  /\ maxSize = InitLimit
  /\ numWaiting = 0
  /\ call = [t \in Threads |-> "none"]
  /\ wait = [t \in Threads |-> "run"]
  /\ arg = [t \in Threads |-> Nothing]
  /\ stale = [t \in Threads |-> 0]
  /\ result = [t \in Threads |-> Nothing]
  /\ corrupt = FALSE

\* A thread that is inside a method goes on with it.
Resume(t) ==
  \/ GetResume(t)
  \/ GetTimedResume(t)
  \/ PutResume(t)
  \/ \E m \in AllCalls : WaitEmptyResume(t, m)
  \/ MaxSizeNotify(t)

\* A thread enters a method.
Enter(t) ==
  \/ GetAtOnce(t)
  \/ \E m \in AllCalls : GetWait(t, m) \/ WaitEmptyWait(t, m)
  \/ TryGet(t)
  \/ \E e \in Elements : PutAtOnce(t, e) \/ PutWait(t, e) \/ RemoveCall(t, e)
  \/ \E m \in Limits : MaxSizeStore(t, m)

Expire(t) == GetTimedExpire(t) \/ WaitEmptyExpire(t)

Next ==
  \E t \in Threads : Enter(t) \/ Resume(t) \/ Expire(t) \/ SpuriousWakeup(t)

\* The scheduler runs every runnable thread, so a woken thread goes on.
\* Whether threads call the queue, and when timeouts and spurious wake-ups
\* happen, is not assumed.
Fairness == \A t \in Threads : WF_vars(Resume(t))

Spec == Init /\ [][Next]_vars /\ Fairness

\* The queue when only the methods of a channel are called.
ChannelNext ==
  \E t \in Threads :
    \/ GetAtOnce(t) \/ GetWait(t, "get") \/ GetResume(t) \/ TryGet(t)
    \/ \E e \in Elements : PutAtOnce(t, e) \/ PutWait(t, e)
    \/ PutResume(t)
    \/ \E m \in Limits : MaxSizeStore(t, m)
    \/ MaxSizeNotify(t) \/ SpuriousWakeup(t)

ChannelSpec == Init /\ [][ChannelNext]_vars /\ Fairness

-----------------------------------------------------------------------------
(* Properties.                                                             *)

\* The type invariant.  An element is parked in arg only by a put that sleeps
\* or is about to resume.
TypeOK ==
  /\ queue \in Seq(Elements)
  /\ maxSize \in Nat
  /\ numWaiting \in Nat
  /\ call \in [Threads -> AllCalls \cup {"none"}]
  /\ wait \in [Threads -> {"run", "asleep", "woken"}]
  /\ arg \in [Threads -> Elements \cup {Nothing}]
  /\ stale \in [Threads -> Nat]
  /\ result \in [Threads -> Elements \cup {Nothing, Garbage}]
  /\ corrupt \in BOOLEAN

\* No lost wake-up of get(): while elements are queued and a thread sleeps in
\* get(), some thread in get() has been woken and will take an element, and
\* will pass the wake-up on if more are left (queue.h:191, 259).  Holds as
\* long as nobody calls get(timeout) or waitEmpty, which share _notEmpty.
NoLostGet ==
  queue # <<>> /\ Asleep({"get"}) # {} => Woken({"get"}) # {}

\* No lost wake-up of put(): while a put sleeps and the limit leaves room, a
\* put has been woken or a maxSize(m) is about to notify.  The chain runs
\* through get (queue.h:194), put itself (261) and maxSize (280).
NoLostPut ==
  Asleep({"put"}) # {} /\ (maxSize = 0 \/ Len(queue) < maxSize)
    => Woken({"put"}) # {} \/ In({"maxSize"}) # {}

\* numWaiting() is the number of threads inside get: the servers' workers
\* decide by it whether to start or to end a thread (worker.cpp:53, 64).
CountsGetters == numWaiting = Cardinality(In({"get", "getTimed"}))

\* Every method leaves the state as the next one expects it, and the count of
\* the getters with it.
Accounted == TypeOK /\ CountsGetters

\* "Returns the next element if the queue is not empty." (queue.h:80): no get
\* takes front() of an empty deque.
\* The code does not keep it: README, section 6.
NoFrontOfEmpty == ~corrupt

\* "putting a element to the queue may block until another thread fetches a
\* element or increases the limit" and "If the size is set to 0 the queue has
\* no limit" (queue.h:46): lifting the limit with maxSize(0) wakes a put.
\* The code does not keep it: README, section 6.
UnlimitedPutWoken ==
  Asleep({"put"}) # {} /\ maxSize = 0
    => Woken({"put"}) # {} \/ In({"maxSize"}) # {}

-----------------------------------------------------------------------------
(* What the queue promises: a blocking first-in-first-out channel.         *)

Fifo == INSTANCE BlockingFifo WITH
  chan    <- queue,
  getting <- In({"get"}),
  offered <- arg,
  got     <- result

\* get, tryGet, put and maxSize implement a blocking fifo channel, fairness
\* included: a thread blocked in get is served as long as elements arrive.
ImplementsFifo == Fifo!Spec
=============================================================================
