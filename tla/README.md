# cxxtools: models, checks and proofs

cxxtools is a C++ library for network services: an event loop with devices, timers and
signals, a thread safe queue, HTTP and RPC servers built from these, serialization in
several formats, and utilities around them. This directory holds TLA+ models of the parts
in which several threads, callbacks and failures meet, of its parsers and formatters, TLC runs
on small instances, and TLAPS proofs for instances of any size.

Paths below are relative to the root of the repository. Module and definition names are
those of the files in this directory; `PROJECT.json` maps each definition to its lines.

## 1. Inventory

| Component | State | Operations | Interacts with | What makes it hard | What makes it correct |
|---|---|---|---|---|---|
| **Queue** (`include/cxxtools/queue.h`) | deque, limit, count of waiting threads, two condition variables | get, get(timeout), tryGet, put, remove, waitEmpty, maxSize | workers of every server | one condition variable for different waiters, notify_one chains, timeouts that race notifications, the limit stored without the mutex | fifo, nobody sleeps while there is something for him, the count is right |
| **Worker pool** (`src/http/worker.cpp`, `serverimpl.cpp`, same text in `src/bin`, `src/json`) | run mode, set of threads, queue of sockets, idle sockets | Worker::run, start, terminate, noWaitingThreads, threadTerminated, addIdleSocket | Queue, EventLoop, TcpServer | a socket changes hands between threads by queue and events; threads end by themselves; termination from a stopped loop | one owner per socket, a listener is always accepted on, limits and joins of threads, termination ends |
| **HTTP connections** (`src/http/socket.cpp`) | parser, request, reply, timer | onInput, onOutput, timeouts | worker pool, timers | timer and input race for one socket | a connection is dropped or served, not both |
| **RPC connections** (`src/bin/socket.cpp`, `src/json/socket.cpp`) | responder, stream | onInput, onOutput | worker pool | as above, without timers and with less locking | as above |
| **EventLoop** (`src/eventloop.cpp`) | three event queues, exit flag, wake pipe | run, exit, queueEvent, commitEvent, processEvents | every component that is woken by another thread | unlocked looks at the queues, nested processEvents, exceptions, priority | order, no lost wake-up, devices are not starved |
| **Selector and timers** (`src/selector.cpp`, `src/timer.cpp`) | multimap of timers ordered by time | start, after, at, stop, add, remove, waitUntil | EventLoop, HTTP connections | handlers change the map that is being walked; the key of an entry is older than the timer | one entry per active timer, no tick lost or doubled, no timer slept over |
| **Signals, connections** (`src/signal.cpp`, `connection.cpp`, `connectable.cpp`) | lists of connections on both sides | connect, disconnect, send | everything | a slot disconnects or destroys what is being iterated; nested sends | each live slot once per send, no dangling connection |
| **Event sources and sinks** (`src/eventsource.cpp`, `eventsink.cpp`) | sets that point at each other, each with a mutex | connect, disconnect, send, destructors | EventLoop | two locks in either order, retry with yield | no deadlock, no event to a dead sink |
| **I/O devices, StreamBuffer** (`src/iodevice*.cpp`, `src/streambuffer.cpp`) | pending read and write, get and put area | beginRead/endRead, beginWrite/endWrite, underflow, overflow | sockets, parsers | put-back area with a pending operation | bytes in order, none lost |
| **TCP sockets and TLS** (`src/tcpsocketimpl.cpp`, `tcpserverimpl.cpp`) | connection state, list of addresses | connect, accept, handshake, shutdown | devices, selector | many asynchronous states, retries over addresses | one result per operation |
| **Clients** (`src/http/clientimpl.cpp`, `src/*/rpcclientimpl.cpp`) | connection, request in flight | execute, begin/end, wait | sockets, parsers | reconnect after a stale keep-alive connection, late replies | one reply per request |
| **Parsers, formatters, codecs** | automaton state, buffers | advance, finish | streams | input split anywhere | same result for every split, round trips |
| **Pool, Cache, LruCache** | free lists, recency lists | get, put, erase, resize | applications | eviction at the limit | bound kept, right victim |
| **Logging** (`src/log.cpp`) | appender with kept back lines, configuration, map of loggers, pool of messages | log, flush, configure, getLogger | Pool, every component that logs | counters outside of the mutex, configuration while others log, rotation | each line once, whole and in order |
| **Numbers, dates, trees of values** (`convert.h`, `src/date*.cpp`, `src/serializationinfo.cpp`) | union of kinds with its tag, Julian day and microseconds | read, write, set, add, move, swap | formatters, RPC | limits of integers, carries, calendar, lifetime of the member of a union | reference definitions, round trips |
| **Other values**: strings, URI, digests, processes, files | — | — | — | — | see `not_modelled` in `PROJECT.json` |

The life of a connection shows how the parts interact. A listener's accept socket lies in the
Queue. A worker gets it, blocks in accept(), queues a new accept socket and serves the
connection. When the connection is quiet the worker commits an IdleSocketEvent to the EventLoop,
whose thread then watches the socket with its Selector (and, for HTTP, a Timer). Input
makes the loop hand the socket back to the Queue, for HTTP by another event. A worker that
finds nobody waiting asks the loop for one more thread by an event, one that finds enough
others waiting ends and reports that by an event. `exit()` ends the loop and `terminate()`
brings the workers down with the loop no longer running.

The places where this can go wrong and a test hardly gets are listed, with their lines and
the properties that guard them, under "hazards" in `PROJECT.json`.

## 2. Modules

| Module | Models | Lines it stands for |
|---|---|---|
| `BlockingFifo` | what a thread safe queue promises: an abstract channel | specification |
| `Queue` | every method of `Queue<T>` | queue.h |
| `WorkerPool` | what the servers share: workers, thread bookkeeping, start, terminate, accept sockets | http/worker.cpp, http/serverimpl.cpp, http/socket.cpp, tcpserverimpl.cpp |
| `HttpServer`, `RpcServer` | `WorkerPool` with the idle connections (and timers) of each kind of server | http/, bin/: serverimpl.cpp, socket.cpp |
| `EventLoop` | event queues, loop, nested processing, wake pipe | eventloop.cpp, selectorimpl.cpp, eventsink.cpp |
| `Timers` | timers and the selector's multimap | timer.cpp, selector.cpp |
| `Signals` | signals, connections, receivers | signal.cpp, connection.cpp, connectable.cpp |
| `EventSignal` | the signal of an event loop, with its routes by type of event | signal.cpp |
| `EventSources` | sources and sinks of events with their mutexes | eventsource.cpp, eventsink.cpp |
| `Streams` | stream buffer on an asynchronous device | streambuffer.cpp, iodevice.cpp, iodeviceimpl.cpp |
| `TcpSocket` | connecting, TLS handshake and shutdown, what is polled for | tcpsocket.cpp, tcpsocketimpl.cpp |
| `BufferedSocket` | the two output buffers | bufferedsocket.cpp |
| `RpcClient` | binary and JSON RPC client | bin/rpcclientimpl.cpp |
| `Caches` | Cache, LruCache, Pool | cache.h, lrucache.h, pool.h |
| `HttpParser`, `ChunkedReader` | header and chunked body | http/parser.cpp, messageheader.cpp, chunkedreader.cpp |
| `HttpClient` | asynchronous requests | http/clientimpl.cpp |
| `Json`, `Xml`, `Csv`, `KeyValueFiles` | parsers and formatters | json*.cpp, xml/, csv*.cpp, iniparser.cpp, propertiesparser.cpp |
| `XmlRpc` | calls by XML RPC, node by node | xmlrpc/ |
| `TextBuffer`, `Codecs` | text buffer with UTF-8, base64, quoted printable | textbuffer.h, utf8codec.cpp, base64codec.cpp, quotedprintablecodec.cpp |
| `BinaryFormat`, `BinaryRpc` | the binary format and calls in it | bin/ |
| `Numbers`, `Calendar`, `ValueTree` | conversion of numbers, dates and times, trees of values | convert.h, date*.cpp, time.cpp, serializationinfo.cpp |
| `LogConfiguration`, `Logging` | logging, its configuration, appenders | log.cpp, logconfiguration.cpp |
| `Parsing` | what the parsers share: classes of characters, rules, the tree that is built | deserializer.cpp |
| `*Proofs` | theorems, see section 4 | |
| `MC*` | instances of these for TLC | |

### Composition
`HttpServer` and `RpcServer` extend `WorkerPool`. `WorkerPool` uses the queue as the fifo channel
that `Queue` is shown to implement, with numWaiting() as the number of threads inside get,
which is also shown there, and the event queue as one fifo: the servers only commit normal
events, for which `EventLoop` shows order and delivery. `Logging` extends `LogConfiguration`,
`BinaryRpc` extends `BinaryFormat` and that `Codecs`; `ValueTree` extends `Numbers`; `XmlRpc` and `Json` work on the tree
of `Parsing`.

`MCShared`, `MCSignals`, `MCIo`, `MCHttpClient` and `MCFormats` each check several machines that share no
state in one run. A variable `part` is chosen by Init and says which machine a behaviour is
about; the others stay in one initial state. So nothing is multiplied, and a property of a
part is checked in exactly the states of that part.

### Queue
One action is the code between taking the mutex and giving it up, by returning or by
waiting. A waiting thread is `asleep`, `woken` after a notification or spuriously, and goes on
when it gets the mutex, which others may get first. `maxSize(m)` stores the limit before it
locks: between `MaxSizeStore` and `MaxSizeNotify` every other reader may see either value.
get(timeout) on an empty deque is undefined behaviour: `corrupt` records it, the garbage it
returns is a value of its own, and nothing happens afterwards.

### Servers
Actors are the thread of the loop, the workers, and the clients. A worker's `pc` names its place in
`Worker::run`; each read of shared state (run mode, numWaiting, queue, wake pipe) is a step of its
own, and so is the commit that follows the look at the run mode in addIdleSocket() and in the RPC
servers' noWaitingThreads(). A socket is an address. An address is used again only when nothing
refers to it, so a dangling pointer shows. Of a request only read, answered, reply partly written,
failed and closed are left. `_threadMutex` appears as the condition that the run mode is not
Starting, which is when start() holds it across several steps. HTTP's `noWaitingThreads` takes it,
the RPC servers' does not (parameter `locks`).

### EventLoop
An event is the number it has in the order of queueing, so order can be stated. `calls` is the
stack of open `processEvents()`: a handler may commit, exit, process events again, or
throw, out of the innermost call. The two looks at the queues without the mutex (`LookAgain`,
`Woken`) and the look at the exit flag (`NextBatch`, `Send`) are steps of their own. commitEvent and
exit are two steps, the store and the byte in the pipe. `silent` are events that were
queued and not committed: nobody is woken for them, which is what queueEvent is for.

### Timers
One thread. `timers` is the multimap, with the key that an entry was inserted with next to
the timer, whose own time may have moved on. Handlers and the user call every method of a timer
between any two steps they can. Handlers may throw out of `waitUntil()`. Time is counted in
units and passes at any step.

### Signals, sources and sinks
`Signals` is one thread with a stack of active send()s. A handler may connect, disconnect, close, delete
receivers or the signal itself, assign a signal, send again, return or throw. `net` holds the
lists of both sides. A list is cleaned up only when the walk over it ends, which is what the
Sentry is for. close() takes a connection out of both lists in one step, and clear() closes all of a list, as no
other code runs in between. `EventSignal` is the same for the multimap of routes. In `EventSources` several
threads call, every lock and unlock is a step, mutexes are recursive, and callers keep the rules
of C++: no call on an object that is being destroyed.

### Streams, sockets, clients
In `Streams` the memory of the get area is kept as it is, with its pointers, because it is moved
around; characters carry their numbers, so that one which is lost, repeated or overwritten shows.
`TcpSocket` leaves out what is read and keeps every place at which a system call or the TLS
library may answer in several ways. `BufferedSocket` numbers the bytes. `RpcClient`
has a stack of handlers: onFinished() may begin, end, cancel or close. `HttpClient` has
connections that the server keeps, closes at any byte or loses.

History variables (`misuse`, `harm`, `deep`, `recalled`, `failed`, `reset`, `dropped`, `overtaken`, ...) record
what a class does not bear: each names the code and the properties say what
they except. Section 6 lists what is behind them.

### Parsers, formatters, values
A parser is an automaton over characters as the code has it: a state is a sequence of rules of
characters, what is stored and where to go. A text is written by the model of the formatter, maybe with
noise (white space, comments) or cut off, and read character by character; the result
is compared with what was written. `Codecs` and `TextBuffer` convert piece by
piece with buffers of a few bytes. `Numbers` reads each text over a few signs and compares with plain
arithmetic; `Calendar` compares with the rules of the Gregorian calendar and with one running number of
microseconds; `ValueTree` keeps which object really lives in the union.

## 3. Runs

Bounds are named constants. All passing runs together fire every action and disjunct.

| Run | Instance | Shows |
|---|---|---|
| `queue_core` | 3 threads, 2 elements, limits 1 and 2 | `NoLostGet`, `NoLostPut`, and with fairness `ImplementsFifo` for get, tryGet, put, maxSize |
| `shared` | 4 threads and all methods of the queue, limits none and 1; 2 threads that log, one that configures, 3 messages | `Accounted` (type, `CountsGetters`), `LogSound` |
| `http_core` | 4 workers (2 at a time), 4 sockets, 1 listener | `SocketsSound` (`OwnedOnce`, `NoDanglingSocket`, `OneAcceptor`), `HttpThreadsSound` (`ThreadsAccounted`, `ThreadLimit`, `StoppedClean`), until a socket is overtaken by its timeout |
| `http_threads` | limit of threads out of reach | `HttpSocketFindsThread`: a queued socket has a worker that comes, or a thread about to be made |
| `rpc_core` | 3 workers (2 at a time), 3 sockets, 1 listener, SSL failures, failing thread creation | `SocketsSound`, `ListenerServed`, `TerminatesUnlessCrowded` |
| `http_keepalive` | as `http_core`, with `NoDanglingSocket` and nothing excepted | a finding (section 6) |
| `loop_core` | 1 other thread, 3 events, batches of 1, depth 2 | `EventsInOrder` (`OrderKept`, `NoOvertaking`), `SleepsSafely` (`NoSleepWithEvents`, `NoSleepAfterExit`), `DevicesGetTheirTurn`, `CommittedIsDelivered`, `ExitEnds` |
| `timers` | 2 timers, intervals 1 and 2, 4 method calls, time up to 3 | `TimersSound` (`MapMatches`, `NoTickLost`, `OnceOnly`), `SleepsInTime` (`NoTimerLate`, `InTime`), `DueIsServed` |
| `signals` | 2 signals, 1 receiver, 3 connections, 2 nested sends; 1 source, 2 sinks, 2 threads, 4 calls; 2 listeners, 3 routes | `SignalsSound`, `EveryoneIsCalledOnce`, `SourcesSound`, `RoutesSound`, `CallsReturn` |
| `io` | buffers of 2 with 1 put back, 3 characters each way; 2 addresses; 4 bytes put; 3 calls; 5 keys and 3 sizes; 3 pooled objects | `StreamsSound`, `SocketSound`, `BuffersInOrder`, `CallsSound`, `BothEnd`, `CachesSound` |
| `http_client` | 2 requests, bodies of 2, one lost connection; 5 chunked bodies; documents and calls listed in `MCHttpClient` | `ChunksSound`, `RequestsSound`, `RequestEnds`, `JsonRead`, `XmlSound` |
| `formats` | headers of up to 11 characters, tables, files, texts, calls, numbers of 7 bits, dates listed in `MCFormats`; log configurations of two categories | `HeadersRead`, `FilesRead`, `TextsSound`, `BinaryCallsSound`, `ValuesSound` |

### Why the bounds are enough
- Lost wake-ups of the queue need a sleeper, a woken thread and one that gets in between: three
  threads, and an element or place more than one, hence length 2.
- A socket's hand-over involves a worker, the loop and the worker that comes next. Four sockets are two
  connections, an accept socket and the one being made; more workers than may live at once let one
  end while the next is created. `rpc_core` has one connection at a time, because liveness is
  checked; with three sockets a listener can get its second accept socket. It states
  `ListenerServed` where `http_core`, without SSL, states `OneAcceptor`. In `http_core` and
  `http_threads` addresses are symmetric and `new` may return any of them; in `rpc_core`, where
  liveness forbids symmetry, `new` returns one particular address.
- `MaxEvents` of the servers keeps clients (and keep-alive timers) quiet while so many events
  are queued; the program's own threads are never held back by it. For termination it is an
  assumption too: clients pause now and then.
- The loop needs a batch that is interrupted, an event behind it and one that bypasses it: three events
  with batches of one.
- Two timers and four calls: both started or added and one restarted, stopped, removed and added by a
  handler. With three calls a defect of the map did not show that four calls found (section 6).
- A walk over a list of connections is disturbed by a removal in front, at or behind its place, and
  by a second walk: three connections, two nested sends. Two threads are a deadlock of two mutexes.
- Streams: the kernel takes two characters, buffers hold two, so three characters need a
  second read or write, and growing and moving of the areas happen. One character that may be put back
  lies in front of the area that a pending read fills.
- Two addresses are one that fails and one that follows. Three calls let a call that was cancelled or has failed be
  followed by one whose reply might be confused with its own, and one more from its handler.
- Caches: five keys, caches made for four elements and resized to at most four, a serial number that wraps around at four.
- Texts end at each place where a buffer of a few bytes may end; values contain each sign that is
  treated in its own way, alone and beside others. Numbers of 7 bits have the same limits
  (sign, overflow by one digit, by a carry) as those of 64.

`HttpServer`'s selector reports input and timeouts at any time, also those of a socket whose
KeepAliveTimeoutEvent is queued and not processed yet. `overtaken` records that this has
happened; `http_keepalive` shows what comes of it (section 6). `SocketsSound`, `HttpThreadsSound` and
`HttpSocketFindsThread` hold in every behaviour up to that moment and claim nothing afterwards, when a
deleted socket may be used. No step is forbidden for that.

Symmetry is used in `http_core`, `http_threads` and `shared`, which check invariants only.
CHECK_DEADLOCK is off for the queue (threads may all wait when nobody puts), the servers
(after terminate() nothing happens), and where behaviours end because the texts or calls are used up. It is
on for the loop and the timers.

### Fairness
- Queue: a woken thread goes on (`WF` of `Resume`). Nobody has to call anything, no timeout
  has to happen. The mutex is fair enough for a thread not to be shut out for ever.
- Servers: each worker's and the loop's own steps (`WF`). `SF` for `AddIdleSocket` says
  that a client does not keep one worker busy for ever: between requests there are 10 ms of
  quiet again and again. `SF` for `Drained`: processEvents() finds the queue empty at some time,
  because clients pause and workers then have no more events to commit. Writing replies is up to
  the client and not fair.
- EventLoop: the loop's steps (`WF`), the wake that follows a commit, and `SF` of `Handled`: a handler
  returns. Nothing is assumed of devices, the user or throwing handlers.
- Timers: waitUntil() is called again and proceeds. The clock need not move.
- EventSources: `SF` of each thread's steps: a mutex that is free again and again is got, and the loop that
  tries and yields is scheduled between others.
- BufferedSocket: the loop calls onOutput(), handlers return, the peer takes what is sent.
- RpcClient: the loop serves the devices, handlers return, the server serves what it has got. It may close
  or answer nonsense instead.
- ChunkedReader, HttpClient: a call that runs goes on with what has arrived, the loop serves the devices,
  the server sends what it has begun or closes. A peer that keeps silent with the connection
  open is waited for, which is what the code does.

## 4. Proofs

Theorems are for arbitrary constants that satisfy the named assumptions of the
modules (`QueueAssumption`, `LoopAssumption`, `PoolAssumption`, `TimersAssumption`, `StreamAssumption`,
`HcAssumption`, `LogAssumption`, `EventAssumption`, `EventSignalAssumption`, `SignalAssumption`, ...): their types, that
"no element" is not an element, and what is named below.

**SharedProofs, Queue.** `IndType` is the type invariant, together with: a put that sleeps holds an
element, threads are in methods that are used, the threads inside get are finitely many and
numWaiting is their number. The last part is needed for the type already: numWaiting is
decremented, and stays a natural number only because it counts. It gives `TypeCorrect` and
`WaitingAccounted`. `GetsAreWoken` assumes that get(timeout) and waitEmpty are not used
(`OnlyPlainGet`); `NoLostGet` is then inductive on top of `IndType`: each way of leaving a
method with elements left notifies. `PutsAreWoken` assumes that the limit is not
lifted with maxSize(0); the strengthening `NoPutUnlimited` says that while the queue still has no
limit nobody sleeps in put or is about to announce a limit. `RefinesFifo` shows that Init and each step of
`Queue` is Init and a step or stutter of `BlockingFifo` (its fairness is model-checked).

**SharedProofs, Logging.** `LogInv` says who has what: a thread is at a place of configure() exactly if it holds the mutex,
and logging is off then (`MutexRight`); what the appender keeps back has a thread behind it that waits for
the mutex, and a udp appender keeps nothing (`BufferRight`), which needs the number of waiting threads to be exact; an
Impl is spare once or has one user, and only at the places between its request and its return (`ImplsRight`). A text ends
with the message of the thread that has the Impl and has nothing else in it but what was finished while
logging was off (`TextsRight`), also in an Impl that nobody uses, because such text comes back with the next user. Messages under way are not put yet,
and what was put has one message each (`MessagesRight`). A logger that is about to be inserted has the levels in
force unless somebody has configured since it was asked for (`LevelsRight`). `FilesInv` places each file of the rolling appender in the
history of what was written, behind the next older one (`AreTheEnd`), and counts the lines of the current file against
`_fsize` (`LimitRight`): after a rotation that was not announced the file holds more lines than are counted, namely what was kept back,
which is less than a buffer. `LogsAreSound` concludes all of `LogSound`, for any number of threads,
messages, Impls and calls of configure(), and any configurations. The levels that configurations give are those of
`logFlags`, which the proof does not open.

**EventLoopProofs.** `TypeCorrect` needs `Nested`: a call comes from a handler exactly if it is not the
outermost, so that returning and throwing lead to a place inside or outside of
processEvents() as the stack says. `OrderIsKept` is inductive on types: what is delivered
and pending, joined, is what was added. Its lemmas are about moving the head of a sequence and
putting a batch back in front. `NoneOvertaken` rests on `Numbered` (no waiting event has a number
that was not given yet) and `Behind`, which compares whole queues and not only heads.
`NeverSleepsOver` is inductive on types because the queues are looked at again after the last
event; `ExitIsNoticed` needs `ExitNoticed`: while the flag is set there is a byte in the pipe, a
thread that will write it, or the loop is at a place from which it comes past its top.
`DevicesAreServed` counts by `Turn`: the outermost call by the loop has sent at most its limit, and before
it at most one full batch was sent, that of wait(); nested calls count for the outer ones.

**WorkerPoolProofs, HttpProofs, RpcServerProofs.** The properties speak of owners of a socket and of
numbers of sockets; none is inductive, because a step relies on where else the same socket may be.
`PoolInv` has five parts: `Typed`; `Control` (run mode, steps of terminate(), the set of threads and events about
threads); `SocketPlaces` (a socket is in one place, once, and exists just as long as it is in one);
`Kinds` (listening sockets and connections are where they are expected); `Accepting` (a listener has a
socket that accepts). Each is preserved by every step of the pool, action by action, whether
noWaitingThreads() takes the mutex or not, and then by the steps of the two servers. For the RPC
servers one part more says that there are no events of the HTTP server's kinds. Conclusions:
`HttpSocketsAreSound`, `HttpThreadsAreSound`, `RpcSocketsAreSound`, `RpcListenersAreServed`, `RpcThreadsAreSound`, and
`RpcHasOneAcceptor` without SSL. HTTP's assume nothing about the order of timeouts and input: what
they state ends with the step at which `overtaken` becomes true, and `HttpInv` is `overtaken \/ PoolInv`, inductive because `overtaken`
never becomes false again and the reports before it find no timeout of their socket in the queue.
`SocketsFindThreads` says that a queued socket has somebody that comes for it, if threads can be created
and the limit is out of reach (`Cardinality(Workers) < MaxThreads`): its strengthening `StaysStaffed` does not
speak of the queue, because a worker decides to end before the socket comes.

**TimersCachesProofs, Timers.** `TimersInv` joins: the map has one entry for each active timer (`MapSound`), its keys
are the timers' times but for the timer that is being updated (`KeysRight`), that timer's entry
leads (`CurrentLeads`), ticks are counted from the start (`TicksSound`), and what the places of waitUntil() know about
time (`WaitSound`, `NoneDue`). Keys, and with them `NoTimerLate`, are only right while `KeysSettled` holds: no handler has
thrown, and none has added a timer that was already due. Section 6 says why. The other parts hold
without it. Lemmas about inserting and removing at the place that the multimap chooses use
that a set of numbers has a smallest one.

**TimersCachesProofs, Caches.** `CachesInv` joins `CacheInv`, `LruInv` and `PoolInv`. In the cache every serial lies below the next
one, also after wrapping around (`CacheAssumption`: the limit is at least 2, since a reset counts from 1), the maximum
is even, and at most half of it are winners, exactly half while there are loosers, unless put_top() has met a key
that was there (`bare`). So the element that `_getOldest(false)` finds in a full cache is a looser, although it would
give the first element if there were none. The LRU cache's serials are in the order of the uses until they
wrap (`usedBefore` is that order, as a set of pairs). The loops of setMaxElements() are the recursive function
`Times`; what n rounds do is shown with the smallest number of rounds that would do otherwise (`UpTo`).
`CachesAreSound` includes the action property `WinnersSurvive`. Keys are numbers, because a std::map orders them and the first
one counts.

**IoProofs, Streams.** `StreamInv` says for each place of the get area, including those in front of the
pointer that may be put back, which character is there, in terms of how many were taken
(`GetArea`), and likewise of the put area and the kernel (`PutArea`). A pending read works behind the
get area (`ReadBehind`), and the selector knows what is pending as long as nothing failed
(`Known`). `StreamAssumption` requires a buffer of two, because one of a single character does not grow (section
6). Each operation of the device and the buffer has a lemma that says what it does to the areas;
each action cites them. TLC checked `StreamInv` before it was proved.

**IoProofs, TcpSocket.** `SocketInv` adds to the parts of `SocketSound` how the kernel's answer, the descriptor, the
attempt over the addresses and the call that runs go together (`WireRight`, `AttemptRight`, `CallRight`,
`LoopRight`, `Quiet`), and that what the program waits to be told of is under way (`ConnectAwaited`,
`SslAwaited`). It holds for every length of the list of addresses.

**IoProofs, BufferedSocket.** `BuffersInv` says of each byte, by its number, where it is: `EachInPlace` gives
its index on the wire, in the first buffer behind what the pending write has written, or in the
second one. `BytesInOrder` follows from it by comparing sequences place by place, and cannot be proved alone because a
write that ends has to know which part of the first buffer is at the kernel (`PendingStays`, `WriteFits`). It holds as
long as the object is `Usable`: the program has done nothing of what the code does not bear (`harm`, section 6).

**IoProofs, RpcClient.** `RcInv`: unless the program misuses the client there is at most one call on
its way and it is in one place: in the output buffer, before the server, or in the reply on its way
back, whole or in half (`UnderWay`); when no call is active, nothing is in any place (`AtRest`). Without
this a reply could belong to an earlier call, hence `ReplyMatches` is not inductive alone.

**HttpProofs, HttpClient.** `HcInv` looks at all that the client has still to take of the replies, in the order in
which it comes: the stream buffer, what has arrived and what the server still sends. Unless something of an old reply was
left behind (`spoilt`: an error or a handler that throws ends a request and leaves its connection open, or cancel()
meets bytes in the stream of the body), all of it
belongs to the request under way, nothing stands behind the end of the chunks, and behind a header or the place
reached in a body there is no more than was announced (`StreamIsOwn`, `AreaIsOwn`). A client that is not connected has
nothing on the way (`LinkRight`), and one that may connect anew has neither done so before nor read anything of
the answer (`RetryRight`). `HttpRequestsSound` concludes what `http_client` checks, the action property
`ResentUnanswered` included, for any number of requests, lengths of bodies and lost connections.

**EventProofs, EventSources.** `SourcesInv` says which mutexes each call holds from where it is (`Held`) and that
the owner of a mutex has locked it as often as its calls hold it (`LocksRight`), from which it follows that only one thread
sends from a source; that a map is marked as being sent from exactly while a send() walks over it (`ErasingRight`);
that emptied entries are there only in such a map (`EntriesRight`); that a walk is inside of its map
(`WalksInMap`); and that what is destroyed has no calls and what is being destroyed no others (`UsersRight`). The heart is
`Balanced`: the map of a source has as many entries of a sink as the list of the sink has of the source, and
none if one of them is gone. Presence alone is not inductive, because connect() and unsubscribe()
change the numbers on both sides by one. It excludes the pairs for which unsubscribe() has broken the balance
(`unbalanced`, section 6), as the property does. Its lemmas count the places of a sequence with elements in a set, and say how
appending, inserting, removing at one place, keeping some places and overwriting change the number.

**EventProofs, EventSignal.** `RouteInv` adds to the property that ids of connections are fresh and no connection
has two routes (`IdsAreFresh`), and that the sentry is that of the only send() that is attached
(`SentryRight`): a sentry that another one has replaced would let a route be erased under a walk. As in the
property this holds until the signal is sent while it is sending (`renested`).

**EventProofs, Signals.** `SignalInv` rests on one fact that nobody has written down in the code: every list of connections
is in the order in which the connections were made (`Rising`), because they are appended, dropped from any place and
never moved. So "behind the place of a send()" can be said with the numbers of the connections, whatever handlers do to the
list meanwhile: a send() has called nobody from behind its place, in rising order, and whoever was connected when it
started and still is has been called or lies ahead (`CalledRight`). That gives `EveryoneIsCalledOnce` without looking at the
list. The place itself stays in the list (`InList`) because its signal is sending, which needs the sentry to be
that of the only attached send() (`SentriesRight`); as in the property, signals that were sent or assigned to while sending
(`nested`) are left out. `BothWays` and `Dropped` are the lists at both ends. Handlers may connect,
disconnect, delete, assign, send and throw at any depth; numbers of signals, receivers, connections and sends are arbitrary.
The lemmas say what close(), clear() and the clean-up of the sentry do to any net of connections (`Closes`, `Clears`, `Cleans`).

Only model-checked:

- Liveness, which needs fairness and ENABLED: `ImplementsFifo`'s fairness, `TerminatesUnlessCrowded`,
  `CommittedIsDelivered`, `ExitEnds`, `DueIsServed`, `CallsReturn`, `BothEnd`, `RequestEnds`, and the part
  of `ChunksSound` that says that something ends.
- `ConfSound` (configurations written and read) and everything about parsers, formatters, codecs
  and values: these modules use SelectSeq, folds or recursive definitions over lists and
  texts, so that proofs would be inductions over data.

## 5. What is left out

- Devices are a nondeterministic return of the selector in `EventLoop`. The poll with its file descriptors is
  not modelled, its wake pipe is.
- `SelectorBase::waitTimer`, destructors of selector and loop, SelectorImpl's deletion of devices from
  inside of handlers.
- Contents of requests, replies and events in the servers and clients; contents have modules of their own.
- Timers that their own handler deletes: Timer::update() goes on to read them (timer.cpp:238-245), which is undefined
  behaviour with no outcomes to choose from.
- In `Streams`: putting back more characters than beginRead() finds room for, which writes outside of its memory; seeking and attaching to another device. In `TcpSocket`: listening and the getters of addresses.
- In `HttpClient`: execute() and readBody(), which block, and authentication. In `RpcClient`: JSON over HTTP.
- JSON: numbers of lines, texts of errors. XML: the contents of comments and instructions, entities beyond
  the five that are written, prefixes of attributes. CSV: titles chosen by the caller. Text buffer: no codec,
  base64 without padding, uuencode, maps of characters. Binary format: texts of type int or long that are no
  number, which throw; those that are one are in `formats`.
- Logging: the format of an entry, file names by time, writes that fail, the end of the program.
- Numbers: binary rounding, infinity, not-a-number. Calendar: time zones, time spans as texts.
- The components marked `not_modelled` in `PROJECT.json`, each with its reason. `src/unicode.h` (14 000 lines)
  is a generated table.

## 6. Findings

Shown by a run that expects a violation and quoted in `PROJECT.json`: `http_keepalive`. A keep-alive
timeout and input that are reported in the same round of the selector leave an ActiveSocketEvent with a
deleted socket (http/serverimpl.cpp:371).

### Properties that the code does not keep
They stand in the modules, marked as such, and no run states them. Each can be checked by naming it
in the configuration of its module.

| Property | Module | What happens |
|---|---|---|
| `NoFrontOfEmpty` | `Queue` | get(timeout) does not look at the queue again after waiting and takes front() of an empty deque if the element is gone or the wake-up was spurious (queue.h:80 promises an element) |
| `UnlimitedPutWoken` | `Queue` | maxSize(0) wakes no put that is blocked (queue.h:46) |
| `Terminates` | `WorkerPool` | a failed SSL handshake leaves a listener with one accept socket more (bin/worker.cpp:99 after :93, the same in http and json); two workers block in accept(), terminate() writes one byte for the listener, and one worker is waited for for ever (tcpserver.h:84) |
| `NoTimerLate` without `KeysSettled` | `Timers` | see below |
| `NoClosedSlotCalled` | `EventSignal` | a slot that an earlier slot of the same send has disconnected, or whose receiver it has deleted, is called: the walk asks for the route, not for its connection (signal.cpp:282) |
| `NoDescriptorLeft` | `TcpSocket` | after closing, when a connection begins, a descriptor may still be open, which tryConnect() asserts not to be (tcpsocketimpl.cpp:359) |
| `EndReturnsItsResult` | `RpcClient` | after end() has timed out, the next call may get the result of the earlier one; doc/binaryrpc-howto.markdown:185-187 says end() returns the result of the procedure |
| `CompleteIsTold` | `HttpClient` | when the last chunk is met while data are read, the client reads a further header; if none comes, the end of the reply is not told (http/clientimpl.cpp:625-692, http/client.h:340) |
| `EndOfDataIsWhole` | `ChunkedReader` | a connection that is lost within a chunk ends the body like its end does (chunkedreader.cpp:119-124) |
| `PlainNamesRead` | `Json` | names with an underscore are refused: jsonparser.cpp:281 compares with 'l', and doc/json-howto.markdown:190-191 allows underscores |
| `EofIsTheEnd` | `TextBuffer` | underflow() tells the end of the file when what it has read so far gives no character yet (textbuffer.h:382) |
| `ErrorCodeKept` | `BinaryRpc` | the bytes of an error code are of type char, and those from 0x80 on are extended by their sign (bin/scanner.cpp:94, against bin/responder.cpp:53-61) |
| `MissingArgumentsNoticed` | `XmlRpc` | a request without a parameter at all runs a procedure that wants some (responder.cpp:164) |
| `EndIsToldOnce`, `FailureForgotten`, `ResultWasRead` | `XmlRpc` | after errors the call stays set and is told again (clientimpl.cpp:212-233, 265-267, 140-172); an empty body is told as success |
| `OnlyItsText` | `Logging` | a message that is finished while logging is off leaves its text in the pooled object, and it stands in front of a later message |
| `NothingIsLost` | `Logging` | configure() replaces the appender with the lines that were kept back for a thread that waits |
| `NoRace`, `AllLevelsInForce` | `Logging` | getLogger() and configure() share the configuration and the map of loggers without a common mutex; a logger may keep an old level for ever |
| `StoredIsKept`, `RotatesWhenAsked` | `LogConfiguration` | T-levels and sets of flags are written as FATAL; "tostdout" is written and "stdout" read; "4g" wraps to 0 and nothing is rotated |

### Timers whose key is old
updateTimer() gives the first entry of the map a new key (selector.cpp:136-143). That need not be the entry of the
timer it has updated. A handler that throws leaves such an entry. So does a handler, called while ticks are made up
for, that removes and adds its timer again, or adds any timer that is already due. TLC's
trace with four calls: t1 with interval 1, t2 with 2, the clock at 2; t1's handler removes and adds t1, which is due at
2, in front of its old entry; t1 is updated again, to 3; the entry re-keyed next is another one, and the selector sleeps until
3 although t2 is due at 2. `KeysSettled` excludes both; what holds without it is stated without it.

### Met while modelling, visible in the definitions
Queue, servers, loop:
- `Queue::remove` finds the element and does not erase it (queue.h:265, says "found and removed").
- `Queue::waitEmpty` waits on `_notEmpty`, which nobody notifies when the queue becomes empty
  (queue.h:143), and can swallow a notification meant for get.
- get(timeout) whose deadline passes after it was notified returns nothing though there is an
  element (queue.h:210).
- A request for a thread (`OnNoWaitingThreads`) that meets a worker about to end counts it against the
  limit, is dropped and not repeated, so a queued request may wait for the next client
  although a thread could be made (bin/rpcserverimpl.cpp:267).
- processEvents() inside terminate() goes on while workers commit events, so under endless
  load it need not return.
- The RPC servers' noWaitingThreads() does nothing while start() is still running
  (bin/rpcserverimpl.cpp:216), so the first accept socket may wait for a busy worker.
- A priority event that is committed while a batch of normal events is being delivered waits for the
  rest of it (eventloop.cpp:318), eventsink.h:63 says priority events come before any other.
- processEvents() does nothing once exit() was called (eventloop.cpp:316), eventloop.h:59 says it
  processes all events.
- Two batches may be delivered between two polls (eventloop.cpp:229), hence
  the factor 2 in `DevicesGetTheirTurn`; eventloop.h:155 speaks of one.
- Events committed between the last processEvents() of terminate() and the change of the run mode
  are never handled (http/serverimpl.cpp:185); `StoppedClean` excepts their sockets and workers, so no
  run reports it.

Signals and event sources:
- EventSink::onUnsubscribe erases one entry of the sink's list whatever number of entries unsubscribe() has erased from the
  map (eventsink.cpp:107), so a sink that was subscribed twice, or not at all, is left with a source too many or too few.
- removeRoute() does not advance its iterator (signal.cpp:343): disconnecting a slot that is not the first of its key does not return.

Streams and sockets:
- A StreamBuffer that grows and whose size is 1 does not grow: `_obufferSize + _obufferSize/2` (streambuffer.cpp:313), and
  overflow() writes behind the put area. Hence sizes of two and more in `StreamAssumption`.
- overflow() of a StreamBuffer that grows cancels both operations and begins them again. If characters were put back so that
  the get area is full, beginRead() throws "StreamBuffer is full" (streambuffer.cpp:126, 329): the area has moved
  in memory with the old pointers, and the character is not put (`OverflowThrows`).
- BufferedSocket: bytes that a handler of the signal "written" puts while the second buffer holds older ones overtake
  them; moving, stopping or repeating a write with the second buffer in use, and destroying the socket in a handler, are
  not borne (`harm`).
- messageheader.cpp, setHeader: the end mark may be written one byte behind the buffer.

Codecs and formats:
- Quoted printable: a text that ends with a blank lets terminate() loop for ever (textbuffer.h:165); a blank before the end of
  a line at column 73 or more throws in sync, and overflow() writes behind the buffer (textbuffer.h:265-276).
- isLegalUTF8 accepts a second byte below 0x80 after 0xED and 0xF4 (utf8codec.cpp:126, 128); so does
  the model, and `Utf8Text`, what such a text should be, leaves the second byte open there (`lax`).
- Binary format: named texts "nan", "inf", "-inf" are read as numbers (formatter.cpp:129-152, 245-268, parser.cpp:195-206);
  2^-64 is read as zero (parser.cpp:1027); the index of a name whose type has a byte from 0x80 on throws (parser.cpp:539);
  negative integers are printed as all their bits plus one.
- XML: an empty element with attributes has the text in front told twice; an empty CDATA section is not recognised, and its end is
  looked for in all text; `</a>` at depth 0 wraps the depth; instructions inside of text are told before it; an
  inner subset of DOCTYPE throws; a second root is accepted; an attribute ends at either kind of quote;
  values of white space only are lost; XmlFormatter(XmlWriter*) leaves `_useAttributes` uninitialised
  (xmlformatter.cpp:50-53). textbuffer.h moves bytes from behind the data.
- XML RPC: members without name cannot be read back; the second and later elements of a list get the type of the one before; empty
  lists and structures lose their category.

Logging:
- A configure() that throws leaves logging off although the old appender is there. Loggers keep the format they were made
  with; the rolling appender keeps a reference to the argument of configure().
- broadcast=false is not written although true is the default; setStdout() does not clear the file's name; the documentation says `host`, the
  code reads loghost and logport; "|WARN|INFO" is WARN only, "|FINE|x" is FATAL.
- Lines kept back at a rotation that is not announced go into the new file. After a change of the file by time `_fsize` is not reset.

Numbers, dates, trees:
- getFloat loses the sign of a whole number that something follows ("-5 " is 5, convert.h:968-970); putFloat loses the carry
  (0.999999999999999 is written as "0") and takes log10(0); "1e", ".", "-." and "1e 5" are accepted, getInt accepts "- ". A wide character
  whose code modulo 256 is a digit is a digit. convert(bool&, const char*) takes each text for true.
- SerializationInfo: assigning a node from its own member deletes what is read; an Object or Array with a text becomes a
  Value by assignment and swap, but not by copying; quotes inside a name and a second `{}` mislead path().
- "12:30:00" is read as 00:30:00 with %H (datetime.cpp:54, 201-205), so noon does not come back.
  `Time::operator-=` adds (time.cpp:321). += and -= accept 24:00:00. DateTime::set stores the date before the time is found invalid
  (datetime.h:366). Days before Date::min() wrap. date.h:353 names another Date::max() than the constant is; "%w" gives 0 for
  Sunday, date.h says 6. "%j" changes what a later "%u" writes, and "%%" writes two signs. Years from 10000 on are cut to four digits.

## 7. Plan

Done: every module of section 2 with its runs; proofs of the queue, the loop, the servers, the timers, the
streams, the sockets, the RPC client, the HTTP client, signals with their slots, events with their sources, sinks and signal,
logging, the caches and the pool.

What no module covers yet, the most useful first: the responder and its procedures (binary and JSON), the registry
of services, log formats, UDP sockets, directories and processes. What the parsers and codecs compute for
every input needs induction over texts; TLC checks them up to the lengths of section 3.
