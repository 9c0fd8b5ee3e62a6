----------------------------- MODULE EventSources -----------------------------
(***************************************************************************)
(* EventSource and EventSink.  A source has a map of the sinks it sends to *)
(* and a sink a list of its sources; each has a recursive mutex.  connect()*)
(* and its like lock the source, then the sink; the destructor of a sink   *)
(* has to go the other way, so it tries the mutex dmx, which serialises    *)
(* the destructors, and gives way when it does not get it.                 *)
(*                                                                         *)
(* Threads connect, disconnect, send and destroy.  They keep to the rules  *)
(* of C++: nobody starts a call on an object that is being destroyed, and  *)
(* nobody destroys an object another thread has a call on; a source is not *)
(* destroyed by a sink it is sending to.  A sink may be destroyed at any   *)
(* time else, also while a source sends to it.                             *)
(***************************************************************************)
EXTENDS Naturals, Sequences, SequencesExt, FiniteSets

CONSTANTS
  Sources, Sinks, EventThreads,
  MaxCalls     \* bound: calls

Keys == {"all", "type"}   \* what a sink is connected, or subscribed, for
dmx == "dmx"
NoSink == "erased"
Nobody == "nobody"

ASSUME EventAssumption ==
  /\ Sources \cap Sinks = {} /\ dmx \notin Sources \cup Sinks /\ NoSink \notin Sources \cup Sinks
  /\ Nobody \notin EventThreads

VARIABLES
  sinks,       \* sinks[s]: _sinks, entries [key, sink] in the order of the multimap
  sources,     \* sources[k]: _sources
  erasing,     \* sources with _sentry, that is, in send()
  soiled,      \* sources with _dirty
  owner,       \* owner[m]: who has locked the mutex of an object, or dmx
  locks,       \* locks[m]: how often
  calls,       \* calls[t]: the calls t is in, the innermost last
  made,        \* bound: calls made
  gone,        \* objects whose destructor has returned
  unbalanced   \* history: pairs for which unsubscribe() met not exactly one entry

eventVars == <<sinks, sources, erasing, soiled, owner, locks, calls, made, gone, unbalanced>>
registered == <<sinks, sources, erasing, soiled>>

Mutexes == Sources \cup Sinks \cup {dmx}

Call(t) == Last(calls[t])
Outer(t) == SubSeq(calls[t], 1, Len(calls[t]) - 1)
In(t, op, pc) == calls[t] # <<>> /\ Call(t).op = op /\ Call(t).pc = pc
GoTo(t, pc) == calls' = [calls EXCEPT ![t] = [@ EXCEPT ![Len(@)].pc = pc]]
Return(t) == calls' = [calls EXCEPT ![t] = Outer(t)]

\* Threads run code of the program outside of calls and in handlers of events.
MayCall(t) == (calls[t] # <<>> => Call(t).pc = "handler") /\ made < MaxCalls

-----------------------------------------------------------------------------
(* Recursive mutexes.                                                      *)

Free(t, m) == owner[m] \in {Nobody, t}

\* t locks the mutexes of ups and unlocks those of downs, once each.
Relock(t, ups, downs) ==
  LET count == [m \in Mutexes |->
                  locks[m] + (IF m \in ups THEN 1 ELSE 0) - (IF m \in downs THEN 1 ELSE 0)]
  IN /\ \A m \in ups : Free(t, m)
     /\ locks' = count
     /\ owner' = [m \in Mutexes |-> IF m \notin ups \cup downs THEN owner[m]
                                    ELSE IF count[m] = 0 THEN Nobody ELSE t]

-----------------------------------------------------------------------------
(* The map and the list.                                                   *)

\* The elements of a list at the places ps, in their order.
Kept(list, ps) ==
  [j \in 1 .. Cardinality(ps) |-> list[CHOOSE i \in ps : Cardinality({l \in ps : l <= i}) = j]]

\* The place where the multimap inserts: behind the entries with the same key.
Place(map, key) == 1 + Cardinality({i \in DOMAIN map : key = "type" \/ map[i].key = "all"})

Inserted(map, e) ==
  LET p == Place(map, e.key) IN SubSeq(map, 1, p - 1) \o <<e>> \o SubSeq(map, p, Len(map))

\* Entries of the sink k with one of the keys ks are erased, or, in send(), emptied.
Erased(s, k, ks) ==
  IF s \in erasing
  THEN [i \in DOMAIN sinks[s] |-> IF sinks[s][i].sink = k /\ sinks[s][i].key \in ks
                                  THEN [sinks[s][i] EXCEPT !.sink = NoSink] ELSE sinks[s][i]]
  ELSE Kept(sinks[s], {i \in DOMAIN sinks[s] : ~(sinks[s][i].sink = k /\ sinks[s][i].key \in ks)})

\* onDisconnect(): all entries of the list.
Forgotten(k, s) == Kept(sources[k], {i \in DOMAIN sources[k] : sources[k][i] # s})

\* onUnsubscribe(): the first entry.
FirstForgotten(k, s) ==
  LET at == {i \in DOMAIN sources[k] : sources[k][i] = s}
      i == CHOOSE j \in at : \A l \in at : j <= l
  IN IF at = {} THEN sources[k]
     ELSE SubSeq(sources[k], 1, i - 1) \o SubSeq(sources[k], i + 1, Len(sources[k]))

Entries(s, k, ks) == {i \in DOMAIN sinks[s] : sinks[s][i].sink = k /\ sinks[s][i].key \in ks}

\* disconnect() that leaves the list of the sink alone.
DisconnectedSourceOnly(s, k) ==
  /\ sinks' = [sinks EXCEPT ![s] = Erased(s, k, Keys)]
  /\ soiled' = IF s \in erasing /\ Entries(s, k, Keys) # {} THEN soiled \cup {s} ELSE soiled
  /\ UNCHANGED <<sources, erasing>>

\* disconnect() of k from s, with both mutexes locked.
Disconnected(s, k) ==
  /\ sinks' = [sinks EXCEPT ![s] = Erased(s, k, Keys)]
  /\ sources' = [sources EXCEPT ![k] = Forgotten(k, s)]
  /\ soiled' = IF s \in erasing /\ Entries(s, k, Keys) # {} THEN soiled \cup {s} ELSE soiled
  /\ UNCHANGED erasing

-----------------------------------------------------------------------------
(* connect(), subscribe(), disconnect() and unsubscribe().                 *)

Dying(o) == \E t \in EventThreads : \E i \in DOMAIN calls[t] :
              calls[t][i].op \in {"~source", "~sink"} /\ calls[t][i].on = o

Usable(o) == o \notin gone /\ ~Dying(o)

\* No thread but t has a call on o.
OnlyUsedBy(t, o) == \A u \in EventThreads \ {t} : \A i \in DOMAIN calls[u] :
                      o \notin {calls[u][i].on, calls[u][i].with}

Begin(t, op, on, with, key) ==
  /\ MayCall(t)
  /\ calls' = [calls EXCEPT ![t] =
       Append(@, [op |-> op, on |-> on, with |-> with, key |-> key, pc |-> "start", at |-> 0])]
  /\ made' = made + 1
  /\ UNCHANGED <<registered, owner, locks, gone, unbalanced>>

BeginCall(t, op, s, k, key) == Usable(s) /\ Usable(k) /\ Begin(t, op, s, k, key)

\* The source is locked.
LockSource(t) ==
  /\ \E op \in {"connect", "disconnect", "unsubscribe"} : In(t, op, "start")
  /\ Relock(t, {Call(t).on}, {}) /\ GoTo(t, "locked")
  /\ UNCHANGED <<registered, made, gone, unbalanced>>

\* The sink is locked, the call done and the source unlocked.
FinishCall(t, op) ==
  LET s == Call(t).on
      k == Call(t).with
  IN /\ In(t, op, "locked") /\ Free(t, k)
     /\ Relock(t, {}, {s}) /\ UNCHANGED <<made, gone>>

\* The iterator of a send() of s that called the sink stays on its entry.
StaysOn(c, s, p) == IF c.on = s /\ c.at >= p THEN [c EXCEPT !.at = @ + 1] ELSE c

ConnectSink(t) ==
  LET s == Call(t).on
      k == Call(t).with
      p == Place(sinks[s], Call(t).key)
  IN /\ FinishCall(t, "connect")
     /\ calls' = [calls EXCEPT ![t] = [i \in DOMAIN Outer(t) |-> StaysOn(calls[t][i], s, p)]]
     /\ sources' = [sources EXCEPT ![k] = Append(@, s)]
     /\ sinks' = [sinks EXCEPT ![s] = Inserted(@, [key |-> Call(t).key, sink |-> k])]
     /\ UNCHANGED <<erasing, soiled, unbalanced>>

DisconnectSink(t) ==
  /\ FinishCall(t, "disconnect") /\ Return(t)
  /\ Disconnected(Call(t).on, Call(t).with)
  /\ UNCHANGED unbalanced

Unsubscribe(t) ==
  LET s == Call(t).on
      k == Call(t).with
      hit == Entries(s, k, {"type"})
  IN /\ FinishCall(t, "unsubscribe") /\ Return(t)
     /\ sources' = [sources EXCEPT ![k] = FirstForgotten(k, s)]
     /\ sinks' = [sinks EXCEPT ![s] = Erased(s, k, {"type"})]
     /\ soiled' = IF s \in erasing /\ hit # {} THEN soiled \cup {s} ELSE soiled
     /\ unbalanced' = IF Cardinality(hit) = 1 THEN unbalanced ELSE unbalanced \cup {<<s, k>>}
     /\ UNCHANGED erasing

-----------------------------------------------------------------------------
(* send(), one thread at a time because of the mutex; a sink does not send *)
(* on the source it hears from.                                            *)

BeginSend(t, s) ==
  /\ Usable(s) /\ \A i \in DOMAIN calls[t] : calls[t][i].on # s
  /\ Begin(t, "send", s, NoSink, "all")

\* The iterator of send() is at the entry i.
WalkAt(t, i) ==
  calls' = [calls EXCEPT ![t] = [@ EXCEPT ![Len(@)] = [Call(t) EXCEPT !.pc = "loop", !.at = i]]]

LockSend(t) ==
  /\ In(t, "send", "start") /\ Relock(t, {Call(t).on}, {})
  /\ erasing' = erasing \cup {Call(t).on} /\ soiled' = soiled \ {Call(t).on}
  /\ WalkAt(t, 1)
  /\ UNCHANGED <<sinks, sources, made, gone, unbalanced>>

\* The next entry: its sink commits the event, or it was emptied.
CommitEvent(t) ==
  /\ In(t, "send", "loop") /\ Call(t).at <= Len(sinks[Call(t).on])
  /\ sinks[Call(t).on][Call(t).at].sink # NoSink
  /\ GoTo(t, "handler")
  /\ UNCHANGED <<registered, owner, locks, made, gone, unbalanced>>

Next1(t) == WalkAt(t, Call(t).at + 1)

SkipErased(t) ==
  /\ In(t, "send", "loop") /\ Call(t).at <= Len(sinks[Call(t).on])
  /\ sinks[Call(t).on][Call(t).at].sink = NoSink
  /\ Next1(t)
  /\ UNCHANGED <<registered, owner, locks, made, gone, unbalanced>>

Committed(t) ==
  /\ In(t, "send", "handler") /\ Next1(t)
  /\ UNCHANGED <<registered, owner, locks, made, gone, unbalanced>>

\* The sentry erases what was emptied.
Swept(s) == IF s \in soiled THEN Kept(sinks[s], {i \in DOMAIN sinks[s] : sinks[s][i].sink # NoSink}) ELSE sinks[s]

SendDone(t) ==
  LET s == Call(t).on
  IN /\ In(t, "send", "loop") /\ Call(t).at > Len(sinks[s])
     /\ sinks' = [sinks EXCEPT ![s] = Swept(s)]
     /\ erasing' = erasing \ {s} /\ soiled' = soiled \ {s}
     /\ Relock(t, {}, {s}) /\ Return(t)
     /\ UNCHANGED <<sources, made, gone, unbalanced>>

-----------------------------------------------------------------------------
(* The destructors.                                                        *)

BeginDestroySource(t, s) ==
  /\ Usable(s) /\ OnlyUsedBy(t, s) /\ \A i \in DOMAIN calls[t] : calls[t][i].on # s
  /\ Begin(t, "~source", s, NoSink, "all")

\* dmx is locked until the destructor is done.
LockDestructors(t) ==
  /\ In(t, "~source", "start") /\ Relock(t, {dmx}, {}) /\ GoTo(t, "loop")
  /\ UNCHANGED <<registered, made, gone, unbalanced>>

DestroyLocks(t) ==
  /\ In(t, "~source", "loop") /\ Relock(t, {Call(t).on}, {}) /\ GoTo(t, "first")
  /\ UNCHANGED <<registered, made, gone, unbalanced>>

\* tryDisconnect() of the first sink; waits for the sink with the source locked.
DestroyDisconnects(t) ==
  LET s == Call(t).on
  IN /\ In(t, "~source", "first") /\ sinks[s] # <<>>
     /\ Free(t, sinks[s][1].sink)
     /\ Disconnected(s, sinks[s][1].sink)
     /\ Relock(t, {}, {s}) /\ GoTo(t, "loop")
     /\ UNCHANGED <<made, gone, unbalanced>>

SourceDestroyed(t) ==
  LET s == Call(t).on
  IN /\ In(t, "~source", "first") /\ sinks[s] = <<>>
     /\ gone' = gone \cup {s}
     /\ Relock(t, {}, {s, dmx}) /\ Return(t)
     /\ UNCHANGED <<registered, made, unbalanced>>

BeginDestroySink(t, k) ==
  /\ Usable(k) /\ OnlyUsedBy(t, k)
  /\ Begin(t, "~sink", k, NoSink, "all")

SinkLocks(t) ==
  /\ In(t, "~sink", "start") /\ Relock(t, {Call(t).on}, {}) /\ GoTo(t, "first")
  /\ UNCHANGED <<registered, made, gone, unbalanced>>

\* Keeps the sink locked while it waits for dmx.
SinkSpins(t) ==
  In(t, "~sink", "first") /\ sources[Call(t).on] # <<>> /\ ~Free(t, dmx) /\ UNCHANGED eventVars

\* tryDisconnect() has not got dmx: unlock and yield.
SinkYields(t) ==
  /\ In(t, "~sink", "first") /\ sources[Call(t).on] # <<>> /\ ~Free(t, dmx)
  /\ Relock(t, {}, {Call(t).on}) /\ GoTo(t, "start")
  /\ UNCHANGED <<registered, made, gone, unbalanced>>

SinkTries(t) ==
  /\ In(t, "~sink", "first") /\ sources[Call(t).on] # <<>>
  /\ Relock(t, {dmx}, {}) /\ GoTo(t, "try")
  /\ UNCHANGED <<registered, made, gone, unbalanced>>

\* disconnect() waits for the source with the sink and dmx locked.
SinkDisconnects(t) ==
  LET k == Call(t).on
      s == sources[k][1]
  IN /\ In(t, "~sink", "try") /\ Free(t, s)
     /\ Disconnected(s, k)
     /\ Relock(t, {}, {dmx, k}) /\ GoTo(t, "start")
     /\ UNCHANGED <<made, gone, unbalanced>>

SinkDestroyed(t) ==
  /\ In(t, "~sink", "first") /\ sources[Call(t).on] = <<>>
  /\ gone' = gone \cup {Call(t).on}
  /\ Relock(t, {}, {Call(t).on}) /\ Return(t)
  /\ UNCHANGED <<registered, made, unbalanced>>

-----------------------------------------------------------------------------

EventInit ==
  /\ sinks = [s \in Sources |-> <<>>] /\ sources = [k \in Sinks |-> <<>>]
  /\ erasing = {} /\ soiled = {}
  /\ owner = [m \in Mutexes |-> Nobody] /\ locks = [m \in Mutexes |-> 0]
  /\ calls = [t \in EventThreads |-> <<>>] /\ made = 0
  /\ gone = {} /\ unbalanced = {}

\* A step of a call that t is in.
EventStep(t) ==
  \/ LockSource(t) \/ ConnectSink(t) \/ DisconnectSink(t) \/ Unsubscribe(t)
  \/ LockSend(t) \/ CommitEvent(t) \/ SkipErased(t) \/ Committed(t) \/ SendDone(t)
  \/ LockDestructors(t) \/ DestroyLocks(t) \/ DestroyDisconnects(t) \/ SourceDestroyed(t)
  \/ SinkLocks(t) \/ SinkYields(t) \/ SinkTries(t) \/ SinkDisconnects(t) \/ SinkDestroyed(t)

EventCall(t) ==
  \/ \E s \in Sources :
       \/ BeginSend(t, s) \/ BeginDestroySource(t, s)
       \/ \E k \in Sinks : \/ \E key \in Keys : BeginCall(t, "connect", s, k, key)
                           \/ \E op \in {"disconnect", "unsubscribe"} : BeginCall(t, op, s, k, "type")
  \/ \E k \in Sinks : BeginDestroySink(t, k)

EventNext == \E t \in EventThreads : EventStep(t) \/ EventCall(t)

EventSpec == EventInit /\ [][EventNext]_eventVars

\* A thread that can run does; a mutex that is free again and again is got.
EventFairness == \A t \in EventThreads : SF_eventVars(EventStep(t))

-----------------------------------------------------------------------------
(* Properties.                                                             *)

EventTypeOK ==
  /\ sinks \in [Sources -> Seq([key : Keys, sink : Sinks \cup {NoSink}])]
  /\ sources \in [Sinks -> Seq(Sources)]
  /\ soiled \subseteq erasing /\ erasing \subseteq Sources
  /\ owner \in [Mutexes -> EventThreads \cup {Nobody}] /\ locks \in [Mutexes -> Nat]
  /\ \A m \in Mutexes : (owner[m] = Nobody) <=> (locks[m] = 0)
  /\ gone \subseteq Sources \cup Sinks

\* Neither a source nor a sink knows of an object that is destroyed: the one
\* would send to it, the other would lock it in its destructor.
NoneIsDangling ==
  \A s \in Sources, k \in Sinks : <<s, k>> \notin unbalanced =>
    /\ s \notin gone => (k \in gone => Entries(s, k, Keys) = {})
    /\ k \notin gone => (s \in gone => \A i \in DOMAIN sources[k] : sources[k][i] # s)

\* An entry is empty only while its source is sending; the destructor of the
\* source takes the first entry for a sink.
EmptiedIsSwept ==
  \A s \in Sources \ erasing : \A i \in DOMAIN sinks[s] : sinks[s][i].sink # NoSink

\* send() reaches a place in the map that exists.
SendIsInTheMap ==
  \A t \in EventThreads : \A i \in DOMAIN calls[t] :
    calls[t][i].op = "send" /\ calls[t][i].pc = "handler" => calls[t][i].at <= Len(sinks[calls[t][i].on])

\* t runs a destructor in a handler of an event, with the sending source locked.
DestroysInHandler(t) ==
  \E i \in DOMAIN calls[t] : i > 1 /\ calls[t][i].op \in {"~source", "~sink"}

\* Every call returns: the opposite orders of locking do not block, and a
\* destructor that gives way gets its turn, as long as handlers destroy nothing.
CallsReturn ==
  \A t \in EventThreads :
    calls[t] # <<>> ~> calls[t] = <<>> \/ \E u \in EventThreads : DestroysInHandler(u)

\* The map of the source, the list of the sink, and the walk of send() over
\* the map while others connect, disconnect and destroy.
SourcesSound == EventTypeOK /\ NoneIsDangling /\ EmptiedIsSwept /\ SendIsInTheMap
=============================================================================
