------------------------------ MODULE EventLoop -------------------------------
(***************************************************************************)
(* EventLoop with the wake pipe of SelectorImpl.  Any thread queues normal *)
(* and priority events, one thread runs the loop and delivers them.  The   *)
(* queues are protected by _queueMutex except for three reads that the     *)
(* loop does without it; a handler may queue events, call exit(), call     *)
(* processEvents() again or throw.                                         *)
(*                                                                         *)
(* An event is the number it has in the order of queueing.  The pipe is    *)
(* either empty or not: the loop always reads all of it.                   *)
(***************************************************************************)
EXTENDS Naturals, Sequences, FiniteSets, Functions

CONSTANTS
  Threads,        \* threads other than that of the loop
  EventsPerLoop,  \* _eventsPerLoop, 0 for no limit
  MaxEvents,      \* bound: events that are queued
  MaxDepth        \* bound: calls of processEvents() inside each other

ASSUME LoopAssumption ==
  /\ EventsPerLoop \in Nat /\ MaxEvents \in Nat /\ MaxDepth \in Nat \ {0}

VARIABLES
  eventQueue,          \* _eventQueue
  priorityEventQueue,  \* _priorityEventQueue
  activeEventQueue,    \* _activeEventQueue
  activeKind,          \* the kind of _activeEventQueue: _activeEventQueueIsPriority
  exitLoop,            \* _exitLoop
  wake,                \* TRUE if there are bytes in the wake pipe
  pc,                  \* where the thread of the loop is
  calls,               \* its calls of onProcessEvents, innermost last
  todo,                \* todo[t]: what t still has to wake the loop for: an event,
                       \* or 0 for exit()
  added,               \* history: added[k], the events of kind k queued
  delivered,           \* history: delivered[k], those that were sent
  silent,              \* history: events that were queued without a wake
  batch                \* history: events sent by the loop since the last poll

Kinds == {"normal", "priority"}

queues == <<eventQueue, priorityEventQueue, activeEventQueue, activeKind>>
history == <<added, delivered, silent, batch>>
vars == <<queues, exitLoop, wake, pc, calls, todo, history>>

-----------------------------------------------------------------------------

\* Impl::eventQueueEmpty().
EventQueueEmpty ==
  eventQueue = <<>> /\ priorityEventQueue = <<>> /\ activeEventQueue = <<>>

Queued == Len(added["priority"]) + Len(added["normal"])

\* onQueueEvent(): the next event goes to the end of the queue of its kind.
OnQueueEvent(k) ==
  LET e == Queued + 1 IN
  /\ Queued < MaxEvents
  /\ \/ /\ k = "priority"
        /\ priorityEventQueue' = Append(priorityEventQueue, e)
        /\ UNCHANGED eventQueue
     \/ /\ k = "normal"
        /\ eventQueue' = Append(eventQueue, e)
        /\ UNCHANGED priorityEventQueue
  /\ added' = [added EXCEPT ![k] = Append(@, e)]
  /\ UNCHANGED <<activeEventQueue, activeKind, delivered, batch>>

\* queueEvent() and queuePriorityEvent().
QueueEvent(t, k) ==
  /\ todo[t] = {}
  /\ OnQueueEvent(k)
  /\ silent' = silent \cup {Queued + 1}
  /\ UNCHANGED <<exitLoop, wake, pc, calls, todo>>

\* commitEvent() and commitPriorityEvent(), up to the wake.
CommitEvent(t, k) ==
  /\ todo[t] = {}
  /\ OnQueueEvent(k)
  /\ todo' = [todo EXCEPT ![t] = {Queued + 1}]
  /\ UNCHANGED <<exitLoop, wake, pc, calls, silent>>

\* Deviation: the loop is not woken.
ExitSilently(t) ==
  /\ todo[t] = {}
  /\ exitLoop' = TRUE
  /\ UNCHANGED <<queues, wake, pc, calls, todo, history>>

\* exit(), up to the wake.
Exit(t) ==
  /\ todo[t] = {}
  /\ exitLoop' = TRUE
  /\ todo' = [todo EXCEPT ![t] = {0}]
  /\ UNCHANGED <<queues, wake, pc, calls, history>>

\* SelectorImpl::wake(), the rest of commitEvent() or exit().
Wake(t) ==
  /\ todo[t] # {}
  /\ wake' = TRUE
  /\ todo' = [todo EXCEPT ![t] = {}]
  /\ UNCHANGED <<queues, exitLoop, pc, calls, history>>

-----------------------------------------------------------------------------
(* onProcessEvents.                                                        *)

\* A call with limit max, from the place named from.
Call(max, from) ==
  /\ calls' = Append(calls, [max |-> max, count |-> 0, from |-> from])
  /\ pc' = "enter"

Current == calls[Len(calls)]

\* Where the caller goes on.
Continuation(from) ==
  CASE from = "run"     -> "empty"
    [] from = "wait"    -> "top"
    [] from = "handler" -> "handle"
    [] from = "user"    -> "stopped"

Return ==
  /\ pc' = Continuation(Current.from)
  /\ calls' = SubSeq(calls, 1, Len(calls) - 1)

\* Deviation: what is left goes behind the events queued since.
BypassToEnd ==
  /\ pc = "enter"
  /\ IF activeEventQueue # <<>> /\ activeKind = "normal" /\ priorityEventQueue # <<>>
       THEN /\ eventQueue' = eventQueue \o activeEventQueue
            /\ activeEventQueue' = priorityEventQueue
            /\ priorityEventQueue' = <<>>
            /\ activeKind' = "priority"
       ELSE UNCHANGED queues
  /\ pc' = "while"
  /\ UNCHANGED <<exitLoop, wake, calls, todo, history>>

\* Priority events bypass what is left of the last batch of normal events.
Bypass ==
  /\ pc = "enter"
  /\ IF activeEventQueue # <<>> /\ activeKind = "normal" /\ priorityEventQueue # <<>>
       THEN /\ eventQueue' = activeEventQueue \o eventQueue
            /\ activeEventQueue' = priorityEventQueue
            /\ priorityEventQueue' = <<>>
            /\ activeKind' = "priority"
       ELSE UNCHANGED queues
  /\ pc' = "while"
  /\ UNCHANGED <<exitLoop, wake, calls, todo, history>>

\* The next batch, unless there still is one or the loop shall end.
NextBatch ==
  /\ pc = "while"
  /\ UNCHANGED <<exitLoop, wake, todo, history>>
  /\ \/ /\ exitLoop
        /\ Return
        /\ UNCHANGED queues
     \/ /\ ~exitLoop
        /\ pc' = "fetch"
        /\ UNCHANGED calls
        /\ \/ /\ activeEventQueue # <<>> \/ EventQueueEmpty
              /\ UNCHANGED queues
           \/ /\ activeEventQueue = <<>> /\ priorityEventQueue # <<>>
              /\ activeEventQueue' = priorityEventQueue
              /\ priorityEventQueue' = <<>>
              /\ activeKind' = "priority"
              /\ UNCHANGED eventQueue
           \/ /\ activeEventQueue = <<>> /\ priorityEventQueue = <<>>
              /\ eventQueue # <<>>
              /\ activeEventQueue' = eventQueue
              /\ eventQueue' = <<>>
              /\ activeKind' = "normal"
              /\ UNCHANGED priorityEventQueue

\* Send the next event of the batch, or return.
Send ==
  /\ pc = "fetch"
  /\ UNCHANGED <<exitLoop, wake, todo, added, silent>>
  /\ \/ /\ exitLoop \/ activeEventQueue = <<>>
        /\ Return
        /\ UNCHANGED <<queues, delivered, batch>>
     \/ /\ ~exitLoop /\ activeEventQueue # <<>>
        /\ activeEventQueue' = Tail(activeEventQueue)
        /\ delivered' = [delivered EXCEPT ![activeKind] = Append(@, Head(activeEventQueue))]
        /\ calls' = [calls EXCEPT ![Len(calls)].count = @ + 1]
        /\ batch' = IF Current.from \in {"run", "wait"} THEN batch + 1 ELSE batch
        /\ pc' = "handle"
        /\ UNCHANGED <<eventQueue, priorityEventQueue, activeKind>>

\* Deviation: one event more than allowed.
HandledBeyond ==
  /\ pc = "handle"
  /\ \/ /\ Current.max # 0 /\ Current.count > Current.max
        /\ Return
     \/ /\ Current.max = 0 \/ Current.count <= Current.max
        /\ pc' = "while" /\ UNCHANGED calls
  /\ UNCHANGED <<queues, exitLoop, wake, todo, history>>

\* The handlers of the event have returned.
Handled ==
  /\ pc = "handle"
  /\ \/ /\ Current.max # 0 /\ Current.count >= Current.max
        /\ Return
     \/ /\ Current.max = 0 \/ Current.count < Current.max
        /\ pc' = "while" /\ UNCHANGED calls
  /\ UNCHANGED <<queues, exitLoop, wake, todo, history>>

\* A handler commits an event.
HandlerCommits(k) ==
  /\ pc = "handle"
  /\ OnQueueEvent(k)
  /\ wake' = TRUE
  /\ UNCHANGED <<exitLoop, pc, calls, todo, silent>>

\* A handler calls exit().
HandlerExits ==
  /\ pc = "handle"
  /\ exitLoop' = TRUE
  /\ wake' = TRUE
  /\ UNCHANGED <<queues, pc, calls, todo, history>>

\* A handler calls processEvents().
HandlerProcesses ==
  /\ pc = "handle" /\ Len(calls) < MaxDepth
  /\ Call(0, "handler")
  /\ UNCHANGED <<queues, exitLoop, wake, todo, history>>

\* A handler throws: out of processEvents() into the handler that called it,
\* or out of run().
HandlerThrows ==
  /\ pc = "handle"
  /\ calls' = SubSeq(calls, 1, Len(calls) - 1)
  /\ pc' = IF Current.from = "handler" THEN "handle" ELSE "stopped"
  /\ UNCHANGED <<queues, exitLoop, wake, todo, history>>

-----------------------------------------------------------------------------
(* onRun and onWaitUntil.                                                  *)

\* run().
Run ==
  /\ pc = "stopped"
  /\ pc' = "top"
  /\ batch' = 0
  /\ UNCHANGED <<queues, exitLoop, wake, calls, todo, added, delivered, silent>>

\* processEvents() outside of run().
UserProcesses ==
  /\ pc = "stopped"
  /\ Call(0, "user")
  /\ UNCHANGED <<queues, exitLoop, wake, todo, history>>

\* The top of the loop, with the mutex.
LoopTop ==
  /\ pc = "top"
  /\ UNCHANGED <<queues, wake, todo, history>>
  /\ \/ /\ exitLoop
        /\ exitLoop' = FALSE /\ pc' = "stopped" /\ UNCHANGED calls
     \/ /\ ~exitLoop /\ EventQueueEmpty
        /\ pc' = "poll" /\ UNCHANGED <<exitLoop, calls>>
     \/ /\ ~exitLoop /\ ~EventQueueEmpty
        /\ Call(EventsPerLoop, "run") /\ UNCHANGED exitLoop

\* Deviation: what was known before processEvents() is good enough.
LookNoMore ==
  /\ pc = "empty"
  /\ pc' = "poll"
  /\ UNCHANGED <<queues, exitLoop, wake, calls, todo, history>>

\* Is there more to do?  Read without the mutex.
LookAgain ==
  /\ pc = "empty"
  /\ pc' = IF EventQueueEmpty THEN "poll" ELSE "pollnow"
  /\ UNCHANGED <<queues, exitLoop, wake, calls, todo, history>>

\* The selector's poll: it returns because of the pipe, which is read, or
\* because of a device ...
PollReady ==
  /\ pc \in {"poll", "pollnow"}
  /\ wake' = FALSE
  /\ pc' = "woken"
  /\ batch' = 0
  /\ UNCHANGED <<queues, exitLoop, calls, todo, added, delivered, silent>>

\* ... or because of the timeout, which is 0 or that of idle loops.
PollTimeout ==
  /\ pc \in {"poll", "pollnow"} /\ ~wake
  /\ pc' = "top"
  /\ batch' = 0
  /\ UNCHANGED <<queues, exitLoop, wake, calls, todo, added, delivered, silent>>

\* onWaitUntil() after the selector reported activity.
Woken ==
  /\ pc = "woken"
  /\ \/ /\ EventQueueEmpty
        /\ pc' = "top" /\ UNCHANGED calls
     \/ /\ ~EventQueueEmpty
        /\ Call(EventsPerLoop, "wait")
  /\ UNCHANGED <<queues, exitLoop, wake, todo, history>>

-----------------------------------------------------------------------------

Init ==
  /\ eventQueue = <<>> /\ priorityEventQueue = <<>> /\ activeEventQueue = <<>>
  /\ activeKind \in Kinds  \* not initialized
  /\ exitLoop = FALSE
  /\ wake = FALSE
  /\ pc = "stopped"
  /\ calls = <<>>
  /\ todo = [t \in Threads |-> {}]
  /\ added = [k \in Kinds |-> <<>>]
  /\ delivered = [k \in Kinds |-> <<>>]
  /\ silent = {}
  /\ batch = 0

\* What the loop's thread does by itself once run() was called.
Step ==
  \/ Bypass \/ NextBatch \/ Send \/ Handled
  \/ LoopTop \/ LookAgain \/ Woken
  \/ (wake \/ pc = "pollnow") /\ PollReady
  \/ pc = "pollnow" /\ PollTimeout

\* What depends on handlers, on devices and on the user.
Other ==
  \/ \E k \in Kinds : HandlerCommits(k)
  \/ HandlerExits \/ HandlerProcesses \/ HandlerThrows
  \/ PollReady \/ PollTimeout
  \/ Run \/ UserProcesses

Next ==
  \/ Step \/ Other
  \/ \E t \in Threads : \/ \E k \in Kinds : QueueEvent(t, k) \/ CommitEvent(t, k)
                        \/ Exit(t) \/ Wake(t)

\* A thread that runs goes on; a handler returns after finitely many calls of
\* processEvents().
Fairness ==
  /\ WF_vars(Step) /\ SF_vars(Handled)
  /\ \A t \in Threads : WF_vars(Wake(t))

Spec == Init /\ [][Next]_vars /\ Fairness

-----------------------------------------------------------------------------
(* Properties.                                                             *)

TypeOK ==
  /\ eventQueue \in Seq(Nat) /\ priorityEventQueue \in Seq(Nat) /\ activeEventQueue \in Seq(Nat)
  /\ activeKind \in Kinds /\ exitLoop \in BOOLEAN /\ wake \in BOOLEAN
  /\ pc \in {"stopped", "top", "enter", "while", "fetch", "handle", "empty", "poll",
             "pollnow", "woken"}
  /\ calls \in Seq([max : Nat, count : Nat, from : {"run", "wait", "handler", "user"}])
  /\ calls = <<>> <=> pc \notin {"enter", "while", "fetch", "handle"}
  /\ todo \in [Threads -> SUBSET Nat]
  /\ added \in [Kinds -> Seq(Nat)] /\ delivered \in [Kinds -> Seq(Nat)]
  /\ silent \subseteq Nat /\ batch \in Nat

\* The events of kind k that wait, in the order of their delivery.
Pending(k) ==
  (IF activeKind = k THEN activeEventQueue ELSE <<>>)
    \o (IF k = "priority" THEN priorityEventQueue ELSE eventQueue)

\* Events of the same kind are delivered in the order in which they were
\* queued, each of them once and none left out, also across batches that are
\* bypassed, nested calls of processEvents() and handlers that throw.
OrderKept == \A k \in Kinds : added[k] = delivered[k] \o Pending(k)

\* A priority event is not overtaken by a normal event that was queued later.
NoOvertaking ==
  \A i \in DOMAIN priorityEventQueue :
    activeKind = "normal" =>
      \A j \in DOMAIN activeEventQueue : activeEventQueue[j] < priorityEventQueue[i]

\* The loop does not sleep while a committed event waits: there is a byte in
\* the pipe, or the thread that commits the event is about to write it.
NoSleepWithEvents ==
  pc = "poll" /\ ~wake =>
    \A k \in Kinds : \A e \in Range(Pending(k)) :
      e \in silent \/ \E t \in Threads : e \in todo[t]

\* The same for exit(): it never has to wait for an event to be noticed.
NoSleepAfterExit ==
  pc = "poll" /\ ~wake /\ exitLoop => \E t \in Threads : 0 \in todo[t]

\* Devices are looked at after at most two full batches of events: one after
\* the selector has returned and one at the top of the loop.
DevicesGetTheirTurn == EventsPerLoop # 0 => batch <= 2 * EventsPerLoop

\* A committed event is delivered, unless the loop ends.
CommittedIsDelivered ==
  \A e \in 1..MaxEvents :
    (\E k \in Kinds : e \in Range(Pending(k))) /\ e \notin silent
      ~> (\E k \in Kinds : e \in Range(delivered[k])) \/ pc = "stopped"

\* exit() ends the loop.
ExitEnds == exitLoop ~> pc = "stopped"

\* The order of delivery, of events of one kind and of both.
EventsInOrder == OrderKept /\ NoOvertaking

\* The thread of the loop sleeps only if nothing is to be done, or if it is
\* about to be woken.
SleepsSafely == NoSleepWithEvents /\ NoSleepAfterExit
=============================================================================
