--------------------------- MODULE EventLoopProofs ----------------------------
(***************************************************************************)
(* Theorems about the event loop, for any set of threads, any size of      *)
(* batches and any bound on events and on nested calls.                    *)
(***************************************************************************)
EXTENDS EventLoop, SequenceTheorems, TLAPS

-----------------------------------------------------------------------------
(* Sequences.                                                              *)

LEMMA HeadThenTail ==
  ASSUME NEW S, NEW a \in Seq(S), a # <<>>
  PROVE  a = <<Head(a)>> \o Tail(a)
  <1>1. 1 \in 1..Len(a) /\ Len(a) \in 1..Len(a)
    BY EmptySeq
  <1>2. SubSeq(a, 1, Len(a)) = <<a[1]>> \o SubSeq(a, 2, Len(a))
    BY <1>1, SubSeqRecursiveFirst
  <1>3. SubSeq(a, 1, Len(a)) = a
    BY SubSeqFull
  <1>4. Tail(a) = SubSeq(a, 2, Len(a))
    BY TailIsSubSeq
  <1>5. Head(a) = a[1]
    OBVIOUS
  <1> QED
    BY <1>2, <1>3, <1>4, <1>5

\* The head of a moves from what is pending to what is delivered.
LEMMA MoveHead ==
  \A d, a, q \in Seq(Nat) :
    a # <<>> => Append(d, Head(a)) \o (Tail(a) \o q) = d \o (a \o q)
  <1> DEFINE S == Nat
  <1> TAKE d, a, q \in Seq(S)
  <1> HAVE a # <<>>
  <1> HIDE DEF S
  <1>1. Head(a) \in S /\ Tail(a) \in Seq(S)
    BY HeadTailProperties
  <1>2. <<Head(a)>> \in Seq(S)
    BY <1>1
  <1>3. Append(d, Head(a)) = d \o <<Head(a)>>
    BY <1>1, AppendIsConcat
  <1>4. (d \o <<Head(a)>>) \o (Tail(a) \o q) = d \o ((<<Head(a)>> \o Tail(a)) \o q)
    <2>1. \A h, t \in Seq(S) : (d \o h) \o (t \o q) = d \o ((h \o t) \o q)
      <3> TAKE h, t \in Seq(S)
      <3>1. t \o q \in Seq(S)
        BY ConcatProperties
      <3>a. \A u \in Seq(S) : (d \o h) \o u = d \o (h \o u)
        BY ConcatAssociative, SMTT(60)
      <3>2. (d \o h) \o (t \o q) = d \o (h \o (t \o q))
        BY <3>1, <3>a, Zenon
      <3>3. (h \o t) \o q = h \o (t \o q)
        BY ConcatAssociative
      <3> QED
        BY <3>2, <3>3
    <2> QED
      BY <1>1, <1>2, <2>1, Zenon
  <1>5. <<Head(a)>> \o Tail(a) = a
    BY HeadThenTail
  <1> QED
    BY <1>3, <1>4, <1>5

\* An event that is added at the end of what is pending.
LEMMA AddLast ==
  \A d, a, q \in Seq(Nat), e \in Nat :
    d \o (a \o Append(q, e)) = Append(d \o (a \o q), e)
  <1> DEFINE S == Nat
  <1> TAKE d, a, q \in Seq(S), e \in S
  <1> HIDE DEF S
  <1>1. <<e>> \in Seq(S)
    OBVIOUS
  <1>2. a \o q \in Seq(S) /\ d \o (a \o q) \in Seq(S)
    BY ConcatProperties
  <1>3. Append(q, e) = q \o <<e>> /\ Append(d \o (a \o q), e) = (d \o (a \o q)) \o <<e>>
    BY <1>2, AppendIsConcat
  <1>4. a \o (q \o <<e>>) = (a \o q) \o <<e>>
    BY <1>1, ConcatAssociative
  <1>5. (d \o (a \o q)) \o <<e>> = d \o ((a \o q) \o <<e>>)
    BY <1>1, <1>2, ConcatAssociative
  <1> QED
    BY <1>3, <1>4, <1>5

-----------------------------------------------------------------------------
(* Types.                                                                  *)

Frame == [max : Nat, count : Nat, from : {"run", "wait", "handler", "user"}]

Working == {"enter", "while", "fetch", "handle"}

\* The calls of processEvents() are nested as the places they come from say.
Nested ==
  \A i \in 1..Len(calls) : calls[i].from = "handler" <=> i > 1

LEMMA QueuedIsNat == TypeOK => Queued \in Nat
  <1> SUFFICES ASSUME TypeOK PROVE Queued \in Nat
    OBVIOUS
  <1>1. added["priority"] \in Seq(Nat) /\ added["normal"] \in Seq(Nat)
    BY DEF TypeOK, Kinds
  <1>2. Len(added["priority"]) \in Nat /\ Len(added["normal"]) \in Nat
    BY <1>1, LenProperties
  <1>3. \A m, n \in Nat : m + n \in Nat
    OBVIOUS
  <1> QED
    BY <1>2, <1>3, Zenon DEF Queued

LEMMA CallType ==
  ASSUME TypeOK, NEW max \in Nat, NEW from \in {"run", "wait", "handler", "user"},
         Call(max, from)
  PROVE  /\ calls' \in Seq(Frame) /\ pc' = "enter" /\ calls' # <<>>
         /\ Len(calls') = Len(calls) + 1
         /\ \A i \in 1..Len(calls) : calls'[i] = calls[i]
         /\ calls'[Len(calls) + 1].from = from
  <1> DEFINE f == [max |-> max, count |-> 0, from |-> from]
  <1>1. f \in Frame /\ f.from = from
    BY QueuedIsNat DEF Frame
  <1>2. calls \in Seq(Frame)
    BY DEF TypeOK, Frame
  <1>3. calls' = Append(calls, f) /\ pc' = "enter"
    BY DEF Call
  <1> HIDE DEF f
  <1> QED
    BY <1>1, <1>2, <1>3, AppendProperties

LEMMA CurrentType ==
  ASSUME TypeOK, calls # <<>>
  PROVE  /\ Len(calls) \in Nat \ {0} /\ Len(calls) \in 1..Len(calls)
         /\ Current \in Frame
  <1>1. calls \in Seq(Frame)
    BY DEF TypeOK, Frame
  <1>2. Len(calls) \in Nat \ {0}
    BY <1>1, EmptySeq
  <1> QED
    BY <1>1, <1>2, ElementOfSeq DEF Current

\* One call less.
LEMMA PopType ==
  ASSUME TypeOK, calls # <<>>, calls' = SubSeq(calls, 1, Len(calls) - 1)
  PROVE  /\ calls' \in Seq(Frame) /\ Len(calls') = Len(calls) - 1
         /\ \A i \in 1..Len(calls') : calls'[i] = calls[i]
  <1>1. calls \in Seq(Frame)
    BY DEF TypeOK, Frame
  <1>2. Len(calls) \in Nat \ {0}
    BY CurrentType
  <1>3. \A i \in 1..(Len(calls) - 1) : calls[i] \in Frame
    BY <1>1, <1>2, ElementOfSeq
  <1> DEFINE n == Len(calls) - 1
  <1>4. n \in Int /\ n \in Nat
    BY <1>2
  <1>5. /\ SubSeq(calls, 1, n) \in Seq(Frame)
        /\ Len(SubSeq(calls, 1, n)) = IF 1 <= n THEN n - 1 + 1 ELSE 0
        /\ \A i \in 1..(n - 1 + 1) : SubSeq(calls, 1, n)[i] = calls[1 + i - 1]
    <2> HIDE DEF n
    <2>1. \A i \in 1..n : calls[i] \in Frame
      BY <1>3 DEF n
    <2> QED
      BY <1>4, <2>1, SubSeqProperties
  <1>6. calls' = SubSeq(calls, 1, n)
    OBVIOUS
  <1>7. (IF 1 <= n THEN n - 1 + 1 ELSE 0) = n /\ n - 1 + 1 = n
    <2> HIDE DEF n
    <2> QED
      BY <1>4
  <1> HIDE DEF n
  <1>8. Len(calls') = n
    BY <1>5, <1>6, <1>7
  <1>9. \A i \in 1..n : calls'[i] = calls[i]
    BY <1>4, <1>5, <1>6, <1>7
  <1> QED
    BY <1>5, <1>6, <1>8, <1>9 DEF n

\* One event more in the innermost call.
LEMMA CountType ==
  ASSUME TypeOK, calls # <<>>, calls' = [calls EXCEPT ![Len(calls)].count = @ + 1]
  PROVE  /\ calls' \in Seq(Frame) /\ Len(calls') = Len(calls)
         /\ \A i \in 1..Len(calls) : calls'[i].from = calls[i].from
  <1>1. calls \in Seq(Frame)
    BY DEF TypeOK, Frame
  <1>2. Len(calls) \in 1..Len(calls) /\ calls[Len(calls)] \in Frame
    BY CurrentType DEF Current
  <1> DEFINE f == [calls[Len(calls)] EXCEPT !.count = @ + 1]
  <1>3. f \in Frame /\ f.from = calls[Len(calls)].from
    BY <1>2 DEF Frame
  <1>4. calls' = [calls EXCEPT ![Len(calls)] = f]
    OBVIOUS
  <1> HIDE DEF f
  <1>5. /\ calls' \in Seq(Frame) /\ Len(calls') = Len(calls)
        /\ \A j \in 1..Len(calls) : calls'[j] = IF j = Len(calls) THEN f ELSE calls[j]
    BY <1>1, <1>2, <1>3, <1>4, ExceptSeq
  <1> QED
    BY <1>3, <1>5

\* A call that ends.
LEMMA ReturnType ==
  ASSUME TypeOK, Nested, calls # <<>>, Return
  PROVE  /\ calls' \in Seq(Frame)
         /\ Nested'
         /\ pc' \in {"empty", "top", "handle", "stopped"}
         /\ calls' = <<>> <=> pc' # "handle"
         /\ Len(calls) > 1 => pc' = "handle" /\ calls'[1] = calls[1] /\ calls' # <<>>
         /\ Len(calls) = 1 => pc' = Continuation(calls[1].from)
  <1>1. /\ calls' \in Seq(Frame) /\ Len(calls') = Len(calls) - 1
        /\ \A i \in 1..Len(calls') : calls'[i] = calls[i]
    BY PopType DEF Return
  <1>2. /\ Len(calls) \in Nat \ {0} /\ Len(calls) \in 1..Len(calls)
        /\ Current \in Frame
    BY CurrentType
  <1>3. Nested'
    BY <1>1, <1>2 DEF Nested
  <1>4. calls' = <<>> <=> Len(calls) = 1
    BY <1>1, <1>2, EmptySeq
  <1>5. Current.from = "handler" <=> Len(calls) > 1
    BY <1>2 DEF Nested, Current
  <1>6. pc' = Continuation(Current.from)
    BY DEF Return
  <1>7. Current.from \in {"run", "wait", "handler", "user"}
    BY <1>2 DEF Frame
  <1>8. pc' \in {"empty", "top", "handle", "stopped"} /\ (pc' = "handle" <=> Len(calls) > 1)
    BY <1>5, <1>6, <1>7 DEF Continuation
  <1>9. Len(calls) > 1 => calls'[1] = calls[1]
    BY <1>1, <1>2
  <1> QED
    BY <1>1, <1>2, <1>3, <1>4, <1>6, <1>8, <1>9 DEF Current

\* A call that begins.
LEMMA CallNested ==
  ASSUME TypeOK, Nested, NEW max \in Nat, NEW from \in {"run", "wait", "handler", "user"},
         Call(max, from), from = "handler" <=> calls # <<>>
  PROVE  /\ Nested'
         /\ calls # <<>> => calls'[1] = calls[1]
         /\ calls = <<>> => calls'[1].from = from
  <1>1. /\ calls' \in Seq(Frame) /\ Len(calls') = Len(calls) + 1
        /\ \A i \in 1..Len(calls) : calls'[i] = calls[i]
        /\ calls'[Len(calls) + 1].from = from
    BY CallType
  <1>2. calls \in Seq(Frame)
    BY DEF TypeOK, Frame
  <1>3. Len(calls) \in Nat /\ (calls # <<>> <=> Len(calls) > 0)
    BY <1>2, EmptySeq, LenProperties
  <1> QED
    BY <1>1, <1>3 DEF Nested

-----------------------------------------------------------------------------
(* The type invariant.                                                     *)

LEMMA InitType == Init => TypeOK /\ Nested
  <1> SUFFICES ASSUME Init PROVE TypeOK /\ Nested
    OBVIOUS
  <1>1. <<>> \in Seq(Nat) /\ <<>> \in Seq(Frame) /\ Len(calls) = 0
    BY DEF Init
  <1>2. Nested
    BY <1>1 DEF Nested
  <1>3. calls \in Seq(Frame) /\ (calls = <<>> <=> pc \notin Working)
    BY <1>1 DEF Init, Working
  <1>4. /\ todo \in [Threads -> SUBSET Nat]
        /\ added \in [Kinds -> Seq(Nat)] /\ delivered \in [Kinds -> Seq(Nat)]
    BY <1>1, Zenon DEF Init
  <1>5. /\ eventQueue \in Seq(Nat) /\ priorityEventQueue \in Seq(Nat)
        /\ activeEventQueue \in Seq(Nat)
    BY <1>1 DEF Init
  <1> QED
    BY <1>2, <1>3, <1>4, <1>5 DEF Init, TypeOK, Frame, Working

LEMMA QueueEventType ==
  ASSUME TypeOK, NEW k \in Kinds, OnQueueEvent(k)
  PROVE  /\ eventQueue' \in Seq(Nat) /\ priorityEventQueue' \in Seq(Nat)
         /\ added' \in [Kinds -> Seq(Nat)] /\ Queued + 1 \in Nat
  <1>1. Queued + 1 \in Nat
    BY QueuedIsNat
  <1>2. /\ eventQueue \in Seq(Nat) /\ priorityEventQueue \in Seq(Nat)
        /\ added \in [Kinds -> Seq(Nat)]
    BY DEF TypeOK
  <1> DEFINE e == Queued + 1
  <1>3. e \in Nat
    BY <1>1
  <1>4. /\ \/ priorityEventQueue' = Append(priorityEventQueue, e) /\ eventQueue' = eventQueue
           \/ priorityEventQueue' = priorityEventQueue /\ eventQueue' = Append(eventQueue, e)
        /\ added' = [added EXCEPT ![k] = Append(added[k], e)]
    BY DEF OnQueueEvent
  <1> HIDE DEF e
  <1>5. /\ Append(priorityEventQueue, e) \in Seq(Nat) /\ Append(eventQueue, e) \in Seq(Nat)
        /\ Append(added[k], e) \in Seq(Nat)
    BY <1>2, <1>3, AppendProperties
  <1> QED
    BY <1>1, <1>2, <1>4, <1>5

LEMMA NextType == TypeOK /\ Nested /\ [Next]_vars => TypeOK' /\ Nested'
  <1> SUFFICES ASSUME TypeOK, Nested, [Next]_vars PROVE TypeOK' /\ Nested'
    OBVIOUS
  <1> USE DEF queues, history
  <1>e. EventsPerLoop \in Nat
    BY LoopAssumption
  <1>1. ASSUME NEW t \in Threads, NEW k \in Kinds, QueueEvent(t, k) PROVE TypeOK' /\ Nested'
    <2>1. /\ eventQueue' \in Seq(Nat) /\ priorityEventQueue' \in Seq(Nat)
          /\ added' \in [Kinds -> Seq(Nat)] /\ Queued + 1 \in Nat
      BY <1>1, QueueEventType DEF QueueEvent
    <2> QED
      BY <1>1, <2>1 DEF QueueEvent, OnQueueEvent, TypeOK, Nested
  <1>2. ASSUME NEW t \in Threads, NEW k \in Kinds, CommitEvent(t, k) PROVE TypeOK' /\ Nested'
    <2>1. /\ eventQueue' \in Seq(Nat) /\ priorityEventQueue' \in Seq(Nat)
          /\ added' \in [Kinds -> Seq(Nat)] /\ Queued + 1 \in Nat
      BY <1>2, QueueEventType DEF CommitEvent
    <2> QED
      BY <1>2, <2>1 DEF CommitEvent, OnQueueEvent, TypeOK, Nested
  <1>3. ASSUME NEW t \in Threads, Exit(t) PROVE TypeOK' /\ Nested'
    BY <1>3 DEF Exit, TypeOK, Nested
  <1>4. ASSUME NEW t \in Threads, Wake(t) PROVE TypeOK' /\ Nested'
    BY <1>4 DEF Wake, TypeOK, Nested
  <1>5. CASE Bypass
    <2>1. activeEventQueue \o eventQueue \in Seq(Nat)
      BY ConcatProperties DEF TypeOK
    <2>2. CASE activeEventQueue # <<>> /\ activeKind = "normal" /\ priorityEventQueue # <<>>
      <3>1. /\ eventQueue' = activeEventQueue \o eventQueue
            /\ activeEventQueue' = priorityEventQueue
            /\ priorityEventQueue' = <<>> /\ activeKind' = "priority" /\ pc' = "while"
            /\ UNCHANGED <<exitLoop, wake, calls, todo, history>>
        BY <1>5, <2>2 DEF Bypass
      <3>2. calls # <<>> /\ <<>> \in Seq(Nat) /\ "priority" \in Kinds
        BY <1>5 DEF Bypass, TypeOK, Kinds
      <3> QED
        BY <2>1, <3>1, <3>2 DEF TypeOK, Nested
    <2>3. CASE UNCHANGED queues
      BY <1>5, <2>3 DEF Bypass, TypeOK, Nested
    <2> QED
      BY <1>5, <2>2, <2>3 DEF Bypass
  <1>6. CASE NextBatch
    <2>1. CASE exitLoop
      <3>1. Return /\ calls # <<>>
        BY <1>6, <2>1 DEF NextBatch, TypeOK
      <3> QED
        BY <1>6, <2>1, <3>1, ReturnType DEF NextBatch, TypeOK, Frame
    <2>2. CASE ~exitLoop
      BY <1>6, <2>2 DEF NextBatch, TypeOK, Nested, Kinds
    <2> QED
      BY <2>1, <2>2
  <1>7. CASE Send
    <2>0. calls # <<>>
      BY <1>7 DEF Send, TypeOK
    <2>1. CASE exitLoop \/ activeEventQueue = <<>>
      <3>1. Return
        BY <1>7, <2>1 DEF Send
      <3> QED
        BY <1>7, <2>0, <2>1, <3>1, ReturnType DEF Send, TypeOK, Frame
    <2>2. CASE ~exitLoop /\ activeEventQueue # <<>>
      <3>1. Head(activeEventQueue) \in Nat /\ Tail(activeEventQueue) \in Seq(Nat)
        BY <2>2, HeadTailProperties DEF TypeOK
      <3>2. delivered[activeKind] \in Seq(Nat)
        BY DEF TypeOK
      <3>3. Append(delivered[activeKind], Head(activeEventQueue)) \in Seq(Nat)
        BY <3>1, <3>2, AppendProperties
      <3>4. calls' = [calls EXCEPT ![Len(calls)].count = @ + 1]
        BY <1>7, <2>2 DEF Send
      <3>5. /\ calls' \in Seq(Frame) /\ Len(calls') = Len(calls)
            /\ \A i \in 1..Len(calls) : calls'[i].from = calls[i].from
        BY <2>0, <3>4, CountType
      <3>6. calls' # <<>>
        BY <2>0, <3>5, CurrentType, EmptySeq
      <3>7. Nested'
        BY <3>5 DEF Nested
      <3>8. /\ activeEventQueue' = Tail(activeEventQueue)
            /\ delivered' = [delivered EXCEPT ![activeKind] =
                               Append(delivered[activeKind], Head(activeEventQueue))]
            /\ batch' \in {batch, batch + 1} /\ pc' = "handle"
            /\ UNCHANGED <<eventQueue, priorityEventQueue, activeKind, exitLoop, wake, todo,
                           added, silent>>
        BY <1>7, <2>2 DEF Send
      <3>9. delivered' \in [Kinds -> Seq(Nat)] /\ batch' \in Nat
        BY <3>3, <3>8 DEF TypeOK
      <3> QED
        BY <3>1, <3>5, <3>6, <3>7, <3>8, <3>9 DEF TypeOK, Frame
    <2> QED
      BY <2>1, <2>2
  <1>8. CASE Handled
    <2>0. calls # <<>>
      BY <1>8 DEF Handled, TypeOK
    <2>1. CASE Return
      BY <1>8, <2>0, <2>1, ReturnType DEF Handled, TypeOK, Frame
    <2>2. CASE pc' = "while" /\ UNCHANGED calls
      BY <1>8, <2>0, <2>2 DEF Handled, TypeOK, Nested
    <2> QED
      BY <1>8, <2>1, <2>2 DEF Handled
  <1>9. ASSUME NEW k \in Kinds, HandlerCommits(k) PROVE TypeOK' /\ Nested'
    <2>1. /\ eventQueue' \in Seq(Nat) /\ priorityEventQueue' \in Seq(Nat)
          /\ added' \in [Kinds -> Seq(Nat)] /\ Queued + 1 \in Nat
      BY <1>9, QueueEventType DEF HandlerCommits
    <2> QED
      BY <1>9, <2>1 DEF HandlerCommits, OnQueueEvent, TypeOK, Nested
  <1>10. CASE HandlerExits
    BY <1>10 DEF HandlerExits, TypeOK, Nested
  <1>11. CASE HandlerProcesses
    <2>1. Call(0, "handler") /\ calls # <<>>
      BY <1>11 DEF HandlerProcesses, TypeOK
    <2> QED
      BY <1>11, <2>1, CallType, CallNested DEF HandlerProcesses, TypeOK, Frame
  <1>12. CASE HandlerThrows
    <2>0. calls # <<>> /\ calls' = SubSeq(calls, 1, Len(calls) - 1)
      BY <1>12 DEF HandlerThrows, TypeOK
    <2>1. /\ calls' \in Seq(Frame) /\ Len(calls') = Len(calls) - 1
          /\ \A i \in 1..Len(calls') : calls'[i] = calls[i]
      BY <2>0, PopType
    <2>2. Len(calls) \in Nat \ {0} /\ Len(calls) \in 1..Len(calls)
      BY <2>0, CurrentType
    <2>3. calls' = <<>> <=> Len(calls) = 1
      BY <2>1, <2>2, EmptySeq
    <2>4. Current.from = "handler" <=> Len(calls) > 1
      BY <2>2 DEF Nested, Current
    <2>5. Nested'
      BY <2>1, <2>2 DEF Nested
    <2>6. pc' = IF Current.from = "handler" THEN "handle" ELSE "stopped"
      BY <1>12 DEF HandlerThrows
    <2>7. pc' \in {"handle", "stopped"} /\ (calls' = <<>> <=> pc' # "handle")
      <3>0. \A n \in Nat \ {0} : (n = 1 \/ n > 1) /\ ~(n = 1 /\ n > 1)
        OBVIOUS
      <3>1. CASE Len(calls) = 1
        <4>1. Current.from # "handler" /\ calls' = <<>>
          BY <2>2, <2>3, <2>4, <3>0, <3>1, Zenon
        <4> QED
          BY <2>6, <4>1, Zenon
      <3>2. CASE Len(calls) > 1
        <4>1. Current.from = "handler" /\ calls' # <<>>
          BY <2>2, <2>3, <2>4, <3>0, <3>2, Zenon
        <4> QED
          BY <2>6, <4>1, Zenon
      <3>3. Len(calls) = 1 \/ Len(calls) > 1
        BY <2>2, <3>0, Zenon
      <3> QED
        BY <3>1, <3>2, <3>3, Zenon
    <2>8. UNCHANGED <<queues, exitLoop, wake, todo, history>>
      BY <1>12 DEF HandlerThrows
    <2> QED
      BY <2>1, <2>5, <2>7, <2>8 DEF TypeOK, Frame
  <1>13. CASE Run
    BY <1>13 DEF Run, TypeOK, Nested
  <1>14. CASE UserProcesses
    <2>1. Call(0, "user") /\ calls = <<>>
      BY <1>14 DEF UserProcesses, TypeOK
    <2> QED
      BY <1>14, <2>1, CallType, CallNested DEF UserProcesses, TypeOK, Frame
  <1>15. CASE LoopTop
    <2>0. calls = <<>>
      BY <1>15 DEF LoopTop, TypeOK
    <2>1. CASE Call(EventsPerLoop, "run") /\ UNCHANGED exitLoop
      BY <1>15, <1>e, <2>0, <2>1, CallType, CallNested DEF LoopTop, TypeOK, Frame
    <2>2. CASE pc' \in {"stopped", "poll"} /\ UNCHANGED calls /\ exitLoop' \in BOOLEAN
      BY <1>15, <2>0, <2>2 DEF LoopTop, TypeOK, Nested
    <2> QED
      BY <1>15, <2>1, <2>2 DEF LoopTop, TypeOK
  <1>16. CASE LookAgain
    BY <1>16 DEF LookAgain, TypeOK, Nested
  <1>17. CASE PollReady
    BY <1>17 DEF PollReady, TypeOK, Nested
  <1>18. CASE PollTimeout
    BY <1>18 DEF PollTimeout, TypeOK, Nested
  <1>19. CASE Woken
    <2>0. calls = <<>>
      BY <1>19 DEF Woken, TypeOK
    <2>1. CASE Call(EventsPerLoop, "wait")
      BY <1>19, <1>e, <2>0, <2>1, CallType, CallNested DEF Woken, TypeOK, Frame
    <2>2. CASE pc' = "top" /\ UNCHANGED calls
      BY <1>19, <2>0, <2>2 DEF Woken, TypeOK, Nested
    <2> QED
      BY <1>19, <2>1, <2>2 DEF Woken
  <1>20. CASE UNCHANGED vars
    BY <1>20 DEF vars, TypeOK, Nested
  <1> QED
    BY <1>1, <1>2, <1>3, <1>4, <1>5, <1>6, <1>7, <1>8, <1>9, <1>10, <1>11, <1>12, <1>13,
       <1>14, <1>15, <1>16, <1>17, <1>18, <1>19, <1>20 DEF Next, Step, Other

\* The state keeps its type; in particular a call of processEvents() is open
\* exactly while the loop's thread is inside of it, whatever handlers do.
THEOREM TypeCorrect == Spec => []TypeOK
  <1>1. Init => TypeOK /\ Nested
    BY InitType
  <1>2. TypeOK /\ Nested /\ [Next]_vars => (TypeOK /\ Nested)'
    BY NextType
  <1> QED
    BY <1>1, <1>2, PTL DEF Spec

-----------------------------------------------------------------------------
(* The order of delivery.                                                  *)

\* The two parts of Pending(k).
Active(k) == IF activeKind = k THEN activeEventQueue ELSE <<>>
Waiting(k) == IF k = "priority" THEN priorityEventQueue ELSE eventQueue

LEMMA PartsType ==
  ASSUME TypeOK, NEW k \in Kinds
  PROVE  /\ Active(k) \in Seq(Nat) /\ Waiting(k) \in Seq(Nat)
         /\ added[k] \in Seq(Nat) /\ delivered[k] \in Seq(Nat)
         /\ Pending(k) = Active(k) \o Waiting(k)
  <1>1. <<>> \in Seq(Nat)
    OBVIOUS
  <1>2. Active(k) \in Seq(Nat)
    BY <1>1 DEF TypeOK, Active
  <1>3. Waiting(k) \in Seq(Nat)
    BY DEF TypeOK, Waiting
  <1>4. added[k] \in Seq(Nat) /\ delivered[k] \in Seq(Nat)
    BY DEF TypeOK
  <1>5. Pending(k) = Active(k) \o Waiting(k)
    BY DEF Pending, Active, Waiting
  <1> QED
    BY <1>2, <1>3, <1>4, <1>5

\* Queueing is the only way into the queues, Send the only way out.
LEMMA WhoMovesEvents ==
  ASSUME [Next]_vars
  PROVE  \/ \E k \in Kinds : OnQueueEvent(k)
         \/ Bypass \/ NextBatch \/ Send
         \/ UNCHANGED <<eventQueue, priorityEventQueue, activeEventQueue, activeKind,
                        added, delivered>>
  <1> USE DEF queues, history
  <1>1. ASSUME NEW t \in Threads, Exit(t) \/ Wake(t)
        PROVE  UNCHANGED <<eventQueue, priorityEventQueue, activeEventQueue, activeKind,
                        added, delivered>>
    BY <1>1 DEF Exit, Wake
  <1>2. ASSUME \/ Handled \/ HandlerExits \/ HandlerProcesses \/ HandlerThrows \/ Run
               \/ UserProcesses \/ LoopTop \/ LookAgain \/ PollReady \/ PollTimeout \/ Woken
               \/ UNCHANGED vars
        PROVE  UNCHANGED <<eventQueue, priorityEventQueue, activeEventQueue, activeKind,
                        added, delivered>>
    BY <1>2 DEF Handled, HandlerExits, HandlerProcesses, HandlerThrows, Run, UserProcesses,
                LoopTop, LookAgain, PollReady, PollTimeout, Woken, vars
  <1>3. ASSUME NEW t \in Threads, NEW k \in Kinds, QueueEvent(t, k) \/ CommitEvent(t, k)
        PROVE  OnQueueEvent(k)
    BY <1>3 DEF QueueEvent, CommitEvent
  <1>4. ASSUME NEW k \in Kinds, HandlerCommits(k)
        PROVE  OnQueueEvent(k)
    BY <1>4 DEF HandlerCommits
  <1> QED
    BY <1>1, <1>2, <1>3, <1>4 DEF Next, Step, Other

\* What OnQueueEvent does, kind by kind.
LEMMA QueueEventMoves ==
  ASSUME TypeOK, NEW k \in Kinds, OnQueueEvent(k)
  PROVE  /\ \A j \in Kinds : Active(j)' = Active(j) /\ delivered'[j] = delivered[j]
         /\ Waiting(k)' = Append(Waiting(k), Queued + 1)
         /\ added'[k] = Append(added[k], Queued + 1)
         /\ \A j \in Kinds \ {k} : Waiting(j)' = Waiting(j) /\ added'[j] = added[j]
  <1> DEFINE e == Queued + 1
  <1>1. /\ \/ /\ k = "priority"
              /\ priorityEventQueue' = Append(priorityEventQueue, e) /\ eventQueue' = eventQueue
           \/ /\ k = "normal"
              /\ priorityEventQueue' = priorityEventQueue /\ eventQueue' = Append(eventQueue, e)
        /\ added' = [added EXCEPT ![k] = Append(added[k], e)]
        /\ UNCHANGED <<activeEventQueue, activeKind, delivered>>
    BY DEF OnQueueEvent
  <1> HIDE DEF e
  <1>2. added'[k] = Append(added[k], e) /\ \A j \in Kinds \ {k} : added'[j] = added[j]
    BY <1>1 DEF TypeOK
  <1>3. \A j \in Kinds : Active(j)' = Active(j) /\ delivered'[j] = delivered[j]
    BY <1>1 DEF Active
  <1>4. Waiting(k)' = Append(Waiting(k), e)
    BY <1>1 DEF Waiting
  <1>5. \A j \in Kinds \ {k} : Waiting(j)' = Waiting(j)
    BY <1>1 DEF Waiting, Kinds
  <1> QED
    BY <1>2, <1>3, <1>4, <1>5 DEF e

\* Making a batch active keeps what waits of each kind, and its order.
LEMMA BatchKeepsPending ==
  ASSUME TypeOK, Bypass \/ NextBatch, NEW k \in Kinds
  PROVE  /\ Active(k)' \o Waiting(k)' = Active(k) \o Waiting(k)
         /\ UNCHANGED <<added, delivered>>
  <1> USE DEF queues, history
  <1>0. UNCHANGED <<added, delivered>>
    BY DEF Bypass, NextBatch
  <1>1. /\ activeEventQueue \in Seq(Nat) /\ eventQueue \in Seq(Nat)
        /\ priorityEventQueue \in Seq(Nat) /\ activeEventQueue \o eventQueue \in Seq(Nat)
    BY ConcatProperties DEF TypeOK
  <1>2. \A s \in Seq(Nat) : s \o <<>> = s /\ <<>> \o s = s
    BY ConcatEmptySeq
  <1>3. CASE UNCHANGED queues
    BY <1>0, <1>3 DEF Active, Waiting
  <1>4. CASE /\ activeEventQueue # <<>> /\ activeKind = "normal"
             /\ eventQueue' = activeEventQueue \o eventQueue
             /\ activeEventQueue' = priorityEventQueue
             /\ priorityEventQueue' = <<>> /\ activeKind' = "priority"
    <2>1. CASE k = "priority"
      <3>1. /\ Active(k) = <<>> /\ Waiting(k) = priorityEventQueue
            /\ Active(k)' = priorityEventQueue /\ Waiting(k)' = <<>>
        BY <1>4, <2>1 DEF Active, Waiting
      <3> QED
        BY <1>0, <1>1, <1>2, <3>1
    <2>2. CASE k = "normal"
      <3>1. /\ Active(k) = activeEventQueue /\ Waiting(k) = eventQueue
            /\ Active(k)' = <<>> /\ Waiting(k)' = activeEventQueue \o eventQueue
        BY <1>4, <2>2 DEF Active, Waiting
      <3> QED
        BY <1>0, <1>1, <1>2, <3>1
    <2> QED
      BY <2>1, <2>2 DEF Kinds
  <1>5. CASE /\ activeEventQueue = <<>> /\ activeEventQueue' = priorityEventQueue
             /\ priorityEventQueue' = <<>> /\ activeKind' = "priority" /\ UNCHANGED eventQueue
    <2>0. Active(k) = <<>>
      BY <1>5 DEF Active
    <2>1. CASE k = "priority"
      <3>1. /\ Waiting(k) = priorityEventQueue
            /\ Active(k)' = priorityEventQueue /\ Waiting(k)' = <<>>
        BY <1>5, <2>1 DEF Active, Waiting
      <3> QED
        BY <1>0, <1>1, <1>2, <2>0, <3>1
    <2>2. CASE k = "normal"
      <3>1. Waiting(k)' = Waiting(k) /\ Active(k)' = <<>>
        BY <1>5, <2>2 DEF Active, Waiting
      <3> QED
        BY <1>0, <2>0, <3>1
    <2> QED
      BY <2>1, <2>2 DEF Kinds
  <1>6. CASE /\ activeEventQueue = <<>> /\ activeEventQueue' = eventQueue
             /\ eventQueue' = <<>> /\ activeKind' = "normal" /\ UNCHANGED priorityEventQueue
    <2>0. Active(k) = <<>>
      BY <1>6 DEF Active
    <2>1. CASE k = "normal"
      <3>1. /\ Waiting(k) = eventQueue
            /\ Active(k)' = eventQueue /\ Waiting(k)' = <<>>
        BY <1>6, <2>1 DEF Active, Waiting
      <3> QED
        BY <1>0, <1>1, <1>2, <2>0, <3>1
    <2>2. CASE k = "priority"
      <3>1. Waiting(k)' = Waiting(k) /\ Active(k)' = <<>>
        BY <1>6, <2>2 DEF Active, Waiting
      <3> QED
        BY <1>0, <2>0, <3>1
    <2> QED
      BY <2>1, <2>2 DEF Kinds
  <1>7. CASE Bypass
    BY <1>3, <1>4, <1>7 DEF Bypass
  <1>8. CASE NextBatch
    BY <1>3, <1>5, <1>6, <1>8 DEF NextBatch
  <1> QED
    BY <1>7, <1>8

\* Sending takes the event that is next of its kind.
LEMMA SendMoves ==
  ASSUME TypeOK, Send, NEW k \in Kinds,
         added[k] = delivered[k] \o (Active(k) \o Waiting(k))
  PROVE  added'[k] = delivered'[k] \o (Active(k)' \o Waiting(k)')
  <1> USE DEF queues, history
  <1>1. CASE UNCHANGED <<queues, delivered, batch>>
    <2>1. UNCHANGED <<added, delivered>> /\ Active(k)' = Active(k) /\ Waiting(k)' = Waiting(k)
      BY <1>1 DEF Send, Active, Waiting
    <2> QED
      BY <2>1
  <1>2. CASE activeEventQueue # <<>> /\ activeEventQueue' = Tail(activeEventQueue)
             /\ delivered' = [delivered EXCEPT ![activeKind] =
                                Append(@, Head(activeEventQueue))]
             /\ UNCHANGED <<eventQueue, priorityEventQueue, activeKind>>
    <2>0. added' = added /\ Waiting(k)' = Waiting(k)
      BY <1>2 DEF Send, Waiting
    <2>1. CASE k = activeKind
      <3>1. /\ Active(k) = activeEventQueue /\ Active(k)' = Tail(activeEventQueue)
            /\ delivered'[k] = Append(delivered[k], Head(activeEventQueue))
        BY <1>2, <2>1 DEF Active, TypeOK
      <3>2. /\ delivered[k] \in Seq(Nat) /\ activeEventQueue \in Seq(Nat)
            /\ Waiting(k) \in Seq(Nat)
        BY PartsType DEF TypeOK
      <3>3. Append(delivered[k], Head(activeEventQueue)) \o (Tail(activeEventQueue) \o Waiting(k))
              = delivered[k] \o (activeEventQueue \o Waiting(k))
        BY <1>2, <3>2, MoveHead, Zenon
      <3> QED
        BY <2>0, <3>1, <3>3
    <2>2. CASE k # activeKind
      <3>1. Active(k)' = Active(k) /\ delivered'[k] = delivered[k]
        BY <1>2, <2>2 DEF Active, TypeOK
      <3> QED
        BY <2>0, <3>1
    <2> QED
      BY <2>1, <2>2
  <1> QED
    BY <1>1, <1>2 DEF Send

LEMMA NextOrder == TypeOK /\ OrderKept /\ [Next]_vars /\ TypeOK' => OrderKept'
  <1> SUFFICES ASSUME TypeOK, OrderKept, [Next]_vars, TypeOK', NEW k \in Kinds
               PROVE  added'[k] = delivered'[k] \o Pending(k)'
    BY DEF OrderKept
  <1>1. /\ Active(k) \in Seq(Nat) /\ Waiting(k) \in Seq(Nat)
        /\ delivered[k] \in Seq(Nat)
        /\ added[k] = delivered[k] \o (Active(k) \o Waiting(k))
    BY PartsType DEF OrderKept
  <1>2. SUFFICES added'[k] = delivered'[k] \o (Active(k)' \o Waiting(k)')
    BY DEF Pending, Active, Waiting
  <1>3. ASSUME NEW j \in Kinds, OnQueueEvent(j)
        PROVE  added'[k] = delivered'[k] \o (Active(k)' \o Waiting(k)')
    <2>1. CASE j = k
      <3>1. /\ Active(k)' = Active(k) /\ delivered'[k] = delivered[k]
            /\ Waiting(k)' = Append(Waiting(k), Queued + 1)
            /\ added'[k] = Append(added[k], Queued + 1)
        BY <1>3, <2>1, QueueEventMoves
      <3> DEFINE e == Queued + 1
      <3>2. e \in Nat
        BY QueuedIsNat
      <3> HIDE DEF e
      <3>3. delivered[k] \o (Active(k) \o Append(Waiting(k), e))
              = Append(delivered[k] \o (Active(k) \o Waiting(k)), e)
        BY <1>1, <3>2, AddLast, Zenon
      <3> QED
        BY <1>1, <3>1, <3>3 DEF e
    <2>2. CASE j # k
      <3>1. /\ Active(k)' = Active(k) /\ delivered'[k] = delivered[k]
            /\ Waiting(k)' = Waiting(k) /\ added'[k] = added[k]
        BY <1>3, <2>2, QueueEventMoves
      <3> QED
        BY <1>1, <3>1
    <2> QED
      BY <2>1, <2>2
  <1>4. CASE Bypass \/ NextBatch
    BY <1>1, <1>4, BatchKeepsPending
  <1>5. CASE Send
    BY <1>1, <1>5, SendMoves
  <1>6. CASE UNCHANGED <<eventQueue, priorityEventQueue, activeEventQueue, activeKind,
                        added, delivered>>
    <2>1. Active(k)' = Active(k) /\ Waiting(k)' = Waiting(k) /\ UNCHANGED <<added, delivered>>
      BY <1>6 DEF Active, Waiting
    <2> QED
      BY <1>1, <2>1
  <1> QED
    BY <1>3, <1>4, <1>5, <1>6, WhoMovesEvents

\* Events of a kind are delivered once each, in the order of queueing, for any
\* number of threads, size of batches and depth of nested processEvents().
THEOREM OrderIsKept == Spec => []OrderKept
  <1>1. Init => TypeOK /\ Nested /\ OrderKept
    <2> SUFFICES ASSUME Init, NEW k \in Kinds PROVE added[k] = delivered[k] \o Pending(k)
      BY InitType DEF OrderKept
    <2>1. added[k] = <<>> /\ delivered[k] = <<>> /\ Active(k) = <<>> /\ Waiting(k) = <<>>
      BY DEF Init, Active, Waiting
    <2>2. <<>> \o <<>> = <<>>
      BY ConcatEmptySeq
    <2> QED
      BY <2>1, <2>2 DEF Pending, Active, Waiting
  <1>2. TypeOK /\ Nested /\ OrderKept /\ [Next]_vars => (TypeOK /\ Nested /\ OrderKept)'
    BY NextType, NextOrder
  <1> QED
    BY <1>1, <1>2, PTL DEF Spec

-----------------------------------------------------------------------------
(* Priority events are not overtaken by later events.                      *)

\* The numbers in q are those of events that were queued.
UpTo(q, n) == \A i \in 1..Len(q) : q[i] <= n

Numbered ==
  UpTo(eventQueue, Queued) /\ UpTo(priorityEventQueue, Queued) /\ UpTo(activeEventQueue, Queued)

LEMMA UpToAppend ==
  ASSUME NEW q \in Seq(Nat), NEW n \in Nat, UpTo(q, n)
  PROVE  UpTo(q, n + 1) /\ UpTo(Append(q, n + 1), n + 1)
  <1>1. \A i \in 1..Len(q) : q[i] \in Nat
    BY ElementOfSeq
  <1>2. UpTo(q, n + 1)
    BY <1>1 DEF UpTo
  <1> DEFINE e == n + 1
  <1>3. e \in Nat
    OBVIOUS
  <1> HIDE DEF e
  <1>4. /\ Len(Append(q, e)) = Len(q) + 1 /\ Append(q, e)[Len(q) + 1] = e
        /\ \A i \in 1..Len(q) : Append(q, e)[i] = q[i]
    BY <1>3, AppendProperties
  <1>5. Len(q) \in Nat
    BY LenProperties
  <1>6. UpTo(Append(q, e), e)
    BY <1>2, <1>3, <1>4, <1>5 DEF UpTo, e
  <1> QED
    BY <1>2, <1>6 DEF e

LEMMA UpToConcat ==
  ASSUME NEW p \in Seq(Nat), NEW q \in Seq(Nat), NEW n \in Nat, UpTo(p, n), UpTo(q, n)
  PROVE  UpTo(p \o q, n)
  <1>1. Len(p) \in Nat /\ Len(q) \in Nat
    BY LenProperties
  <1>2. /\ Len(p \o q) = Len(p) + Len(q)
        /\ \A i \in 1 .. Len(p) + Len(q) :
             (p \o q)[i] = IF i <= Len(p) THEN p[i] ELSE q[i - Len(p)]
    BY ConcatProperties
  <1>3. \A i \in 1 .. Len(p) + Len(q) : i > Len(p) => i - Len(p) \in 1..Len(q)
    BY <1>1
  <1>4. \A i \in 1 .. Len(p) + Len(q) : i <= Len(p) => i \in 1..Len(p)
    BY <1>1
  <1> QED
    BY <1>1, <1>2, <1>3, <1>4 DEF UpTo

LEMMA QueuedGrows ==
  ASSUME TypeOK, NEW k \in Kinds, OnQueueEvent(k)
  PROVE  Queued' = Queued + 1
  <1>1. /\ added'[k] = Append(added[k], Queued + 1)
        /\ \A j \in Kinds \ {k} : added'[j] = added[j]
    BY QueueEventMoves
  <1>2. Len(added["priority"]) \in Nat /\ Len(added["normal"]) \in Nat
    BY LenProperties DEF TypeOK, Kinds
  <1>3. Len(added'[k]) = Len(added[k]) + 1
    <2> DEFINE e == Queued + 1
    <2>1. added[k] \in Seq(Nat) /\ added'[k] = Append(added[k], e)
      BY <1>1 DEF TypeOK
    <2>2. e \in Nat
      BY QueuedIsNat
    <2> HIDE DEF e
    <2> QED
      BY <2>1, <2>2, AppendProperties
  <1>a. \A m, n \in Nat : (m + 1) + n = (m + n) + 1 /\ m + (n + 1) = (m + n) + 1
    OBVIOUS
  <1>4. CASE k = "priority"
    <2>1. Len(added'["priority"]) = Len(added["priority"]) + 1 /\ added'["normal"] = added["normal"]
      BY <1>1, <1>3, <1>4 DEF Kinds
    <2> QED
      BY <1>2, <1>a, <2>1, Zenon DEF Queued
  <1>5. CASE k = "normal"
    <2>1. Len(added'["normal"]) = Len(added["normal"]) + 1 /\ added'["priority"] = added["priority"]
      BY <1>1, <1>3, <1>5 DEF Kinds
    <2> QED
      BY <1>2, <1>a, <2>1, Zenon DEF Queued
  <1> QED
    BY <1>4, <1>5 DEF Kinds

\* NoOvertaking without the domains.
Behind ==
  \A i \in 1..Len(priorityEventQueue), j \in 1..Len(activeEventQueue) :
    activeKind = "normal" => activeEventQueue[j] < priorityEventQueue[i]

LEMMA BehindIsNoOvertaking == TypeOK /\ Behind => NoOvertaking
  <1> SUFFICES ASSUME TypeOK, Behind PROVE NoOvertaking
    OBVIOUS
  <1>1. /\ DOMAIN priorityEventQueue = 1..Len(priorityEventQueue)
        /\ DOMAIN activeEventQueue = 1..Len(activeEventQueue)
    BY DEF TypeOK
  <1> QED
    BY <1>1, Zenon DEF Behind, NoOvertaking

LEMMA NextBehind ==
  TypeOK /\ Numbered /\ Behind /\ [Next]_vars => Numbered' /\ Behind'
  <1> SUFFICES ASSUME TypeOK, Numbered, Behind, [Next]_vars PROVE Numbered' /\ Behind'
    OBVIOUS
  <1> USE DEF queues, history
  <1>0. Queued \in Nat
    BY QueuedIsNat
  <1>t. /\ eventQueue \in Seq(Nat) /\ priorityEventQueue \in Seq(Nat)
        /\ activeEventQueue \in Seq(Nat)
    BY DEF TypeOK
  <1>u. /\ UpTo(eventQueue, Queued) /\ UpTo(priorityEventQueue, Queued)
        /\ UpTo(activeEventQueue, Queued) /\ UpTo(<<>>, Queued)
    BY DEF Numbered, UpTo
  <1>1. ASSUME NEW k \in Kinds, OnQueueEvent(k) PROVE Numbered' /\ Behind'
    <2> DEFINE n == Queued
    <2>1. n \in Nat /\ Queued' = n + 1
      BY <1>0, <1>1, QueuedGrows
    <2>2. /\ \/ /\ priorityEventQueue' = Append(priorityEventQueue, n + 1)
                /\ eventQueue' = eventQueue
             \/ /\ priorityEventQueue' = priorityEventQueue
                /\ eventQueue' = Append(eventQueue, n + 1)
          /\ activeEventQueue' = activeEventQueue /\ activeKind' = activeKind
      BY <1>1 DEF OnQueueEvent
    <2>3. UpTo(eventQueue, n) /\ UpTo(priorityEventQueue, n) /\ UpTo(activeEventQueue, n)
      BY <1>u
    <2> HIDE DEF n
    <2>4. /\ UpTo(eventQueue, n + 1) /\ UpTo(priorityEventQueue, n + 1)
          /\ UpTo(activeEventQueue, n + 1)
          /\ UpTo(Append(eventQueue, n + 1), n + 1)
          /\ UpTo(Append(priorityEventQueue, n + 1), n + 1)
      BY <1>t, <2>1, <2>3, UpToAppend
    <2>5. UpTo(eventQueue', n + 1) /\ UpTo(priorityEventQueue', n + 1) /\ UpTo(activeEventQueue', n + 1)
      BY <2>2, <2>4
    <2>6. Numbered'
      BY <2>1, <2>5 DEF Numbered, UpTo
    <2>7. CASE priorityEventQueue' = priorityEventQueue
      BY <2>2, <2>6, <2>7 DEF Behind
    <2>8. CASE priorityEventQueue' = Append(priorityEventQueue, n + 1)
      <3> DEFINE e == n + 1
      <3>1. e \in Nat /\ priorityEventQueue' = Append(priorityEventQueue, e)
        BY <2>1, <2>8
      <3> HIDE DEF e
      <3>2. /\ Len(priorityEventQueue') = Len(priorityEventQueue) + 1
            /\ priorityEventQueue'[Len(priorityEventQueue) + 1] = e
            /\ \A i \in 1..Len(priorityEventQueue) : priorityEventQueue'[i] = priorityEventQueue[i]
        BY <1>t, <3>1, AppendProperties
      <3>3. Len(priorityEventQueue) \in Nat
        BY <1>t, LenProperties
      <3>4. \A j \in 1..Len(activeEventQueue) : activeEventQueue[j] \in Nat /\ activeEventQueue[j] < e
        <4>1. \A j \in 1..Len(activeEventQueue) : activeEventQueue[j] \in Nat
          BY <1>t, ElementOfSeq
        <4> QED
          BY <2>1, <2>3, <4>1 DEF UpTo, e
      <3> SUFFICES ASSUME NEW i \in 1..Len(priorityEventQueue'), NEW j \in 1..Len(activeEventQueue),
                          activeKind = "normal"
                   PROVE  activeEventQueue[j] < priorityEventQueue'[i]
        BY <2>2, <2>6 DEF Behind
      <3>5. CASE i = Len(priorityEventQueue) + 1
        BY <3>2, <3>4, <3>5
      <3>6. CASE i \in 1..Len(priorityEventQueue)
        BY <3>2, <3>6 DEF Behind
      <3> QED
        BY <3>2, <3>3, <3>5, <3>6
    <2> QED
      BY <2>2, <2>6, <2>7, <2>8
  <1>2. CASE /\ eventQueue' = activeEventQueue \o eventQueue
             /\ activeEventQueue' = priorityEventQueue
             /\ priorityEventQueue' = <<>> /\ UNCHANGED added
    <2>1. Queued' = Queued
      BY <1>2 DEF Queued
    <2>2. UpTo(activeEventQueue \o eventQueue, Queued)
      BY <1>0, <1>t, <1>u, UpToConcat
    <2> QED
      BY <1>2, <1>u, <2>1, <2>2 DEF Numbered, Behind, UpTo
  <1>3. CASE /\ activeEventQueue' = priorityEventQueue
             /\ priorityEventQueue' = <<>> /\ UNCHANGED <<eventQueue, added>>
    <2>1. Queued' = Queued
      BY <1>3 DEF Queued
    <2> QED
      BY <1>3, <1>u, <2>1 DEF Numbered, Behind, UpTo
  <1>4. CASE /\ priorityEventQueue = <<>> /\ activeEventQueue' = eventQueue
             /\ eventQueue' = <<>> /\ UNCHANGED <<priorityEventQueue, added>>
    <2>1. Queued' = Queued
      BY <1>4 DEF Queued
    <2> QED
      BY <1>4, <1>u, <2>1 DEF Numbered, Behind, UpTo
  <1>5. CASE /\ activeEventQueue # <<>> /\ activeEventQueue' = Tail(activeEventQueue)
             /\ UNCHANGED <<eventQueue, priorityEventQueue, activeKind, added>>
    <2>1. Queued' = Queued
      BY <1>5 DEF Queued
    <2>2. /\ Len(activeEventQueue') = Len(activeEventQueue) - 1
          /\ \A i \in 1..Len(activeEventQueue') : activeEventQueue'[i] = activeEventQueue[i + 1]
      BY <1>t, <1>5, HeadTailProperties
    <2>3. Len(activeEventQueue) \in Nat
      BY <1>t, LenProperties
    <2>4. \A i \in 1..Len(activeEventQueue') : i + 1 \in 1..Len(activeEventQueue)
      BY <2>2, <2>3
    <2>5. UpTo(activeEventQueue', Queued)
      BY <1>u, <2>2, <2>4 DEF UpTo
    <2>6. Behind'
      BY <1>5, <2>2, <2>4 DEF Behind
    <2> QED
      BY <1>5, <1>u, <2>1, <2>5, <2>6 DEF Numbered, UpTo
  <1>6. CASE UNCHANGED <<eventQueue, priorityEventQueue, activeEventQueue, activeKind, added>>
    <2>1. Queued' = Queued
      BY <1>6 DEF Queued
    <2> QED
      BY <1>6, <1>u, <2>1 DEF Numbered, Behind, UpTo
  <1>7. CASE Bypass
    BY <1>2, <1>6, <1>7 DEF Bypass
  <1>8. CASE NextBatch
    BY <1>3, <1>4, <1>6, <1>8 DEF NextBatch
  <1>9. CASE Send
    BY <1>5, <1>6, <1>9 DEF Send
  <1>10. CASE UNCHANGED <<eventQueue, priorityEventQueue, activeEventQueue, activeKind,
                        added, delivered>>
    BY <1>6, <1>10
  <1> QED
    BY <1>1, <1>7, <1>8, <1>9, <1>10, WhoMovesEvents

\* Whatever the threads and handlers queue, a normal event that is about to be
\* delivered is older than each priority event that waits behind it.
THEOREM NoneOvertaken == Spec => []NoOvertaking
  <1>1. Init => TypeOK /\ Nested /\ Numbered /\ Behind
    BY InitType DEF Init, Numbered, UpTo, Behind
  <1>2. TypeOK /\ Nested /\ Numbered /\ Behind /\ [Next]_vars
          => (TypeOK /\ Nested /\ Numbered /\ Behind)'
    BY NextType, NextBehind
  <1> QED
    BY <1>1, <1>2, BehindIsNoOvertaking, PTL DEF Spec

-----------------------------------------------------------------------------
(* The loop does not sleep over an event.                                  *)

Covered(e) == e \in silent \/ \E t \in Threads : e \in todo[t]

LEMMA ConcatAppend ==
  \A a, q \in Seq(Nat), e \in Nat : a \o Append(q, e) = Append(a \o q, e)
  <1> DEFINE S == Nat
  <1> TAKE a, q \in Seq(S), e \in S
  <1> HIDE DEF S
  <1>1. <<e>> \in Seq(S) /\ a \o q \in Seq(S)
    BY ConcatProperties
  <1>2. Append(q, e) = q \o <<e>> /\ Append(a \o q, e) = (a \o q) \o <<e>>
    BY <1>1, AppendIsConcat
  <1>3. (a \o q) \o <<e>> = a \o (q \o <<e>>)
    BY <1>1, ConcatAssociative
  <1> QED
    BY <1>2, <1>3

LEMMA RangeAppend ==
  ASSUME NEW q \in Seq(Nat), NEW e \in Nat
  PROVE  Range(Append(q, e)) \subseteq Range(q) \cup {e}
  <1>1. /\ Append(q, e) \in Seq(Nat)
        /\ Len(Append(q, e)) = Len(q) + 1 /\ Append(q, e)[Len(q) + 1] = e
        /\ \A i \in 1..Len(q) : Append(q, e)[i] = q[i]
    BY AppendProperties
  <1>2. Len(q) \in Nat /\ DOMAIN q = 1..Len(q) /\ DOMAIN Append(q, e) = 1..(Len(q) + 1)
    BY <1>1, LenProperties
  <1>3. \A i \in 1..(Len(q) + 1) : i \in 1..Len(q) \/ i = Len(q) + 1
    BY <1>2
  <1>4. ASSUME NEW i \in DOMAIN Append(q, e) PROVE Append(q, e)[i] \in Range(q) \cup {e}
    <2>1. CASE i \in 1..Len(q)
      BY <1>1, <1>2, <2>1 DEF Range
    <2>2. CASE i = Len(q) + 1
      BY <1>1, <2>2
    <2> QED
      BY <1>2, <1>3, <2>1, <2>2
  <1> QED
    BY <1>4 DEF Range

\* Queueing an event adds nothing else to what is pending.
LEMMA PendingGrows ==
  ASSUME TypeOK, NEW j \in Kinds, OnQueueEvent(j), NEW k \in Kinds
  PROVE  Range(Pending(k)') \subseteq Range(Pending(k)) \cup {Queued + 1}
  <1> DEFINE e == Queued + 1
  <1>1. /\ Active(k) \in Seq(Nat) /\ Waiting(k) \in Seq(Nat)
        /\ Pending(k) = Active(k) \o Waiting(k)
    BY PartsType
  <1>2. Pending(k)' = Active(k)' \o Waiting(k)'
    BY DEF Pending, Active, Waiting
  <1>3. e \in Nat
    BY QueuedIsNat
  <1>4. Active(k)' = Active(k) /\ Waiting(k)' \in {Waiting(k), Append(Waiting(k), e)}
    <2>1. CASE j = k
      BY <2>1, QueueEventMoves
    <2>2. CASE j # k
      BY <2>2, QueueEventMoves
    <2> QED
      BY <2>1, <2>2
  <1> HIDE DEF e
  <1>5. Pending(k) \in Seq(Nat)
    BY <1>1, ConcatProperties
  <1>6. Active(k) \o Append(Waiting(k), e) = Append(Active(k) \o Waiting(k), e)
    BY <1>1, <1>3, ConcatAppend, Zenon
  <1>7. Pending(k)' \in {Pending(k), Append(Pending(k), e)}
    BY <1>1, <1>2, <1>4, <1>6
  <1>8. Range(Append(Pending(k), e)) \subseteq Range(Pending(k)) \cup {e}
    BY <1>3, <1>5, RangeAppend
  <1>9. Range(Pending(k)') \subseteq Range(Pending(k)) \cup {e}
    BY <1>7, <1>8
  <1> QED
    BY <1>9 DEF e

\* How the loop comes to sleep, or goes on sleeping.
LEMMA WhoSleeps ==
  ASSUME TypeOK, Nested, [Next]_vars, pc' = "poll", ~wake'
  PROVE  \/ EventQueueEmpty /\ UNCHANGED <<eventQueue, priorityEventQueue, activeEventQueue>>
         \/ /\ pc = "poll" /\ ~wake
            /\ \/ \E t \in Threads, k \in Kinds : QueueEvent(t, k) \/ CommitEvent(t, k)
               \/ \E t \in Threads : Exit(t)
               \/ UNCHANGED vars
  <1> USE DEF queues, history
  <1>1. ASSUME Return, calls # <<>> PROVE FALSE
    BY <1>1, ReturnType
  <1>2. ASSUME NextBatch \/ Send \/ Handled PROVE FALSE
    <2>1. calls # <<>>
      BY <1>2 DEF NextBatch, Send, Handled, TypeOK
    <2> QED
      BY <1>1, <1>2, <2>1 DEF NextBatch, Send, Handled
  <1>3. ASSUME HandlerThrows PROVE FALSE
    BY <1>3 DEF HandlerThrows
  <1>4. ASSUME \/ Bypass \/ HandlerExits \/ HandlerProcesses \/ Run \/ UserProcesses
               \/ PollReady \/ PollTimeout \/ Woken \/ \E k \in Kinds : HandlerCommits(k)
        PROVE  FALSE
    BY <1>4 DEF Bypass, HandlerExits, HandlerProcesses, Run, UserProcesses, PollReady,
                PollTimeout, Woken, HandlerCommits, Call
  <1>5. ASSUME LoopTop \/ LookAgain
        PROVE  EventQueueEmpty /\ UNCHANGED <<eventQueue, priorityEventQueue, activeEventQueue>>
    BY <1>5 DEF LoopTop, LookAgain, Call
  <1>6. ASSUME NEW t \in Threads, Wake(t) PROVE FALSE
    BY <1>6 DEF Wake
  <1>7. ASSUME NEW t \in Threads, NEW k \in Kinds, QueueEvent(t, k) \/ CommitEvent(t, k)
        PROVE  pc = "poll" /\ ~wake
    BY <1>7 DEF QueueEvent, CommitEvent
  <1>8. ASSUME NEW t \in Threads, Exit(t) PROVE pc = "poll" /\ ~wake
    BY <1>8 DEF Exit
  <1>9. ASSUME UNCHANGED vars PROVE pc = "poll" /\ ~wake
    BY <1>9 DEF vars
  <1> QED
    BY <1>2, <1>3, <1>4, <1>5, <1>6, <1>7, <1>8, <1>9 DEF Next, Step, Other

LEMMA NextSleep ==
  TypeOK /\ Nested /\ NoSleepWithEvents /\ [Next]_vars => NoSleepWithEvents'
  <1> SUFFICES ASSUME TypeOK, Nested, NoSleepWithEvents, [Next]_vars, pc' = "poll", ~wake',
                      NEW k \in Kinds, NEW e \in Range(Pending(k)')
               PROVE  Covered(e)'
    BY DEF NoSleepWithEvents, Covered
  <1> USE DEF queues, history
  <1>1. CASE EventQueueEmpty /\ UNCHANGED <<eventQueue, priorityEventQueue, activeEventQueue>>
    <2>1. EventQueueEmpty'
      BY <1>1 DEF EventQueueEmpty
    <2>2. Pending(k)' = <<>> \o <<>>
      BY <2>1 DEF Pending, EventQueueEmpty
    <2>3. <<>> \o <<>> = <<>>
      BY ConcatEmptySeq
    <2> QED
      BY <2>2, <2>3 DEF Range
  <1>2. CASE pc = "poll" /\ ~wake
    <2>0. \A x \in Range(Pending(k)) : Covered(x)
      BY <1>2 DEF NoSleepWithEvents, Covered
    <2>1. ASSUME NEW t \in Threads, NEW j \in Kinds, QueueEvent(t, j) PROVE Covered(e)'
      <3>1. e \in Range(Pending(k)) \/ e = Queued + 1
        BY <2>1, PendingGrows DEF QueueEvent
      <3>2. silent' = silent \cup {Queued + 1} /\ todo' = todo
        BY <2>1 DEF QueueEvent
      <3> QED
        BY <2>0, <3>1, <3>2 DEF Covered
    <2>2. ASSUME NEW t \in Threads, NEW j \in Kinds, CommitEvent(t, j) PROVE Covered(e)'
      <3>1. e \in Range(Pending(k)) \/ e = Queued + 1
        BY <2>2, PendingGrows DEF CommitEvent
      <3>2. silent' = silent /\ todo[t] = {} /\ todo' = [todo EXCEPT ![t] = {Queued + 1}]
        BY <2>2 DEF CommitEvent
      <3>3. /\ Queued + 1 \in todo'[t]
            /\ \A u \in Threads : \A x \in todo[u] : x \in todo'[u]
        BY <3>2 DEF TypeOK
      <3> QED
        BY <2>0, <3>1, <3>2, <3>3, Zenon DEF Covered
    <2>3. ASSUME NEW t \in Threads, Exit(t) PROVE Covered(e)'
      <3>1. Pending(k)' = Pending(k)
        BY <2>3 DEF Exit, Pending
      <3>2. silent' = silent /\ todo[t] = {} /\ todo' = [todo EXCEPT ![t] = {0}]
        BY <2>3 DEF Exit
      <3>3. \A u \in Threads : \A x \in todo[u] : x \in todo'[u]
        BY <3>2 DEF TypeOK
      <3> QED
        BY <2>0, <3>1, <3>2, <3>3, Zenon DEF Covered
    <2>4. CASE UNCHANGED vars
      <3>1. Pending(k)' = Pending(k) /\ silent' = silent /\ todo' = todo
        BY <2>4 DEF vars, Pending
      <3> QED
        BY <2>0, <3>1 DEF Covered
    <2>5. \/ EventQueueEmpty /\ UNCHANGED <<eventQueue, priorityEventQueue, activeEventQueue>>
          \/ \E t \in Threads, j \in Kinds : QueueEvent(t, j) \/ CommitEvent(t, j)
          \/ \E t \in Threads : Exit(t)
          \/ UNCHANGED vars
      BY WhoSleeps
    <2> QED
      BY <1>1, <2>1, <2>2, <2>3, <2>4, <2>5
  <1> QED
    BY <1>1, <1>2, WhoSleeps

\* No committed event is slept over, although the loop looks at its queues and
\* goes to sleep in two steps and commitEvent() wakes it after it has let the
\* mutex go.
THEOREM NeverSleepsOver == Spec => []NoSleepWithEvents
  <1>1. Init => TypeOK /\ Nested /\ NoSleepWithEvents
    BY InitType DEF Init, NoSleepWithEvents
  <1>2. TypeOK /\ Nested /\ NoSleepWithEvents /\ [Next]_vars
          => (TypeOK /\ Nested /\ NoSleepWithEvents)'
    BY NextType, NextSleep
  <1> QED
    BY <1>1, <1>2, PTL DEF Spec

-----------------------------------------------------------------------------
(* Nor over exit().                                                        *)

\* While exit() is pending there is a reason for the loop to come past its top:
\* the pipe, a thread about to write to it, or where the loop is.
ExitNoticed ==
  exitLoop => \/ wake
              \/ \E t \in Threads : 0 \in todo[t]
              \/ pc \in {"stopped", "top", "woken"}
              \/ calls # <<>> /\ calls[1].from # "run"

LEMMA NextExitNoticed ==
  TypeOK /\ Nested /\ ExitNoticed /\ [Next]_vars => ExitNoticed'
  <1> SUFFICES ASSUME TypeOK, Nested, ExitNoticed, [Next]_vars, exitLoop', ~wake',
                      ~(\E t \in Threads : 0 \in todo'[t]),
                      pc' \notin {"stopped", "top", "woken"}
               PROVE  calls' # <<>> /\ calls'[1].from # "run"
    BY DEF ExitNoticed
  <1> USE DEF queues, history
  <1>1. CASE UNCHANGED <<exitLoop, wake, pc, calls, todo>>
    BY <1>1 DEF ExitNoticed
  <1>2. ASSUME NEW t \in Threads, CommitEvent(t, "normal") \/ CommitEvent(t, "priority")
        PROVE  calls' # <<>> /\ calls'[1].from # "run"
    <2>1. /\ UNCHANGED <<exitLoop, wake, pc, calls>> /\ todo[t] = {}
          /\ todo' = [todo EXCEPT ![t] = {Queued + 1}]
      BY <1>2 DEF CommitEvent
    <2>2. \A u \in Threads : 0 \in todo[u] => 0 \in todo'[u]
      BY <2>1 DEF TypeOK
    <2> QED
      BY <2>1, <2>2 DEF ExitNoticed
  <1>3. ASSUME NEW t \in Threads, Exit(t) PROVE FALSE
    BY <1>3 DEF Exit, TypeOK
  <1>4. ASSUME NEW t \in Threads, Wake(t) PROVE FALSE
    BY <1>4 DEF Wake
  <1>5. ASSUME HandlerExits \/ (\E k \in Kinds : HandlerCommits(k)) PROVE FALSE
    BY <1>5 DEF HandlerExits, HandlerCommits
  <1>6. ASSUME Run \/ PollReady \/ PollTimeout PROVE FALSE
    BY <1>6 DEF Run, PollReady, PollTimeout
  <1>7. ASSUME UNCHANGED <<exitLoop, wake, todo>>, calls # <<>>, Return
        PROVE  calls' # <<>> /\ calls'[1].from # "run"
    <2>1. Len(calls) \in Nat \ {0} /\ Len(calls) \in 1..Len(calls) /\ Current \in Frame
      BY <1>7, CurrentType
    <2>2. \A n \in Nat \ {0} : n = 1 \/ n > 1
      OBVIOUS
    <2>3. pc \in Working
      BY <1>7 DEF TypeOK, Working
    <2>4. calls[1].from # "run"
      BY <1>7, <2>3 DEF ExitNoticed, Working
    <2>5. CASE Len(calls) = 1
      <3>1. pc' = Continuation(calls[1].from)
        BY <1>7, <2>5, ReturnType
      <3>2. calls[1].from \in {"wait", "handler", "user"}
        BY <2>1, <2>4, <2>5 DEF Frame, Current
      <3>3. calls[1].from # "handler"
        BY <2>1, <2>5 DEF Nested
      <3> QED
        BY <3>1, <3>2, <3>3 DEF Continuation
    <2>6. CASE Len(calls) > 1
      BY <1>7, <2>4, <2>6, ReturnType
    <2> QED
      BY <2>1, <2>2, <2>5, <2>6, Zenon
  <1>8. ASSUME UNCHANGED <<exitLoop, wake, todo>>, calls # <<>>, pc' \in Working,
               UNCHANGED calls
        PROVE  calls' # <<>> /\ calls'[1].from # "run"
    <2>1. pc \in Working
      BY <1>8 DEF TypeOK, Working
    <2> QED
      BY <1>8, <2>1 DEF ExitNoticed, Working
  <1>9. CASE Bypass \/ NextBatch \/ Handled
    <2>1. calls # <<>> /\ UNCHANGED <<exitLoop, wake, todo>>
      BY <1>9 DEF Bypass, NextBatch, Handled, TypeOK
    <2>2. Return \/ (pc' \in Working /\ UNCHANGED calls)
      BY <1>9 DEF Bypass, NextBatch, Handled, Working
    <2> QED
      BY <1>7, <1>8, <2>1, <2>2
  <1>10. CASE Send
    <2>1. calls # <<>> /\ UNCHANGED <<exitLoop, wake, todo>>
      BY <1>10 DEF Send, TypeOK
    <2>2. exitLoop
      BY <2>1
    <2>3. Return
      BY <1>10, <2>2 DEF Send
    <2> QED
      BY <1>7, <2>1, <2>3
  <1>11. CASE HandlerProcesses
    <2>1. /\ calls # <<>> /\ UNCHANGED <<exitLoop, wake, todo>> /\ pc = "handle"
          /\ Call(0, "handler")
      BY <1>11 DEF HandlerProcesses, TypeOK
    <2>2. calls[1].from # "run"
      BY <2>1 DEF ExitNoticed
    <2>3. calls' # <<>> /\ calls'[1] = calls[1]
      BY <2>1, CallType, CallNested
    <2> QED
      BY <2>2, <2>3
  <1>12. CASE HandlerThrows
    <2>1. /\ calls # <<>> /\ UNCHANGED <<exitLoop, wake, todo>> /\ pc = "handle"
          /\ calls' = SubSeq(calls, 1, Len(calls) - 1)
          /\ pc' = IF Current.from = "handler" THEN "handle" ELSE "stopped"
      BY <1>12 DEF HandlerThrows, TypeOK
    <2>2. Current.from = "handler" /\ calls[1].from # "run"
      BY <2>1 DEF ExitNoticed
    <2>3. Return
      BY <2>1, <2>2 DEF Return, Continuation
    <2> QED
      BY <1>7, <2>1, <2>3
  <1>13. CASE UserProcesses
    <2>1. calls = <<>> /\ Call(0, "user")
      BY <1>13 DEF UserProcesses, TypeOK
    <2> QED
      BY <2>1, CallType, CallNested
  <1>14. CASE LoopTop
    BY <1>14 DEF LoopTop
  <1>15. CASE LookAgain
    <2>1. UNCHANGED <<exitLoop, wake, calls, todo>> /\ pc = "empty" /\ calls = <<>>
      BY <1>15 DEF LookAgain, TypeOK
    <2> QED
      BY <2>1 DEF ExitNoticed
  <1>16. CASE Woken
    <2>1. calls = <<>> /\ Call(EventsPerLoop, "wait")
      BY <1>16 DEF Woken, TypeOK
    <2> QED
      BY <2>1, CallType, CallNested, LoopAssumption
  <1>17. ASSUME NEW t \in Threads, NEW k \in Kinds, QueueEvent(t, k) \/ CommitEvent(t, k)
         PROVE  calls' # <<>> /\ calls'[1].from # "run"
    <2>1. CASE QueueEvent(t, k)
      BY <1>1, <2>1 DEF QueueEvent
    <2>2. CASE CommitEvent(t, k)
      BY <1>2, <2>2 DEF Kinds
    <2> QED
      BY <1>17, <2>1, <2>2
  <1>18. CASE UNCHANGED vars
    BY <1>1, <1>18 DEF vars
  <1> QED
    BY <1>3, <1>4, <1>5, <1>6, <1>9, <1>10, <1>11, <1>12, <1>13, <1>14, <1>15, <1>16, <1>17,
       <1>18 DEF Next, Step, Other

\* exit() is not slept over either, also when a handler or another thread calls
\* it between the loop's look at its queues and the poll.
THEOREM ExitIsNoticed == Spec => []NoSleepAfterExit
  <1>1. Init => TypeOK /\ Nested /\ ExitNoticed
    BY InitType DEF Init, ExitNoticed
  <1>2. TypeOK /\ Nested /\ ExitNoticed /\ [Next]_vars => (TypeOK /\ Nested /\ ExitNoticed)'
    BY NextType, NextExitNoticed
  <1>3. TypeOK /\ ExitNoticed => NoSleepAfterExit
    <2> SUFFICES ASSUME TypeOK, ExitNoticed, pc = "poll", ~wake, exitLoop
                 PROVE  \E t \in Threads : 0 \in todo[t]
      BY DEF NoSleepAfterExit
    <2>1. calls = <<>>
      BY DEF TypeOK
    <2> QED
      BY <2>1 DEF ExitNoticed
  <1> QED
    BY <1>1, <1>2, <1>3, PTL DEF Spec

\* The order of delivery, of events of one kind and of both kinds.
THEOREM EventsStayInOrder == Spec => []EventsInOrder
  BY OrderIsKept, NoneOvertaken, PTL DEF EventsInOrder

\* The loop sleeps only if nothing is to be done, or if it is about to be woken.
THEOREM SleepIsSafe == Spec => []SleepsSafely
  BY NeverSleepsOver, ExitIsNoticed, PTL DEF SleepsSafely

-----------------------------------------------------------------------------
(* Devices get their turn.                                                 *)

\* The outermost call of processEvents() by the loop sends at most the limit,
\* and at most one full batch has been sent before it: the one of wait().
Turn ==
  EventsPerLoop # 0 =>
    /\ pc = "woken" => batch = 0
    /\ pc = "top" => batch <= EventsPerLoop
    /\ batch <= 2 * EventsPerLoop
    /\ calls # <<>> /\ calls[1].from \in {"run", "wait"} =>
         /\ calls[1].max = EventsPerLoop /\ calls[1].count <= EventsPerLoop
         /\ (Len(calls) = 1 /\ pc # "handle" => calls[1].count < EventsPerLoop)
         /\ batch <= (IF calls[1].from = "run" THEN EventsPerLoop ELSE 0) + calls[1].count

\* A call that ends.
LEMMA ReturnTurn ==
  ASSUME TypeOK, Nested, Turn, calls # <<>>, Return, batch' = batch
  PROVE  Turn'
  <1>1. /\ calls' = <<>> <=> pc' # "handle"
        /\ pc' \in {"empty", "top", "handle", "stopped"}
        /\ Len(calls) > 1 => pc' = "handle" /\ calls'[1] = calls[1] /\ calls' # <<>>
        /\ Len(calls) = 1 => pc' = Continuation(calls[1].from)
    BY ReturnType
  <1>2. /\ Len(calls) \in Nat \ {0} /\ 1 \in 1..Len(calls)
        /\ batch \in Nat /\ EventsPerLoop \in Nat
    BY CurrentType, LoopAssumption DEF TypeOK
  <1>3. calls \in Seq(Frame)
    BY DEF TypeOK, Frame
  <1>4. calls[1] \in Frame
    BY <1>2, <1>3, ElementOfSeq
  <1>5. calls[1].count \in Nat /\ calls[1].from \in {"run", "wait", "handler", "user"}
    BY <1>4 DEF Frame
  <1>6. CASE Len(calls) > 1
    BY <1>1, <1>2, <1>5, <1>6 DEF Turn
  <1>7. CASE Len(calls) = 1
    <2>1. pc' = "top" => calls[1].from = "wait"
      BY <1>1, <1>5, <1>7 DEF Continuation
    <2>2. pc' \in {"empty", "top", "stopped"} \/ calls[1].from = "handler"
      BY <1>1, <1>5, <1>7 DEF Continuation
    <2>3. calls[1].from # "handler"
      BY <1>2 DEF Nested
    <2>4. calls' = <<>> /\ pc' # "woken"
      BY <1>1, <2>2, <2>3
    <2> QED
      BY <1>2, <1>5, <1>7, <2>1, <2>4 DEF Turn
  <1>8. Len(calls) = 1 \/ Len(calls) > 1
    BY <1>2
  <1> QED
    BY <1>6, <1>7, <1>8

\* A call that the loop begins.
LEMMA CallTurn ==
  ASSUME TypeOK, NEW from \in {"run", "wait", "handler", "user"}, NEW max \in Nat,
         Call(max, from), calls = <<>>
  PROVE  /\ calls' # <<>> /\ Len(calls') = 1 /\ pc' = "enter"
         /\ calls'[1].from = from /\ calls'[1].max = max /\ calls'[1].count = 0
  <1>1. calls' = <<[max |-> max, count |-> 0, from |-> from]>>
    BY DEF Call
  <1> QED
    BY <1>1, CallType DEF Call

LEMMA NextTurn == TypeOK /\ Nested /\ Turn /\ [Next]_vars => Turn'
  <1> SUFFICES ASSUME TypeOK, Nested, Turn, [Next]_vars PROVE Turn'
    OBVIOUS
  <1> USE DEF queues, history
  <1>e. EventsPerLoop \in Nat /\ batch \in Nat
    BY LoopAssumption DEF TypeOK
  <1>c. calls # <<>> =>
          /\ Len(calls) \in Nat \ {0}
          /\ calls[1].count \in Nat /\ calls[1].from \in {"run", "wait", "handler", "user"}
          /\ calls[1].from # "handler"
          /\ Len(calls) = 1 => Current = calls[1]
          /\ Len(calls) > 1 => Current.from = "handler"
    <2> SUFFICES ASSUME calls # <<>>
                 PROVE  /\ Len(calls) \in Nat \ {0}
                        /\ calls[1].count \in Nat
                        /\ calls[1].from \in {"run", "wait", "handler", "user"}
                        /\ calls[1].from # "handler"
                        /\ Len(calls) = 1 => Current = calls[1]
                        /\ Len(calls) > 1 => Current.from = "handler"
      OBVIOUS
    <2>1. /\ calls \in Seq(Frame) /\ Len(calls) \in Nat \ {0} /\ 1 \in 1..Len(calls)
          /\ Len(calls) \in 1..Len(calls)
      BY CurrentType DEF TypeOK, Frame
    <2>2. calls[1] \in Frame
      BY <2>1, ElementOfSeq
    <2>3. calls[1].count \in Nat /\ calls[1].from \in {"run", "wait", "handler", "user"}
      BY <2>2 DEF Frame
    <2>4. calls[1].from # "handler" /\ (Len(calls) > 1 => calls[Len(calls)].from = "handler")
      BY <2>1 DEF Nested
    <2> QED
      BY <2>1, <2>3, <2>4 DEF Current
  <1>n. calls # <<>> => Len(calls) = 1 \/ Len(calls) > 1
    <2>1. calls # <<>> => Len(calls) \in Nat \ {0}
      BY CurrentType
    <2>2. \A m \in Nat \ {0} : m = 1 \/ m > 1
      OBVIOUS
    <2> QED
      BY <2>1, <2>2, Zenon
  <1>1. ASSUME UNCHANGED <<pc, calls, batch>> PROVE Turn'
    BY <1>1 DEF Turn
  <1>2. ASSUME Bypass \/ LookAgain PROVE Turn'
    BY <1>2, <1>e DEF Bypass, LookAgain, Turn, TypeOK
  <1>3. ASSUME Return, pc \in {"while", "fetch", "handle"}, batch' = batch PROVE Turn'
    BY <1>3, ReturnTurn DEF TypeOK
  <1>4. ASSUME NextBatch PROVE Turn'
    <2>1. batch' = batch /\ pc = "while" /\ calls # <<>>
      BY <1>4 DEF NextBatch, TypeOK
    <2>2. CASE Return
      BY <1>3, <2>1, <2>2
    <2>3. CASE pc' = "fetch" /\ calls' = calls
      BY <1>e, <2>1, <2>3 DEF Turn
    <2> QED
      BY <1>4, <2>2, <2>3 DEF NextBatch
  <1>5. ASSUME Send PROVE Turn'
    <2>1. pc = "fetch" /\ calls # <<>>
      BY <1>5 DEF Send, TypeOK
    <2>2. CASE Return /\ batch' = batch
      BY <1>3, <2>1, <2>2
    <2>3. CASE /\ calls' = [calls EXCEPT ![Len(calls)].count = @ + 1]
               /\ batch' = IF Current.from \in {"run", "wait"} THEN batch + 1 ELSE batch
               /\ pc' = "handle"
      <3>1. /\ calls \in Seq(Frame) /\ 1 \in 1..Len(calls) /\ Len(calls) \in 1..Len(calls)
            /\ calls[Len(calls)] \in Frame
        BY <2>1, CurrentType DEF TypeOK, Frame, Current
      <3> DEFINE f == [calls[Len(calls)] EXCEPT !.count = @ + 1]
      <3>2. /\ f \in Frame /\ f.count = calls[Len(calls)].count + 1
            /\ f.from = calls[Len(calls)].from /\ f.max = calls[Len(calls)].max
        BY <3>1 DEF Frame
      <3>3. calls' = [calls EXCEPT ![Len(calls)] = f]
        BY <2>3
      <3> HIDE DEF f
      <3>4. /\ Len(calls') = Len(calls) /\ calls' \in Seq(Frame)
            /\ \A j \in 1..Len(calls) : calls'[j] = IF j = Len(calls) THEN f ELSE calls[j]
        BY <3>1, <3>2, <3>3, ExceptSeq
      <3>5. calls'[1] = IF Len(calls) = 1 THEN f ELSE calls[1]
        BY <3>1, <3>4
      <3>6. CASE Len(calls) = 1
        BY <1>c, <1>e, <2>1, <2>3, <3>2, <3>4, <3>5, <3>6 DEF Turn
      <3>7. CASE Len(calls) > 1
        BY <1>c, <1>e, <2>1, <2>3, <3>4, <3>5, <3>7 DEF Turn
      <3>8. Len(calls) = 1 \/ Len(calls) > 1
        BY <1>n, <2>1
      <3> QED
        BY <3>6, <3>7, <3>8
    <2> QED
      BY <1>5, <2>2, <2>3 DEF Send
  <1>6. ASSUME Handled PROVE Turn'
    <2>1. pc = "handle" /\ calls # <<>> /\ batch' = batch
      BY <1>6 DEF Handled, TypeOK
    <2>2. CASE Return
      BY <1>3, <2>1, <2>2
    <2>3. CASE /\ Current.max = 0 \/ Current.count < Current.max
               /\ pc' = "while" /\ calls' = calls
      BY <1>c, <1>e, <2>1, <2>3 DEF Turn
    <2> QED
      BY <1>6, <2>2, <2>3 DEF Handled
  <1>7. ASSUME HandlerProcesses PROVE Turn'
    <2>1. pc = "handle" /\ calls # <<>> /\ batch' = batch /\ Call(0, "handler")
      BY <1>7 DEF HandlerProcesses, TypeOK
    <2>2. /\ calls' # <<>> /\ pc' = "enter" /\ Len(calls') = Len(calls) + 1
          /\ \A i \in 1..Len(calls) : calls'[i] = calls[i]
      BY <2>1, CallType
    <2>3. calls'[1] = calls[1] /\ Len(calls') > 1
      BY <1>c, <2>1, <2>2
    <2> QED
      BY <1>c, <1>e, <2>1, <2>2, <2>3 DEF Turn
  <1>8. ASSUME HandlerThrows PROVE Turn'
    <2>1. /\ pc = "handle" /\ calls # <<>> /\ batch' = batch
          /\ calls' = SubSeq(calls, 1, Len(calls) - 1)
          /\ pc' = IF Current.from = "handler" THEN "handle" ELSE "stopped"
      BY <1>8 DEF HandlerThrows, TypeOK
    <2>2. /\ calls' \in Seq(Frame) /\ Len(calls') = Len(calls) - 1
          /\ \A i \in 1..Len(calls') : calls'[i] = calls[i]
      BY <2>1, PopType
    <2>3. CASE Len(calls) = 1
      <3>1. calls' = <<>> /\ pc' = "stopped"
        BY <1>c, <2>1, <2>2, <2>3, EmptySeq
      <3> QED
        BY <1>e, <2>1, <3>1 DEF Turn
    <2>4. CASE Len(calls) > 1
      <3>1. calls'[1] = calls[1] /\ pc' = "handle"
        BY <1>c, <2>1, <2>2, <2>4
      <3> QED
        BY <1>c, <1>e, <2>1, <2>4, <3>1 DEF Turn
    <2>5. Len(calls) = 1 \/ Len(calls) > 1
      BY <1>n, <2>1
    <2> QED
      BY <2>3, <2>4, <2>5
  <1>9. ASSUME Run \/ PollReady \/ PollTimeout PROVE Turn'
    <2>1. batch' = 0 /\ pc' \in {"top", "woken"} /\ calls' = calls /\ calls = <<>>
      BY <1>9 DEF Run, PollReady, PollTimeout, TypeOK
    <2> QED
      BY <1>e, <2>1 DEF Turn
  <1>10. ASSUME UserProcesses PROVE Turn'
    <2>1. calls = <<>> /\ batch' = batch /\ Call(0, "user")
      BY <1>10 DEF UserProcesses, TypeOK
    <2>2. calls'[1].from = "user" /\ pc' = "enter"
      BY <2>1, CallTurn
    <2> QED
      BY <1>e, <2>1, <2>2 DEF Turn
  <1>11. ASSUME LoopTop PROVE Turn'
    <2>1. calls = <<>> /\ batch' = batch /\ pc = "top"
      BY <1>11 DEF LoopTop, TypeOK
    <2>2. CASE pc' \in {"stopped", "poll"} /\ calls' = calls
      BY <1>e, <2>1, <2>2 DEF Turn
    <2>3. CASE Call(EventsPerLoop, "run")
      <3>1. /\ calls' # <<>> /\ Len(calls') = 1 /\ pc' = "enter"
            /\ calls'[1].from = "run" /\ calls'[1].max = EventsPerLoop /\ calls'[1].count = 0
        BY <1>e, <2>1, <2>3, CallTurn
      <3> QED
        BY <1>e, <2>1, <3>1 DEF Turn
    <2> QED
      BY <1>11, <2>2, <2>3 DEF LoopTop
  <1>12. ASSUME Woken PROVE Turn'
    <2>1. calls = <<>> /\ batch' = batch /\ pc = "woken"
      BY <1>12 DEF Woken, TypeOK
    <2>2. CASE pc' = "top" /\ calls' = calls
      BY <1>e, <2>1, <2>2 DEF Turn
    <2>3. CASE Call(EventsPerLoop, "wait")
      <3>1. /\ calls' # <<>> /\ Len(calls') = 1 /\ pc' = "enter"
            /\ calls'[1].from = "wait" /\ calls'[1].max = EventsPerLoop /\ calls'[1].count = 0
        BY <1>e, <2>1, <2>3, CallTurn
      <3> QED
        BY <1>e, <2>1, <3>1 DEF Turn
    <2> QED
      BY <1>12, <2>2, <2>3 DEF Woken
  <1>13. ASSUME NEW t \in Threads, NEW k \in Kinds,
                QueueEvent(t, k) \/ CommitEvent(t, k) \/ Exit(t) \/ Wake(t)
         PROVE  Turn'
    BY <1>1, <1>13 DEF QueueEvent, CommitEvent, OnQueueEvent, Exit, Wake
  <1>14. ASSUME NEW t \in Threads, Exit(t) \/ Wake(t) PROVE Turn'
    BY <1>1, <1>14 DEF Exit, Wake
  <1>15. ASSUME NEW k \in Kinds, HandlerCommits(k) PROVE Turn'
    BY <1>1, <1>15 DEF HandlerCommits, OnQueueEvent
  <1>16. ASSUME HandlerExits PROVE Turn'
    BY <1>1, <1>16 DEF HandlerExits
  <1>17. CASE UNCHANGED vars
    BY <1>1, <1>17 DEF vars
  <1> QED
    BY <1>2, <1>4, <1>5, <1>6, <1>7, <1>8, <1>9, <1>10, <1>11, <1>12, <1>13, <1>14, <1>15,
       <1>16, <1>17 DEF Next, Step, Other

\* Between two polls at most two full batches of events are sent, however many
\* handlers queue: the devices get their turn.
THEOREM DevicesAreServed == Spec => []DevicesGetTheirTurn
  <1>1. Init => TypeOK /\ Nested /\ Turn
    <2>1. Init => Turn
      BY LoopAssumption DEF Init, Turn
    <2> QED
      BY <2>1, InitType
  <1>2. TypeOK /\ Nested /\ Turn /\ [Next]_vars => (TypeOK /\ Nested /\ Turn)'
    BY NextType, NextTurn
  <1>3. Turn => DevicesGetTheirTurn
    BY DEF Turn, DevicesGetTheirTurn
  <1> QED
    BY <1>1, <1>2, <1>3, PTL DEF Spec
=============================================================================
