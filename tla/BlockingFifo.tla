----------------------------- MODULE BlockingFifo -----------------------------
(***************************************************************************)
(* What a thread safe queue promises its users, without mutexes, condition *)
(* variables or limits: elements come out in the order they went in, each  *)
(* one once, and a thread that waits for an element is served while there  *)
(* is one.                                                                 *)
(***************************************************************************)
EXTENDS Naturals, Sequences

CONSTANTS Threads, Elements, Nothing

VARIABLES
  chan,    \* the elements in the channel, oldest first
  getting, \* the threads that wait for an element
  offered, \* offered[t]: the element t wants to put but could not yet
  got      \* got[t]: the element t received last, Nothing if there was none

vars == <<chan, getting, offered, got>>

Init ==
  /\ chan = <<>>
  /\ getting = {}
  /\ offered = [t \in Threads |-> Nothing]
  /\ got = [t \in Threads |-> Nothing]

\* t finds the channel empty and waits for an element.
Ask(t) ==
  /\ chan = <<>>
  /\ getting' = getting \cup {t}
  /\ UNCHANGED <<chan, offered, got>>

\* t receives the oldest element.
Receive(t) ==
  /\ chan # <<>>
  /\ chan' = Tail(chan)
  /\ got' = [got EXCEPT ![t] = Head(chan)]
  /\ getting' = getting \ {t}
  /\ UNCHANGED offered

\* t does not wait and is told that the channel is empty.
Miss(t) ==
  /\ chan = <<>>
  /\ got' = [got EXCEPT ![t] = Nothing]
  /\ UNCHANGED <<chan, getting, offered>>

\* t waits for room in the channel.
Offer(t, e) ==
  /\ offered[t] = Nothing
  /\ offered' = [offered EXCEPT ![t] = e]
  /\ UNCHANGED <<chan, getting, got>>

\* t's element enters the channel, the one it offered if it had to wait.
Send(t, e) ==
  /\ offered[t] \in {Nothing, e}
  /\ chan' = Append(chan, e)
  /\ offered' = [offered EXCEPT ![t] = Nothing]
  /\ UNCHANGED <<getting, got>>

Next ==
  \E t \in Threads :
    \/ Ask(t) \/ Receive(t) \/ Miss(t)
    \/ \E e \in Elements : Offer(t, e) \/ Send(t, e)

\* Waiting threads are served as long as there is something to receive.
Fairness == WF_vars(\E t \in getting : Receive(t))

Spec == Init /\ [][Next]_vars /\ Fairness
=============================================================================
