------------------------------- MODULE Signals -------------------------------
(***************************************************************************)
(* Signals, slots and connections.  A Connection joins a signal and the    *)
(* object of a slot, and both keep it in a list.  send() walks through the *)
(* list of the signal while the handlers it calls connect, disconnect,     *)
(* delete receivers, delete the signal itself, send again or throw; a      *)
(* Sentry on the stack of send() keeps the list as it is until the walk    *)
(* ends.  A slot is a method of a receiver or, chained, another signal.    *)
(*                                                                         *)
(* Everything happens in one thread: stack is the stack of active send()s. *)
(* Function slots (no object) and the arguments of a signal are left out.  *)
(***************************************************************************)
EXTENDS Naturals, Sequences, FiniteSets

CONSTANTS
  SignalSet,       \* the signals
  Receivers,       \* objects with methods that are connected
  MaxConnections,  \* bound: connections made
  MaxDepth         \* bound: active send()s

ASSUME SignalAssumption == SignalSet \cap Receivers = {} /\ MaxConnections \in Nat /\ MaxDepth \in Nat

VARIABLES
  alive,     \* objects that are not deleted
  ends,      \* ends[c]: sender and receiver of the connection c
  net,       \* [valid, list, sending, dirty]: see NetType
  sentry,    \* sentry[s]: place on the stack of the send() s knows of, or 0
  stack,     \* the active send()s
  throwing,  \* TRUE while an exception leaves send()s
  nested     \* history: signals sent, or assigned to, while they were sending

signalVars == <<alive, ends, net, sentry, stack, throwing, nested>>

Objects == SignalSet \cup Receivers
End == 0

NetType ==
  [valid   : SUBSET (DOMAIN ends),        \* connections that are not closed
   list    : [Objects -> Seq(DOMAIN ends)],  \* _connections
   sending : SUBSET SignalSet,            \* signals with _sending
   dirty   : SUBSET SignalSet]            \* signals with _dirty

FrameType ==
  [signal : SignalSet, at : Nat, attached : BOOLEAN,
   state : {"loop", "handler", "chained"},
   due : SUBSET (DOMAIN ends), called : Seq(DOMAIN ends)]

Top == stack[Len(stack)]
Below == SubSeq(stack, 1, Len(stack) - 1)

\* The program's own code runs: no send() is active, or a handler is.
InUserCode == ~throwing /\ (stack # <<>> => Top.state = "handler")

-----------------------------------------------------------------------------
(* Connections.                                                            *)

\* The elements of a list that are in cs, in their order.
Only(list, cs) ==
  LET ps == {i \in DOMAIN list : list[i] \in cs}
  IN [j \in 1 .. Cardinality(ps) |-> list[CHOOSE i \in ps : Cardinality({k \in ps : k <= i}) = j]]

EndsOf(c) == {ends[c].from, ends[c].to}

\* onConnectionOpen() of both ends, then the connection is valid.
Open(n, c, s, r) ==
  [n EXCEPT !.list = [o \in Objects |-> IF o \in {s, r} THEN Append(n.list[o], c) ELSE n.list[o]],
            !.valid = n.valid \cup {c}]

\* The list after onConnectionClose() that does not look at _sending.
ClosedAtOnce(n, o, cs) == Only(n.list[o], DOMAIN ends \ cs)

\* The list of o after onConnectionClose(): a signal that is sending keeps it.
ClosedAt(n, o, cs) == IF o \in n.sending THEN n.list[o] ELSE Only(n.list[o], DOMAIN ends \ cs)

\* close() of the connections cs: out of the list of the receiver, not valid any
\* more, out of the list of the sender.  No other code runs between these steps.
CloseAll(n, cs) ==
  LET now == cs \cap n.valid
  IN [n EXCEPT !.valid = n.valid \ now,
               !.list = [o \in Objects |-> ClosedAt(n, o, now)],
               !.dirty = n.dirty \cup {o \in n.sending : \E c \in now : o \in EndsOf(c)}]

\* clear(): closes from the front; what stays in front is popped.
Clear(n, o) ==
  LET m == CloseAll(n, {n.list[o][i] : i \in DOMAIN n.list[o]})
  IN [m EXCEPT !.list = [m.list EXCEPT ![o] = <<>>]]

\* Sentry::detach() of a send() of s: drops what was closed meanwhile.
Cleaned(n, s) ==
  [n EXCEPT !.sending = n.sending \ {s}, !.dirty = n.dirty \ {s},
            !.list = IF s \in n.dirty THEN [n.list EXCEPT ![s] = Only(n.list[s], n.valid)] ELSE n.list]

-----------------------------------------------------------------------------
(* send().                                                                 *)

\* ++it twice.
SkipsOne(s, c) ==
  LET l == net.list[s]
      i == CHOOSE j \in DOMAIN l : l[j] = c
  IN IF i + 1 >= Len(l) THEN End ELSE l[i + 2]

\* The connection behind c in the list of s; only if c is still in it.
Following(s, c) ==
  LET l == net.list[s]
      i == CHOOSE j \in DOMAIN l : l[j] = c
  IN IF i = Len(l) THEN End ELSE l[i + 1]

InPlace(f) == f.at # End /\ \E i \in DOMAIN net.list[f.signal] : net.list[f.signal][i] = f.at

NewFrame(s) ==
  [signal |-> s, at |-> IF net.list[s] = <<>> THEN End ELSE Head(net.list[s]),
   attached |-> TRUE, state |-> "loop",
   due |-> {c \in net.valid : ends[c].from = s}, called |-> <<>>]

\* The constructor of the sentry, on top of the stack st.
Enter(s, st) ==
  /\ s \in alive /\ Len(st) < MaxDepth
  /\ stack' = Append(st, NewFrame(s))
  /\ sentry' = [sentry EXCEPT ![s] = Len(st) + 1]
  /\ net' = [net EXCEPT !.sending = net.sending \cup {s}, !.dirty = net.dirty \ {s}]
  /\ nested' = IF \E i \in DOMAIN st : st[i].signal = s /\ st[i].attached
               THEN nested \cup {s} ELSE nested
  /\ UNCHANGED <<alive, ends, throwing>>

Send(s) == InUserCode /\ Enter(s, stack)

\* send() passes a connection that is closed, or whose receiver it is.
PassOver ==
  /\ ~throwing /\ stack # <<>> /\ Top.state = "loop" /\ InPlace(Top)
  /\ Top.at \in net.valid => ends[Top.at].from # Top.signal
  /\ stack' = Append(Below, [Top EXCEPT !.at = Following(Top.signal, Top.at)])
  /\ UNCHANGED <<alive, ends, net, sentry, throwing, nested>>

Calling(state) ==
  Append(Below, [Top EXCEPT !.state = state, !.called = Append(Top.called, Top.at)])

\* invoke() of a method: the handler starts.
CallMethod ==
  /\ ~throwing /\ stack # <<>> /\ Top.state = "loop" /\ InPlace(Top)
  /\ Top.at \in net.valid /\ ends[Top.at].from = Top.signal /\ ends[Top.at].to \in Receivers
  /\ stack' = Calling("handler")
  /\ UNCHANGED <<alive, ends, net, sentry, throwing, nested>>

\* invoke() of a SignalSlot: send() of the other signal.
CallSignal ==
  /\ ~throwing /\ stack # <<>> /\ Top.state = "loop" /\ InPlace(Top)
  /\ Top.at \in net.valid /\ ends[Top.at].from = Top.signal /\ ends[Top.at].to \in SignalSet
  /\ Enter(ends[Top.at].to, Calling("chained"))

\* A handler, or the send() of a chained signal, returns.  A signal that was
\* deleted meanwhile has detached the sentry, and send() returns.
Returned ==
  /\ ~throwing /\ stack # <<>> /\ Top.state \in {"handler", "chained"}
  /\ \/ /\ ~Top.attached
        /\ stack' = Below
     \/ /\ Top.attached /\ InPlace(Top)
        /\ stack' = Append(Below, [Top EXCEPT !.at = Following(Top.signal, Top.at), !.state = "loop"])
  /\ UNCHANGED <<alive, ends, net, sentry, throwing, nested>>

\* The destructor of the sentry of the top frame.
Leave ==
  /\ stack' = Below
  /\ IF Top.attached
     THEN /\ net' = Cleaned(net, Top.signal)
          /\ sentry' = [sentry EXCEPT ![Top.signal] = 0]
     ELSE UNCHANGED <<net, sentry>>
  /\ UNCHANGED <<alive, ends, nested>>

SendEnds == ~throwing /\ stack # <<>> /\ Top.state = "loop" /\ Top.at = End /\ Leave /\ UNCHANGED throwing

\* An exception of a handler leaves its send(), and the send()s it is chained to.
\* An attached sentry of a deleted signal would be left in freed memory.
Throw ==
  /\ stack # <<>> /\ (throwing \/ Top.state = "handler")
  /\ Top.attached => Top.signal \in alive
  /\ Leave
  /\ throwing' = (Below # <<>> /\ Below[Len(Below)].state = "chained")

-----------------------------------------------------------------------------
(* What the program and its handlers do.                                   *)

\* Chains of signals do not form a circle.
Connect(s, r) ==
  /\ InUserCode /\ s \in alive /\ r \in alive /\ s # r
  /\ r \in SignalSet => \A c \in net.valid : ends[c].from = r => ends[c].to # s
  /\ Len(ends) < MaxConnections
  /\ ends' = Append(ends, [from |-> s, to |-> r])
  /\ net' = Open(net, Len(ends) + 1, s, r)
  /\ UNCHANGED <<alive, sentry, stack, throwing, nested>>

Close(c) ==
  /\ InUserCode /\ c \in net.valid
  /\ net' = CloseAll(net, {c})
  /\ UNCHANGED <<alive, ends, sentry, stack, throwing, nested>>

\* disconnectSlot(): the first connection in the list with an equal slot, closed or not.
DisconnectSlot(s, r) ==
  LET l == net.list[s]
      equal == {i \in DOMAIN l : ends[l[i]].to = r}
  IN /\ InUserCode /\ s \in alive /\ r \in alive /\ equal # {}
     /\ net' = CloseAll(net, {l[CHOOSE i \in equal : \A j \in equal : i <= j]})
     /\ UNCHANGED <<alive, ends, sentry, stack, throwing, nested>>

DeleteReceiver(r) ==
  /\ InUserCode /\ r \in Receivers \cap alive
  /\ alive' = alive \ {r}
  /\ net' = Clear(net, r)
  /\ UNCHANGED <<ends, sentry, stack, throwing, nested>>

\* ~SignalBase() detaches its sentry, if it knows of one, and clears its list.
DeleteSignal(s) ==
  /\ InUserCode /\ s \in SignalSet \cap alive
  /\ alive' = alive \ {s}
  /\ net' = Clear(IF sentry[s] = 0 THEN net ELSE Cleaned(net, s), s)
  /\ stack' = [i \in DOMAIN stack |->
                 IF i = sentry[s] THEN [stack[i] EXCEPT !.attached = FALSE] ELSE stack[i]]
  /\ sentry' = [sentry EXCEPT ![s] = 0]
  /\ UNCHANGED <<ends, throwing, nested>>

\* operator=: the connections of s are closed and those of t made again for s,
\* the closed ones that are still in its list too; their objects must exist.
Assign(s, t) ==
  LET old == Clear(net, s)
      copied == Only(old.list[t], {c \in DOMAIN ends : ends[c].from = t})
      first == Len(ends)
      made == [i \in DOMAIN copied |-> first + i]
      endsAt(o) == {made[i] : i \in {j \in DOMAIN copied : o \in {s, ends[copied[j]].to}}}
  IN /\ InUserCode /\ s \in alive /\ t \in alive /\ s # t /\ t \notin net.sending
     /\ \A i \in DOMAIN copied : ends[copied[i]].to \in alive \ {s}
     /\ first + Len(copied) <= MaxConnections
     /\ ends' = ends \o [i \in DOMAIN copied |-> [from |-> s, to |-> ends[copied[i]].to]]
     /\ net' = [old EXCEPT !.list = [o \in Objects |-> old.list[o] \o Only(made, endsAt(o))],
                            !.valid = old.valid \cup {made[i] : i \in DOMAIN copied}]
     /\ nested' = IF s \in net.sending THEN nested \cup {s} ELSE nested
     /\ UNCHANGED <<alive, sentry, stack, throwing>>

SignalInit ==
  /\ alive = Objects /\ ends = <<>>
  /\ net = [valid |-> {}, list |-> [o \in Objects |-> <<>>], sending |-> {}, dirty |-> {}]
  /\ sentry = [s \in SignalSet |-> 0] /\ stack = <<>> /\ throwing = FALSE /\ nested = {}

SignalNext ==
  \/ PassOver \/ CallMethod \/ CallSignal \/ Returned \/ SendEnds \/ Throw
  \/ \E c \in DOMAIN ends : Close(c)
  \/ \E r \in Receivers : DeleteReceiver(r)
  \/ \E s \in SignalSet :
       \/ Send(s) \/ DeleteSignal(s)
       \/ \E r \in Objects : Connect(s, r) \/ DisconnectSlot(s, r)
       \/ \E t \in SignalSet : Assign(s, t)

SignalSpec == SignalInit /\ [][SignalNext]_signalVars

-----------------------------------------------------------------------------
(* Properties.                                                             *)

SignalTypeOK ==
  /\ alive \subseteq Objects
  /\ ends \in Seq([from : SignalSet, to : Objects]) /\ Len(ends) <= MaxConnections
  /\ net \in NetType /\ net.dirty \subseteq net.sending
  /\ sentry \in [SignalSet -> 0 .. MaxDepth]
  /\ stack \in Seq(FrameType) /\ Len(stack) <= MaxDepth
  /\ throwing \in BOOLEAN /\ nested \subseteq SignalSet

\* A connection is valid only while both its ends exist and both have it in
\* their lists: neither end can be deleted without closing it.
ConnectedBothWays ==
  \A c \in net.valid : \A o \in {ends[c].from, ends[c].to} :
    /\ o \in alive
    /\ \E i \in DOMAIN net.list[o] : net.list[o][i] = c

\* A closed connection stays in a list only while its signal is sending and
\* marked for the clean-up; it does not pile up.
ClosedIsDropped ==
  \A o \in Objects \ nested : \A i \in DOMAIN net.list[o] :
    \/ net.list[o][i] \in net.valid
    \/ o \in net.sending \cap net.dirty

\* While handlers disconnect, delete and connect, the place of a send() in the
\* list stays good, and a send() of a deleted signal knows that it must return.
KeepsItsPlace ==
  \A i \in DOMAIN stack : LET f == stack[i] IN
    f.attached /\ f.signal \notin nested =>
      /\ f.signal \in alive
      /\ f.at # End => InPlace(f)

\* A send() that reaches the end has called everyone who was connected when it
\* started and still is, and nobody twice.
EveryoneIsCalledOnce ==
  \A i \in DOMAIN stack : LET f == stack[i] IN
    /\ \A j, k \in DOMAIN f.called : f.called[j] = f.called[k] => j = k
    /\ f.attached /\ f.state = "loop" /\ f.at = End =>
         \A c \in f.due \cap net.valid : \E j \in DOMAIN f.called : f.called[j] = c

\* The lists of both ends, and the place of each send() in them.
SignalsSound == SignalTypeOK /\ ConnectedBothWays /\ ClosedIsDropped /\ KeepsItsPlace
=============================================================================
