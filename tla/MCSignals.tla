------------------------------ MODULE MCSignals ------------------------------
(***************************************************************************)
(* The three mechanisms that tell objects of events.  They share no state; *)
(* part says which of them a behaviour is about, and the others stay as    *)
(* they are.                                                               *)
(***************************************************************************)
EXTENDS Signals, EventSources, EventSignal

VARIABLE part

vars == <<part, signalVars, eventVars, routeVars>>

Init == part \in {"signal", "source", "event signal"} /\ SignalInit /\ EventInit /\ RouteInit

Next ==
  /\ UNCHANGED part
  /\ \/ part = "signal" /\ SignalNext /\ UNCHANGED <<eventVars, routeVars>>
     \/ part = "source" /\ EventNext /\ UNCHANGED <<signalVars, routeVars>>
     \/ part = "event signal" /\ RouteNext /\ UNCHANGED <<signalVars, eventVars>>

Spec == Init /\ [][Next]_vars /\ EventFairness
=============================================================================
