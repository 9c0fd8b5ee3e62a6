----------------------------- MODULE EventSignal -----------------------------
(***************************************************************************)
(* Signal<const Event&>, the signal through which an event loop hands out  *)
(* its events.  Unlike other signals it keeps a multimap of routes: those  *)
(* of connect() with the key 0, called for every event, and those of       *)
(* subscribe() with the type of the event, called for that type only.      *)
(* Handlers connect, subscribe, close, delete receivers and the signal.    *)
(***************************************************************************)
EXTENDS Naturals, Sequences, FiniteSets

CONSTANTS
  Listeners,    \* objects with a method that is connected
  MaxRoutes,    \* bound: connections made
  MaxSends      \* bound: active send()s

ASSUME EventSignalAssumption == MaxRoutes \in Nat /\ MaxSends \in Nat /\ "signal" \notin Listeners

NoRoute == 0

VARIABLES
  routes,     \* _routes: [id, key, to] in the order of the multimap
  open,       \* connections that are valid
  known,      \* known[r]: connections in the list of r
  sendings,   \* the active send()s, the innermost last
  isSending, isDirty,  \* _sending and _dirty
  theSentry,  \* place in sendings of the send() that _sentry points to, or 0
  deleted,    \* deleted receivers, and "signal"
  last,       \* bound: connections made
  renested,   \* history: TRUE if it was sent while it was sending
  hangs       \* TRUE if removeRoute() is in its endless loop

routeVars ==
  <<routes, open, known, sendings, isSending, isDirty, theSentry, deleted, last, renested, hangs>>
Inner == sendings[Len(sendings)]
Rest == SubSeq(sendings, 1, Len(sendings) - 1)
Running == ~hangs /\ (sendings # <<>> => Inner.pc = "handler")
Exists == "signal" \notin deleted

\* The number of routes without a type, which come first.
Untyped(rs) == Cardinality({i \in DOMAIN rs : rs[i].key = "all"})

RouteAt(i) == IF i \in DOMAIN routes THEN routes[i].id ELSE NoRoute
IndexOf(id) == CHOOSE i \in DOMAIN routes : routes[i].id = id
HasRoute(id) == \E i \in DOMAIN routes : routes[i].id = id

\* The routes at the places ps, in their order.
RoutesAt(ps) ==
  [j \in 1 .. Cardinality(ps) |-> routes[CHOOSE i \in ps : Cardinality({k \in ps : k <= i}) = j]]

\* erase() of the routes of the connections cs.
RoutesWithout(cs) == RoutesAt({i \in DOMAIN routes : routes[i].id \notin cs})

\* addRoute() and the constructor of the connection.
AddRoute(r, key) ==
  LET p == IF key = "all" THEN Untyped(routes) ELSE Len(routes)
  IN /\ Running /\ Exists /\ r \notin deleted /\ last < MaxRoutes
     /\ last' = last + 1 /\ open' = open \cup {last'}
     /\ known' = [known EXCEPT ![r] = @ \cup {last'}]
     /\ routes' = SubSeq(routes, 1, p) \o <<[id |-> last', key |-> key, to |-> r]>>
                    \o SubSeq(routes, p + 1, Len(routes))
     /\ UNCHANGED <<sendings, isSending, isDirty, theSentry, deleted, renested, hangs>>

\* Erases the route at once.
CloseRoutesNow(cs) ==
  /\ open' = open \ cs
  /\ known' = [r \in Listeners |-> known[r] \ cs]
  /\ routes' = RoutesWithout(cs) /\ UNCHANGED isDirty

\* close() of the connections cs, and onConnectionClose() of the signal.
CloseRoutes(cs) ==
  /\ open' = open \ cs
  /\ known' = [r \in Listeners |-> known[r] \ cs]
  /\ IF isSending
     THEN isDirty' = (isDirty \/ cs # {}) /\ UNCHANGED routes
     ELSE routes' = RoutesWithout(cs) /\ UNCHANGED isDirty

CloseRoute(c) ==
  /\ Running /\ c \in open
  /\ CloseRoutes({c})
  /\ UNCHANGED <<sendings, isSending, theSentry, deleted, last, renested, hangs>>

\* removeRoute(): the loop over the routes with that key never advances, so
\* that it ends only if the first of them is the one, or there is none.
RemoveRoute(r, key) ==
  LET first == IF key = "all" THEN 1 ELSE Untyped(routes) + 1
      found == first \in DOMAIN routes /\ routes[first].key = key
  IN /\ Running /\ Exists /\ r \notin deleted
     /\ IF found /\ routes[first].to = r
        THEN CloseRoutes({routes[first].id} \cap open) /\ UNCHANGED hangs
        ELSE hangs' = found /\ UNCHANGED <<open, known, routes, isDirty>>
     /\ UNCHANGED <<sendings, isSending, theSentry, deleted, last, renested>>

DeleteListener(r) ==
  /\ Running /\ r \notin deleted
  /\ CloseRoutes(known[r]) /\ deleted' = deleted \cup {r}
  /\ UNCHANGED <<sendings, isSending, theSentry, last, renested, hangs>>

\* The destructor of the sentry, or detach() in ~Signal(): closed routes go.
SweptRoutes == IF isDirty THEN RoutesAt({i \in DOMAIN routes : routes[i].id \in open}) ELSE routes

\* ~Signal(): detaches, then closes the first route until there is none; a
\* closed one would stay the first for ever.
DeleteEventSignal ==
  LET rs == IF theSentry = 0 THEN routes ELSE SweptRoutes
      ids == {rs[i].id : i \in DOMAIN rs}
  IN /\ Running /\ Exists
     /\ hangs' = (ids \ open # {})
     /\ deleted' = deleted \cup {"signal"}
     /\ open' = open \ ids /\ known' = [r \in Listeners |-> known[r] \ ids]
     /\ routes' = <<>> /\ isSending' = FALSE /\ isDirty' = FALSE /\ theSentry' = 0
     /\ sendings' = [i \in DOMAIN sendings |->
          IF i = theSentry THEN [sendings[i] EXCEPT !.attached = FALSE] ELSE sendings[i]]
     /\ UNCHANGED <<last, renested>>

\* The sentry is made and the walk starts at the first route.
SendEvent(type) ==
  /\ Running /\ Exists /\ Len(sendings) < MaxSends
  /\ sendings' = Append(sendings, [type |-> type, part |-> "all", at |-> RouteAt(1),
                                   attached |-> TRUE, pc |-> "loop", dead |-> FALSE])
  /\ theSentry' = Len(sendings) + 1 /\ isSending' = TRUE /\ isDirty' = FALSE
  /\ renested' = (renested \/ \E i \in DOMAIN sendings : sendings[i].attached)
  /\ UNCHANGED <<routes, open, known, deleted, last, hangs>>

Walk == ~hangs /\ sendings # <<>> /\ Inner.pc = "loop"
Set(field) == sendings' = Append(Rest, field)

\* After the untyped routes the walk goes on at lower_bound() of the type.
ToTyped ==
  /\ Walk /\ Inner.part = "all" /\ HasRoute(Inner.at) /\ routes[IndexOf(Inner.at)].key # "all"
  /\ Set([Inner EXCEPT !.part = "type",
                       !.at = IF Inner.type = "type" THEN RouteAt(Untyped(routes) + 1) ELSE NoRoute])
  /\ UNCHANGED <<routes, open, known, isSending, isDirty, theSentry, deleted, last, renested, hangs>>

\* A route without type that is closed is passed over.
PassRoute ==
  /\ Walk /\ Inner.part = "all" /\ HasRoute(Inner.at) /\ Inner.at \notin open
  /\ routes[IndexOf(Inner.at)].key = "all"
  /\ Set([Inner EXCEPT !.at = RouteAt(IndexOf(Inner.at) + 1)])
  /\ UNCHANGED <<routes, open, known, isSending, isDirty, theSentry, deleted, last, renested, hangs>>

\* Route: the slot is called.  The second loop does not ask if it is still open.
Route ==
  /\ Walk /\ HasRoute(Inner.at)
  /\ IF Inner.part = "all" THEN Inner.at \in open /\ routes[IndexOf(Inner.at)].key = "all" ELSE TRUE
  /\ Set([Inner EXCEPT !.pc = "handler", !.dead = Inner.at \notin open])
  /\ UNCHANGED <<routes, open, known, isSending, isDirty, theSentry, deleted, last, renested, hangs>>

\* The handler returns.  The first loop asks the sentry before it advances; the
\* second advances first, which is only good while the signal exists.
RouteReturned ==
  /\ ~hangs /\ sendings # <<>> /\ Inner.pc = "handler"
  /\ \/ ~Inner.attached /\ Inner.part = "all" /\ sendings' = Rest
     \/ /\ Inner.attached /\ HasRoute(Inner.at)
        /\ Set([Inner EXCEPT !.pc = "loop", !.dead = FALSE, !.at = RouteAt(IndexOf(Inner.at) + 1)])
  /\ UNCHANGED <<routes, open, known, isSending, isDirty, theSentry, deleted, last, renested, hangs>>

\* send() returns and the sentry is destroyed.
RoutingEnds ==
  /\ Walk /\ Inner.at = NoRoute
  /\ sendings' = Rest
  /\ routes' = SweptRoutes /\ isSending' = FALSE /\ isDirty' = FALSE /\ theSentry' = 0
  /\ UNCHANGED <<open, known, deleted, last, renested, hangs>>

RouteInit ==
  /\ routes = <<>> /\ open = {} /\ known = [r \in Listeners |-> {}] /\ sendings = <<>>
  /\ isSending = FALSE /\ isDirty = FALSE /\ theSentry = 0 /\ deleted = {} /\ last = 0
  /\ renested = FALSE /\ hangs = FALSE

RouteNext ==
  \/ DeleteEventSignal \/ ToTyped \/ PassRoute \/ Route \/ RouteReturned \/ RoutingEnds
  \/ \E type \in {"type", "other"} : SendEvent(type)
  \/ \E c \in 1 .. MaxRoutes : CloseRoute(c)
  \/ \E r \in Listeners :
       \/ DeleteListener(r)
       \/ \E key \in {"all", "type"} : AddRoute(r, key) \/ RemoveRoute(r, key)

RouteSpec == RouteInit /\ [][RouteNext]_routeVars

-----------------------------------------------------------------------------
(* Properties.                                                             *)

RouteTypeOK ==
  /\ routes \in Seq([id : 1 .. MaxRoutes, key : {"all", "type"}, to : Listeners])
  /\ open \subseteq 1 .. MaxRoutes /\ known \in [Listeners -> SUBSET (1 .. MaxRoutes)]
  /\ (isDirty => isSending) /\ (isSending <=> theSentry # 0)
  /\ theSentry \in 0 .. MaxSends /\ last \in 0 .. MaxRoutes

\* Every open connection has its route and is known to its receiver, which
\* exists; a closed one keeps its route only until the active send() ends.
RoutesMatch ==
  ~renested /\ ~hangs =>
    /\ \A c \in open : HasRoute(c) /\ LET r == routes[IndexOf(c)].to IN
                         r \notin deleted /\ c \in known[r]
    /\ \A i \in DOMAIN routes : routes[i].id \in open \/ (isSending /\ isDirty)

\* The route an active send() stands on exists as long as the signal does.
StaysOnItsRoute ==
  ~renested => \A i \in DOMAIN sendings :
    sendings[i].attached => Exists /\ (sendings[i].at # NoRoute => HasRoute(sendings[i].at))

\* A slot that was disconnected, or whose object was deleted, is not called any more.
\* The code does not keep it: README, section 6.
NoClosedSlotCalled ==
  ~renested => \A i \in DOMAIN sendings : ~sendings[i].dead

\* ~Signal() comes to an end.
DestructorEnds == ~renested => ~(hangs /\ ~Exists)

\* Routes, connections and walks over the routes agree.
RoutesSound == RouteTypeOK /\ RoutesMatch /\ StaysOnItsRoute /\ DestructorEnds
=============================================================================
