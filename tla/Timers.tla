-------------------------------- MODULE Timers --------------------------------
(***************************************************************************)
(* Timer and the timers of SelectorBase: the multimap _timers, ordered by  *)
(* the time at which a timer was due when it was inserted, and waitUntil(),*)
(* which updates due timers and sleeps until the next one.  Everything     *)
(* happens in one thread; handlers of a timer and the user of the selector *)
(* start, stop, add and remove timers, and handlers throw.                 *)
(*                                                                         *)
(* Time is counted in units; a negative time is "no limit".                *)
(***************************************************************************)
EXTENDS Integers, Sequences, FiniteSets, SequencesExt, FiniteSetsExt

CONSTANTS
  Timer,      \* the timers
  Intervals,  \* intervals they are started with
  Moments,    \* absolute times that are given to start() and at()
  Limits,     \* times that are given to waitUntil(), besides none
  MaxTime,    \* bound: the clock stops there
  MaxCalls    \* bound: calls of timer methods

ASSUME TimersAssumption ==
  /\ Intervals \subseteq Nat \ {0}
  /\ Moments \subseteq Nat /\ Limits \subseteq Nat
  /\ MaxTime \in Nat /\ MaxCalls \in Nat

WaitInfinite == -1
NoTimer == "no timer"

VARIABLES
  clock,     \* the system's clock
  added,     \* timers whose _selector is set
  active, interval, finished, once,  \* of each timer
  timers,    \* _timers: entries in the order of the multimap
  pc,        \* where waitUntil() is; "user" if it was not called
  again,     \* TRUE in its last loop, which waits for a timer
  current,   \* the timer that is updated
  now,       \* the local now of updateTimer()
  ready,     \* its timerActive
  lowest,    \* timerTimeout of waitUntil()
  limit,     \* its argument
  until,     \* what the selector sleeps for
  calls,     \* bound: calls of timer methods
  begin,     \* history: begin[t], the first time at which t was due
  ticks,     \* history: ticks[t], how often t has been signalled since
  thrown,    \* history: TRUE if a handler has thrown
  overtaken  \* history: TRUE if a handler has added a timer that was due

ofTimers == <<active, interval, finished, once, begin, ticks>>
ofWait == <<pc, again, current, now, ready, lowest, limit, until>>
history == <<thrown, overtaken>>
vars == <<clock, added, ofTimers, timers, ofWait, calls, history>>

-----------------------------------------------------------------------------
(* The multimap.                                                           *)

\* insert(): behind the entries with the same key.
Insert(map, key, t) ==
  LET later == {i \in DOMAIN map : map[i].key > key}
  IN InsertAt(map, IF later = {} THEN Len(map) + 1 ELSE Min(later), [key |-> key, timer |-> t])

\* onRemoveTimer(): the first entry of t.
Erase(map, t) ==
  LET at == {i \in DOMAIN map : map[i].timer = t}
  IN IF at = {} THEN map ELSE RemoveAt(map, Min(at))

\* onTimerChanged() of a timer that is due at time d, or inactive.
TimerChanged(map, t, isActive, d) ==
  IF t \notin added THEN map
  ELSE IF isActive THEN Insert(map, d, t) ELSE Erase(map, t)

\* stop() as the first step of the other methods.
Stopped(t) == IF active[t] THEN TimerChanged(timers, t, FALSE, 0) ELSE timers

-----------------------------------------------------------------------------
(* The methods of a timer, called by a handler or outside of waitUntil().  *)

Method ==
  /\ pc \in {"user", "handler"} /\ calls < MaxCalls
  /\ calls' = calls + 1
  /\ UNCHANGED <<clock, ofWait, thrown>>

\* t is due at d, and then every i.
Activate(t, i, d, o) ==
  /\ active' = [active EXCEPT ![t] = TRUE]
  /\ interval' = [interval EXCEPT ![t] = i]
  /\ finished' = [finished EXCEPT ![t] = d]
  /\ once' = [once EXCEPT ![t] = o]
  /\ begin' = [begin EXCEPT ![t] = d]
  /\ ticks' = [ticks EXCEPT ![t] = 0]
  /\ timers' = TimerChanged(Stopped(t), t, TRUE, d)
  /\ UNCHANGED <<added, overtaken>>

\* start(interval).
Start(t, i) == Method /\ Activate(t, i, clock + i, FALSE)

\* start(startTime, interval): from s on, or at the next multiple of i after s.
StartAt(t, s, i) ==
  /\ Method
  /\ Activate(t, i, IF s > clock THEN s ELSE s + ((clock - s) \div i + 1) * i, FALSE)

\* after(interval).
After(t, i) == Method /\ Activate(t, i, clock + i, TRUE)

\* at(tickTime); the interval stays as it was.
At(t, d) ==
  /\ Method
  /\ \/ /\ d >= clock
        /\ Activate(t, interval[t], d, TRUE)
     \/ /\ d < clock
        /\ active' = [active EXCEPT ![t] = FALSE]
        /\ finished' = [finished EXCEPT ![t] = IF active[t] THEN 0 ELSE @]
        /\ once' = [once EXCEPT ![t] = TRUE]
        /\ timers' = Stopped(t)
        /\ ticks' = [ticks EXCEPT ![t] = 0]
        /\ UNCHANGED <<added, interval, begin, overtaken>>

\* stop().
Stop(t) ==
  /\ Method /\ active[t]
  /\ active' = [active EXCEPT ![t] = FALSE]
  /\ finished' = [finished EXCEPT ![t] = 0]
  /\ timers' = Stopped(t)
  /\ UNCHANGED <<added, interval, once, begin, ticks, overtaken>>

\* add(timer): setSelector(this).
Add(t) ==
  /\ Method /\ t \notin added
  /\ added' = added \cup {t}
  /\ timers' = IF active[t] THEN Insert(timers, finished[t], t) ELSE timers
  /\ overtaken' = (overtaken \/ (pc = "handler" /\ active[t] /\ finished[t] <= now))
  /\ UNCHANGED ofTimers

\* remove(timer): setSelector(0), also from the destructor of the timer.  A timer
\* that its own handler deletes is left out: update() goes on to read it.
RemoveTimer(t) ==
  /\ Method /\ t \in added
  /\ added' = added \ {t}
  /\ timers' = Erase(timers, t)
  /\ UNCHANGED <<ofTimers, overtaken>>

-----------------------------------------------------------------------------
(* waitUntil() and updateTimer().                                          *)

\* waitUntil(t).
WaitUntil(t) ==
  /\ pc = "user"
  /\ limit' = t
  /\ pc' = "begin"
  /\ UNCHANGED <<clock, added, ofTimers, timers, again, current, now, ready, lowest, until,
                 calls, history>>

\* waitUntil() is left, and with it its variables.
Leave ==
  /\ pc' = "user" /\ again' = FALSE /\ current' = NoTimer
  /\ now' = 0 /\ ready' = FALSE /\ lowest' = WaitInfinite
  /\ limit' = WaitInfinite /\ until' = WaitInfinite
  /\ UNCHANGED <<clock, added, ofTimers, timers, calls>>

\* updateTimer() looks at the clock, unless there are no timers.
UpdateTimer ==
  /\ pc = "begin"
  /\ pc' = "while"
  /\ \/ /\ timers = <<>>
        /\ ready' = FALSE
        /\ UNCHANGED now
     \/ /\ timers # <<>>
        /\ now' = clock
        /\ ready' = (clock >= finished[timers[1].timer])
  /\ UNCHANGED <<clock, added, ofTimers, timers, again, current, lowest, limit, until, calls, history>>

\* The first timer of the map is due: Timer::update().
TimerIsDue ==
  /\ pc = "while" /\ timers # <<>>
  /\ LET t == timers[1].timer IN
       /\ now >= finished[t]
       /\ current' = t
       /\ pc' = IF active[t] THEN "update" ELSE "rekey"
  /\ UNCHANGED <<clock, added, ofTimers, timers, again, now, ready, lowest, limit, until, calls, history>>

\* One turn of update(): the next time is set to d, a timer for one tick
\* stopped, and the signal is sent.
UpdateTo(d) ==
  /\ pc = "update" /\ active[current] /\ now >= finished[current]
  /\ active' = [active EXCEPT ![current] = ~once[current]]
  /\ finished' = [finished EXCEPT ![current] = IF once[current] THEN 0 ELSE d]
  /\ timers' = IF once[current] THEN TimerChanged(timers, current, FALSE, 0) ELSE timers
  /\ ticks' = [ticks EXCEPT ![current] = @ + 1]
  /\ pc' = "handler"
  /\ UNCHANGED <<clock, added, interval, once, begin, again, current, now, ready, lowest,
                 limit, until, calls, history>>

\* Deviation: ticks that were missed are not made up for.
UpdateFromNow == UpdateTo(now + interval[current])

Update == UpdateTo(finished[current] + interval[current])

\* A step that only goes on in waitUntil() and may change the map.
GoOn(from, to) ==
  /\ pc = from /\ pc' = to
  /\ UNCHANGED <<clock, added, ofTimers, again, current, now, ready, lowest, limit, until, calls, history>>

\* The slots of the timer have returned ...
HandlerReturns == GoOn("handler", "update") /\ UNCHANGED timers

\* ... or one throws, out of waitUntil().
HandlerThrows == pc = "handler" /\ Leave /\ thrown' = TRUE /\ UNCHANGED overtaken

\* update() returns.
UpdateReturns ==
  /\ GoOn("update", "rekey") /\ UNCHANGED timers
  /\ ~(active[current] /\ now >= finished[current])

\* Deviation: the entry of the timer keeps its key.
RekeyNothing == GoOn("rekey", "while") /\ UNCHANGED timers

\* The first entry of the map, whichever timer it is of now, gets its new key.
Rekey ==
  /\ GoOn("rekey", "while")
  /\ timers' = IF timers = <<>> THEN timers
               ELSE LET t == timers[1].timer IN Insert(Tail(timers), finished[t], t)

\* timerTimeout: when the next timer is due.
NextTimeout == IF timers = <<>> THEN lowest ELSE finished[timers[1].timer]

\* Deviation: a timer that is nearer than the limit is not looked at.
TimerIgnored == NextTimeout < 0 \/ limit >= 0

\* No timer becomes active within the limit of waitUntil().
NoTimerBefore == NextTimeout < 0 \/ (limit >= 0 /\ limit < NextTimeout)

\* updateTimer() returns.  waitUntil() returns after a look at the devices if a
\* timer was due, or sleeps: until its own limit if that is before the next
\* timer, or in its loop until the timer.
Updated ==
  /\ pc = "while"
  /\ timers # <<>> => now < finished[timers[1].timer]
  /\ \/ ready /\ Leave /\ UNCHANGED history
     \/ /\ ~ready
        /\ pc' = "sleep"
        /\ lowest' = NextTimeout
        /\ again' = (again \/ ~NoTimerBefore)
        /\ until' = IF again' THEN NextTimeout ELSE limit
        /\ UNCHANGED <<clock, added, ofTimers, timers, current, now, ready, limit, calls, history>>

\* The poll ends because of a device, whose handlers act as the user does ...
PollReady == pc = "sleep" /\ Leave /\ UNCHANGED history

\* ... or because of its time.
PollTimeout ==
  /\ pc = "sleep" /\ until >= 0 /\ clock >= until
  /\ \/ again /\ GoOn("sleep", "begin") /\ UNCHANGED timers
     \/ ~again /\ Leave /\ UNCHANGED history

\* Time passes.
Tick ==
  /\ clock < MaxTime
  /\ clock' = clock + 1
  /\ UNCHANGED <<added, ofTimers, timers, ofWait, calls, history>>

-----------------------------------------------------------------------------

Init ==
  /\ clock = 0
  /\ added = Timer
  /\ active = [t \in Timer |-> FALSE] /\ interval = [t \in Timer |-> 0]
  /\ finished = [t \in Timer |-> 0]
  /\ once = [t \in Timer |-> FALSE]  \* not initialized, not read before it is set
  /\ timers = <<>>
  /\ pc = "user" /\ again = FALSE /\ current = NoTimer
  /\ now = 0 /\ ready = FALSE /\ lowest = WaitInfinite
  /\ limit = WaitInfinite /\ until = WaitInfinite
  /\ calls = 0
  /\ begin = [t \in Timer |-> 0] /\ ticks = [t \in Timer |-> 0]
  /\ thrown = FALSE /\ overtaken = FALSE

Call(t) ==
  \/ \E i \in Intervals : \/ Start(t, i) \/ After(t, i)
                          \/ \E s \in Moments : StartAt(t, s, i)
  \/ \E d \in Moments : At(t, d)
  \/ Stop(t) \/ Add(t) \/ RemoveTimer(t)

\* What waitUntil() does by itself.
Step ==
  \/ UpdateTimer \/ TimerIsDue \/ Update \/ HandlerReturns \/ UpdateReturns \/ Rekey
  \/ Updated \/ PollTimeout

Next ==
  \/ \E t \in Timer : Call(t)
  \/ \E t \in Limits \cup {WaitInfinite} : WaitUntil(t)
  \/ Step \/ HandlerThrows \/ PollReady \/ Tick

\* waitUntil() is called again and again, its steps and handlers come to an end.
Fairness == WF_vars(Step) /\ WF_vars(\E t \in Limits \cup {WaitInfinite} : WaitUntil(t))

Spec == Init /\ [][Next]_vars /\ Fairness

-----------------------------------------------------------------------------
(* Properties.                                                             *)

TypeOK ==
  /\ clock \in 0..MaxTime /\ added \subseteq Timer
  /\ active \in [Timer -> BOOLEAN] /\ once \in [Timer -> BOOLEAN]
  /\ interval \in [Timer -> Intervals \cup {0}] /\ finished \in [Timer -> Nat]
  /\ timers \in Seq([key : Nat, timer : added])
  /\ pc \in {"user", "begin", "while", "update", "handler", "rekey", "sleep"}
  /\ current \in Timer \cup {NoTimer} /\ (pc \in {"update", "handler"} => current \in Timer)
  /\ now \in 0..MaxTime /\ ready \in BOOLEAN /\ again \in BOOLEAN
  /\ {lowest, limit, until} \subseteq Nat \cup {WaitInfinite}
  /\ calls \in 0..MaxCalls
  /\ begin \in [Timer -> Nat] /\ ticks \in [Timer -> Nat] /\ thrown \in BOOLEAN /\ overtaken \in BOOLEAN

\* The selector has exactly one entry for each of its active timers, and none
\* for others, whatever handlers do with the timer that is being updated.
MapMatches ==
  \A t \in Timer :
    Cardinality({i \in DOMAIN timers : timers[i].timer = t})
      = IF t \in added /\ active[t] THEN 1 ELSE 0

\* The keys of the map are right again when waitUntil() is left.  They may not
\* be if a handler throws, or adds a timer that is already due: updateTimer()
\* then re-keys the first entry, which need not be that of the timer it has
\* updated (README, section 6).
KeysSettled == ~thrown /\ ~overtaken

\* The selector does not sleep longer than until the next timer is due: the
\* first entry of the map is that of the timer that is due first, whatever else
\* handlers do.
NoTimerLate ==
  pc = "sleep" /\ KeysSettled => \A t \in added : active[t] => until >= 0 /\ until <= finished[t]

\* waitUntil() does not sleep longer than it was told to, also when it has
\* waited for a timer first.
InTime == pc = "sleep" /\ limit >= 0 => until >= 0 /\ until <= limit

\* When the selector goes to sleep each tick that was due has been signalled,
\* and none of them twice, although ticks are made up for after a long handler.
NoTickLost ==
  pc = "sleep" =>
    \A t \in added : active[t] /\ ~once[t] =>
      /\ KeysSettled => now < finished[t]
      /\ finished[t] = begin[t] + ticks[t] * interval[t]

\* A timer that was started by after() or at() ticks once at most.
OnceOnly == \A t \in Timer : once[t] => ticks[t] <= 1

\* A timer that is due ticks, if it is not stopped or removed before and the
\* keys of the map are right.
DueIsServed ==
  \A t \in Timer :
    t \in added /\ active[t] /\ finished[t] <= clock
      ~> t \notin added \/ ~active[t] \/ finished[t] > clock \/ ~KeysSettled

\* The map of the selector and the ticks agree with what the timers were told.
TimersSound == TypeOK /\ MapMatches /\ NoTickLost /\ OnceOnly

\* The selector sleeps neither over a timer nor over the caller's limit.
SleepsInTime == NoTimerLate /\ InTime
=============================================================================
