----------------------------- MODULE SharedProofs -----------------------------
(***************************************************************************)
(* Theorems about what several threads share: the thread safe queue, for   *)
(* any set of threads, elements and limits and any bound on its length,    *)
(* and logging, for any number of threads, messages and what messages are  *)
(* put together in, and any configurations.                                *)
(***************************************************************************)
EXTENDS Queue, Logging, FiniteSetTheorems, SequenceTheorems, TLAPS

Getters == In({"get", "getTimed"})

\* A put that has not returned holds the element it will store.
PutHoldsElement == \A t \in Threads : call[t] = "put" => arg[t] \in Elements

\* The threads are inside methods that this instance's clients call.
CallsUsed == \A t \in Threads : call[t] # "none" => call[t] \in Calls

\* The inductive invariant of the typing argument: _numWaiting stays a natural
\* number because it counts the threads inside get.
IndType ==
  /\ TypeOK
  /\ PutHoldsElement
  /\ CallsUsed
  /\ IsFiniteSet(Getters)
  /\ CountsGetters

-----------------------------------------------------------------------------
(* What the building blocks of the actions do.                             *)

LEMMA LeaveEffect ==
  ASSUME TypeOK, NEW t \in Threads, NEW ne \in BOOLEAN, NEW nf \in BOOLEAN,
         Leave(t, ne, nf)
  PROVE  /\ call' = [call EXCEPT ![t] = "none"]
         /\ wait' \in [Threads -> {"run", "asleep", "woken"}]
  BY DEF Leave, SetWait, TypeOK

LEMMA SleepEffect ==
  ASSUME TypeOK, NEW t \in Threads, NEW m, Sleep(t, m)
  PROVE  /\ call' = [call EXCEPT ![t] = m]
         /\ wait' \in [Threads -> {"run", "asleep", "woken"}]
  BY DEF Sleep, SetWait, TypeOK

\* A thread that enters or leaves a method that is not a get leaves the
\* getters alone.
LEMMA SameGetters ==
  ASSUME TypeOK, NEW t \in Threads, NEW m,
         call' = [call EXCEPT ![t] = m],
         m \notin {"get", "getTimed"}, call[t] \notin {"get", "getTimed"}
  PROVE  Getters' = Getters
  BY DEF Getters, In, TypeOK

LEMMA GetterEnters ==
  ASSUME TypeOK, NEW t \in Threads, NEW m \in {"get", "getTimed"},
         call' = [call EXCEPT ![t] = m], call[t] = "none",
         IsFiniteSet(Getters), CountsGetters, numWaiting' = numWaiting + 1
  PROVE  /\ IsFiniteSet(Getters)' /\ CountsGetters'
  <1>1. Getters' = Getters \cup {t} /\ t \notin Getters
    BY DEF Getters, In, TypeOK
  <1>2. /\ IsFiniteSet(Getters \cup {t})
        /\ Cardinality(Getters \cup {t}) = Cardinality(Getters) + 1
    BY <1>1, FS_AddElement
  <1>3. IsFiniteSet(Getters')
    BY <1>1, <1>2
  <1>4. Cardinality(Getters') = numWaiting'
    BY <1>1, <1>2 DEF CountsGetters, Getters
  <1> QED
    BY <1>3, <1>4 DEF CountsGetters, Getters

LEMMA GetterLeaves ==
  ASSUME TypeOK, NEW t \in Threads, call[t] \in {"get", "getTimed"},
         call' = [call EXCEPT ![t] = "none"],
         IsFiniteSet(Getters), CountsGetters, numWaiting' = numWaiting - 1
  PROVE  /\ IsFiniteSet(Getters)' /\ CountsGetters'
         /\ numWaiting' \in Nat
  <1>1. Getters' = Getters \ {t} /\ t \in Getters
    BY DEF Getters, In, TypeOK
  <1>2. /\ IsFiniteSet(Getters \ {t})
        /\ Cardinality(Getters \ {t}) = Cardinality(Getters) - 1
    BY <1>1, FS_RemoveElement
  <1>3. Cardinality(Getters') = numWaiting'
    BY <1>1, <1>2 DEF CountsGetters, Getters
  <1>4. Cardinality(Getters \ {t}) \in Nat
    BY <1>2, FS_CardinalityType
  <1> QED
    BY <1>1, <1>2, <1>3, <1>4 DEF CountsGetters, Getters

LEMMA GettersStay ==
  ASSUME Getters' = Getters, IsFiniteSet(Getters), CountsGetters,
         numWaiting' = numWaiting
  PROVE  IsFiniteSet(Getters)' /\ CountsGetters'
  BY DEF CountsGetters, Getters

LEMMA FetchEffect ==
  ASSUME TypeOK, NEW t \in Threads, Fetch(t)
  PROVE  /\ call' = [call EXCEPT ![t] = "none"]
         /\ wait' \in [Threads -> {"run", "asleep", "woken"}]
         /\ queue' \in Seq(Elements)
         /\ result' \in [Threads -> Elements \cup {Nothing, Garbage}]
         /\ UNCHANGED <<maxSize, arg, stale, corrupt>>
  <1>1. (Tail(queue) # <<>>) \in BOOLEAN
    OBVIOUS
  <1>2. /\ call' = [call EXCEPT ![t] = "none"]
        /\ wait' \in [Threads -> {"run", "asleep", "woken"}]
    BY <1>1, LeaveEffect DEF Fetch
  <1>3. queue' \in Seq(Elements) /\ Head(queue) \in Elements
    BY DEF Fetch, TypeOK
  <1> QED
    BY <1>2, <1>3 DEF Fetch, TypeOK

LEMMA StoreEffect ==
  ASSUME TypeOK, NEW t \in Threads, NEW e \in Elements, Store(t, e)
  PROVE  /\ call' = [call EXCEPT ![t] = "none"]
         /\ wait' \in [Threads -> {"run", "asleep", "woken"}]
         /\ queue' \in Seq(Elements)
         /\ arg' = [arg EXCEPT ![t] = Nothing]
         /\ UNCHANGED <<maxSize, numWaiting, stale, result, corrupt>>
  <1>1. PICK m1 \in MaxSizeReads(t), m2 \in MaxSizeReads(t) :
               Leave(t, TRUE, m1 > 0 /\ Len(queue) + 1 < m2)
    BY DEF Store
  <1>2. (m1 > 0 /\ Len(queue) + 1 < m2) \in BOOLEAN
    OBVIOUS
  <1>3. /\ call' = [call EXCEPT ![t] = "none"]
        /\ wait' \in [Threads -> {"run", "asleep", "woken"}]
    BY <1>1, <1>2, LeaveEffect
  <1> QED
    BY <1>3 DEF Store, TypeOK

-----------------------------------------------------------------------------
(* The typing argument, one step per action.                               *)

LEMMA InitIndType == Init => IndType
  <1> SUFFICES ASSUME Init PROVE IndType
    OBVIOUS
  <1>1. Getters = {}
    BY DEF Init, Getters, In
  <1>2. IsFiniteSet(Getters) /\ Cardinality(Getters) = 0
    BY <1>1, FS_EmptySet
  <1>3. TypeOK
    <2>1. queue \in Seq(Elements) /\ maxSize \in Nat /\ numWaiting \in Nat
      BY QueueAssumption DEF Init
    <2>2. /\ call \in [Threads -> AllCalls \cup {"none"}]
          /\ wait \in [Threads -> {"run", "asleep", "woken"}]
          /\ stale \in [Threads -> Nat]
      BY DEF Init
    <2>3. /\ arg \in [Threads -> Elements \cup {Nothing}]
          /\ result \in [Threads -> Elements \cup {Nothing, Garbage}]
          /\ corrupt \in BOOLEAN
      BY DEF Init
    <2> QED
      BY <2>1, <2>2, <2>3 DEF TypeOK
  <1> QED
    BY <1>2, <1>3 DEF IndType, Init, PutHoldsElement, CallsUsed, CountsGetters,
       Getters

LEMMA EnterIndType ==
  ASSUME IndType, NEW t \in Threads, Enter(t)
  PROVE  IndType'
  <1> USE DEF IndType
  <1>1. CASE GetAtOnce(t)
    <2>1. /\ call[t] = "none"
          /\ Fetch(t)
          /\ numWaiting' = numWaiting
      BY <1>1 DEF GetAtOnce, Idle
    <2>2. Getters' = Getters
      BY <2>1, FetchEffect, SameGetters
    <2> QED
      BY <2>1, <2>2, FetchEffect, GettersStay
         DEF TypeOK, PutHoldsElement, CallsUsed
  <1>2. CASE \E m \in AllCalls : GetWait(t, m)
    <2>1. PICK m \in AllCalls : GetWait(t, m)
      BY <1>2
    <2>2. /\ m \in {"get", "getTimed"} /\ m \in Calls
          /\ call[t] = "none"
          /\ call' = [call EXCEPT ![t] = m]
          /\ wait' \in [Threads -> {"run", "asleep", "woken"}]
          /\ numWaiting' = numWaiting + 1
          /\ UNCHANGED <<queue, maxSize, arg, stale, result, corrupt>>
      BY <2>1, SleepEffect DEF GetWait, Idle
    <2>3. IsFiniteSet(Getters)' /\ CountsGetters'
      BY <2>2, GetterEnters
    <2> QED
      BY <2>2, <2>3 DEF TypeOK, PutHoldsElement, CallsUsed
  <1>3. CASE \E m \in AllCalls : WaitEmptyWait(t, m)
    <2>1. PICK m \in AllCalls : WaitEmptyWait(t, m)
      BY <1>3
    <2>2. /\ m \in {"waitEmpty", "waitEmptyTimed"} /\ m \in Calls
          /\ call[t] = "none"
          /\ call' = [call EXCEPT ![t] = m]
          /\ wait' \in [Threads -> {"run", "asleep", "woken"}]
          /\ UNCHANGED <<queue, maxSize, numWaiting, arg, stale, result, corrupt>>
      BY <2>1, SleepEffect DEF WaitEmptyWait, Idle
    <2>3. Getters' = Getters
      BY <2>2, SameGetters
    <2> QED
      BY <2>2, <2>3, GettersStay DEF TypeOK, PutHoldsElement, CallsUsed
  <1>4. CASE TryGet(t)
    <2>1. CASE Fetch(t)
      <3>1. call[t] = "none" /\ numWaiting' = numWaiting
        BY <1>4 DEF TryGet, Idle
      <3>2. Getters' = Getters
        BY <2>1, <3>1, FetchEffect, SameGetters
      <3> QED
        BY <2>1, <3>1, <3>2, FetchEffect, GettersStay
           DEF TypeOK, PutHoldsElement, CallsUsed
    <2>2. CASE ~Fetch(t)
      <3>1. /\ result' \in [Threads -> Elements \cup {Nothing, Garbage}]
            /\ UNCHANGED <<queue, maxSize, numWaiting, call, wait, arg, stale, corrupt>>
        BY <1>4, <2>2 DEF TryGet, TypeOK
      <3>2. Getters' = Getters
        BY <3>1 DEF Getters, In
      <3> QED
        BY <3>1, <3>2, GettersStay DEF TypeOK, PutHoldsElement, CallsUsed
    <2> QED
      BY <2>1, <2>2
  <1>5. ASSUME NEW e \in Elements, PutAtOnce(t, e)
        PROVE  IndType'
    <2>1. Store(t, e) /\ call[t] = "none"
      BY <1>5 DEF PutAtOnce, Idle
    <2>2. Getters' = Getters
      BY <2>1, StoreEffect, SameGetters
    <2> QED
      BY <2>1, <2>2, StoreEffect, GettersStay
         DEF TypeOK, PutHoldsElement, CallsUsed
  <1>6. ASSUME NEW e \in Elements, PutWait(t, e)
        PROVE  IndType'
    <2>1. /\ "put" \in Calls /\ call[t] = "none"
          /\ arg' = [arg EXCEPT ![t] = e]
          /\ call' = [call EXCEPT ![t] = "put"]
          /\ wait' \in [Threads -> {"run", "asleep", "woken"}]
          /\ UNCHANGED <<queue, maxSize, numWaiting, stale, result, corrupt>>
      BY <1>6, SleepEffect DEF PutWait, Idle
    <2>2. Getters' = Getters
      BY <2>1, SameGetters
    <2> QED
      BY <2>1, <2>2, GettersStay
         DEF TypeOK, PutHoldsElement, CallsUsed, AllCalls
  <1>7. ASSUME NEW e \in Elements, RemoveCall(t, e)
        PROVE  IndType'
    <2>1. /\ result' \in [Threads -> Elements \cup {Nothing, Garbage}]
          /\ UNCHANGED <<queue, maxSize, numWaiting, call, wait, arg, stale, corrupt>>
      BY <1>7 DEF RemoveCall, TypeOK
    <2>2. Getters' = Getters
      BY <2>1 DEF Getters, In
    <2> QED
      BY <2>1, <2>2, GettersStay DEF TypeOK, PutHoldsElement, CallsUsed
  <1>8. ASSUME NEW m \in Limits, MaxSizeStore(t, m)
        PROVE  IndType'
    <2>1. /\ "maxSize" \in Calls /\ call[t] = "none"
          /\ maxSize' \in Nat
          /\ stale' \in [Threads -> Nat]
          /\ call' = [call EXCEPT ![t] = "maxSize"]
          /\ UNCHANGED <<queue, numWaiting, wait, arg, result, corrupt>>
      BY <1>8, QueueAssumption DEF MaxSizeStore, Idle, TypeOK
    <2>2. Getters' = Getters
      BY <2>1, SameGetters
    <2> QED
      BY <2>1, <2>2, GettersStay
         DEF TypeOK, PutHoldsElement, CallsUsed, AllCalls
  <1> QED
    BY <1>1, <1>2, <1>3, <1>4, <1>5, <1>6, <1>7, <1>8 DEF Enter

LEMMA ResumeIndType ==
  ASSUME IndType, NEW t \in Threads, Resume(t)
  PROVE  IndType'
  <1> USE DEF IndType
  <1>1. CASE GetResume(t)
    <2>1. CASE Fetch(t) /\ numWaiting' = numWaiting - 1
      <3>1. call[t] = "get"
        BY <1>1 DEF GetResume, Resumes
      <3>2. IsFiniteSet(Getters)' /\ CountsGetters' /\ numWaiting' \in Nat
        BY <2>1, <3>1, FetchEffect, GetterLeaves
      <3> QED
        BY <2>1, <3>2, FetchEffect DEF TypeOK, PutHoldsElement, CallsUsed
    <2>2. CASE ~(Fetch(t) /\ numWaiting' = numWaiting - 1)
      <3>1. /\ call[t] = "get"
            /\ call' = [call EXCEPT ![t] = "get"]
            /\ wait' \in [Threads -> {"run", "asleep", "woken"}]
            /\ UNCHANGED <<queue, maxSize, numWaiting, arg, stale, result, corrupt>>
        BY <1>1, <2>2, SleepEffect DEF GetResume, Resumes
      <3>2. call' = call
        BY <3>1 DEF TypeOK
      <3>3. Getters' = Getters
        BY <3>2 DEF Getters, In
      <3> QED
        BY <3>1, <3>2, <3>3, GettersStay DEF TypeOK, PutHoldsElement, CallsUsed
    <2> QED
      BY <2>1, <2>2
  <1>2. CASE GetTimedResume(t)
    <2>1. call[t] = "getTimed" /\ numWaiting' = numWaiting - 1
      BY <1>2 DEF GetTimedResume, Resumes
    <2>2. CASE Fetch(t)
      <3>1. IsFiniteSet(Getters)' /\ CountsGetters' /\ numWaiting' \in Nat
        BY <2>1, <2>2, FetchEffect, GetterLeaves
      <3> QED
        BY <2>2, <3>1, FetchEffect DEF TypeOK, PutHoldsElement, CallsUsed
    <2>3. CASE ~Fetch(t)
      <3>1. /\ call' = [call EXCEPT ![t] = "none"]
            /\ wait' \in [Threads -> {"run", "asleep", "woken"}]
            /\ corrupt' = TRUE
            /\ result' = [result EXCEPT ![t] = Garbage]
            /\ UNCHANGED <<queue, maxSize, arg, stale>>
        BY <1>2, <2>3, LeaveEffect DEF GetTimedResume
      <3>2. IsFiniteSet(Getters)' /\ CountsGetters' /\ numWaiting' \in Nat
        BY <2>1, <3>1, GetterLeaves
      <3> QED
        BY <3>1, <3>2 DEF TypeOK, PutHoldsElement, CallsUsed
    <2> QED
      BY <2>2, <2>3
  <1>3. CASE PutResume(t)
    <2>0. call[t] = "put" /\ arg[t] \in Elements
      BY <1>3 DEF PutResume, Resumes, PutHoldsElement
    <2>1. CASE Store(t, arg[t])
      <3>1. /\ call' = [call EXCEPT ![t] = "none"]
            /\ wait' \in [Threads -> {"run", "asleep", "woken"}]
            /\ queue' \in Seq(Elements)
            /\ arg' = [arg EXCEPT ![t] = Nothing]
            /\ UNCHANGED <<maxSize, numWaiting, stale, result, corrupt>>
        <4> DEFINE e == arg[t]
        <4>1. e \in Elements /\ Store(t, e)
          BY <2>0, <2>1
        <4> HIDE DEF e
        <4> QED
          BY <4>1, StoreEffect
      <3>2. Getters' = Getters
        BY <2>0, <3>1, SameGetters
      <3> QED
        BY <2>0, <3>1, <3>2, GettersStay
           DEF TypeOK, PutHoldsElement, CallsUsed
    <2>2. CASE ~Store(t, arg[t])
      <3>1. /\ call' = [call EXCEPT ![t] = "put"]
            /\ wait' \in [Threads -> {"run", "asleep", "woken"}]
            /\ UNCHANGED <<queue, maxSize, numWaiting, arg, stale, result, corrupt>>
        BY <1>3, <2>2, SleepEffect DEF PutResume
      <3>2. call' = call
        BY <2>0, <3>1 DEF TypeOK
      <3>3. Getters' = Getters
        BY <3>2 DEF Getters, In
      <3> QED
        BY <3>1, <3>2, <3>3, GettersStay DEF TypeOK, PutHoldsElement, CallsUsed
    <2> QED
      BY <2>1, <2>2
  <1>4. ASSUME NEW m \in AllCalls, WaitEmptyResume(t, m)
        PROVE  IndType'
    <2>1. /\ m \in {"waitEmpty", "waitEmptyTimed"} /\ call[t] = m
          /\ UNCHANGED <<queue, maxSize, numWaiting, arg, stale, result, corrupt>>
      BY <1>4 DEF WaitEmptyResume, Resumes
    <2>2. /\ \/ call' = [call EXCEPT ![t] = "none"]
             \/ call' = [call EXCEPT ![t] = m]
          /\ wait' \in [Threads -> {"run", "asleep", "woken"}]
      BY <1>4, LeaveEffect, SleepEffect DEF WaitEmptyResume
    <2>3. Getters' = Getters
      BY <2>1, <2>2, SameGetters
    <2> QED
      BY <2>1, <2>2, <2>3, GettersStay DEF TypeOK, PutHoldsElement, CallsUsed
  <1>5. CASE MaxSizeNotify(t)
    <2>1. (Len(queue) < maxSize) \in BOOLEAN
      OBVIOUS
    <2>2. /\ call[t] = "maxSize"
          /\ call' = [call EXCEPT ![t] = "none"]
          /\ wait' \in [Threads -> {"run", "asleep", "woken"}]
          /\ stale' = [stale EXCEPT ![t] = 0]
          /\ UNCHANGED <<queue, maxSize, numWaiting, arg, result, corrupt>>
      BY <1>5, <2>1, LeaveEffect DEF MaxSizeNotify
    <2>3. Getters' = Getters
      BY <2>2, SameGetters
    <2> QED
      BY <2>2, <2>3, GettersStay DEF TypeOK, PutHoldsElement, CallsUsed
  <1> QED
    BY <1>1, <1>2, <1>3, <1>4, <1>5 DEF Resume

LEMMA OtherIndType ==
  ASSUME IndType, NEW t \in Threads, Expire(t) \/ SpuriousWakeup(t)
  PROVE  IndType'
  <1> USE DEF IndType
  <1>1. CASE GetTimedExpire(t)
    <2>1. /\ call[t] = "getTimed"
          /\ call' = [call EXCEPT ![t] = "none"]
          /\ wait' \in [Threads -> {"run", "asleep", "woken"}]
          /\ numWaiting' = numWaiting - 1
          /\ result' = [result EXCEPT ![t] = Nothing]
          /\ UNCHANGED <<queue, maxSize, arg, stale, corrupt>>
      BY <1>1, LeaveEffect DEF GetTimedExpire
    <2>2. IsFiniteSet(Getters)' /\ CountsGetters' /\ numWaiting' \in Nat
      BY <2>1, GetterLeaves
    <2> QED
      BY <2>1, <2>2 DEF TypeOK, PutHoldsElement, CallsUsed
  <1>2. CASE WaitEmptyExpire(t)
    <2>1. /\ call[t] = "waitEmptyTimed"
          /\ call' = [call EXCEPT ![t] = "none"]
          /\ wait' \in [Threads -> {"run", "asleep", "woken"}]
          /\ UNCHANGED <<queue, maxSize, numWaiting, arg, stale, result, corrupt>>
      BY <1>2, LeaveEffect DEF WaitEmptyExpire
    <2>2. Getters' = Getters
      BY <2>1, SameGetters
    <2> QED
      BY <2>1, <2>2, GettersStay DEF TypeOK, PutHoldsElement, CallsUsed
  <1>3. CASE SpuriousWakeup(t)
    <2>1. /\ wait' \in [Threads -> {"run", "asleep", "woken"}]
          /\ UNCHANGED <<queue, maxSize, numWaiting, call, arg, stale, result, corrupt>>
      BY <1>3 DEF SpuriousWakeup, SetWait, TypeOK
    <2>2. Getters' = Getters
      BY <2>1 DEF Getters, In
    <2> QED
      BY <2>1, <2>2, GettersStay DEF TypeOK, PutHoldsElement, CallsUsed
  <1> QED
    BY <1>1, <1>2, <1>3 DEF Expire

LEMMA StutterIndType ==
  ASSUME IndType, UNCHANGED vars
  PROVE  IndType'
  <1>1. Getters' = Getters
    BY DEF Getters, In, vars
  <1> QED
    BY <1>1, GettersStay DEF IndType, TypeOK, PutHoldsElement, CallsUsed, vars

\* The invariant behind the type theorem and the later theorems.
LEMMA IndTypeInvariant == Spec => []IndType
  <1>1. IndType /\ [Next]_vars => IndType'
    BY EnterIndType, ResumeIndType, OtherIndType, StutterIndType DEF Next
  <1> QED
    BY InitIndType, <1>1, PTL DEF Spec

\* The state of the queue keeps its type whatever the threads call; the step
\* that is not local is _numWaiting, which never drops below zero.
THEOREM TypeCorrect == Spec => []TypeOK
  BY IndTypeInvariant, PTL DEF IndType

\* numWaiting() always reports exactly the threads that are inside get.
THEOREM WaitingCounted == Spec => []CountsGetters
  BY IndTypeInvariant, PTL DEF IndType

\* Both at once, as the runs check it.
THEOREM WaitingAccounted == Spec => []Accounted
  BY TypeCorrect, WaitingCounted, PTL DEF Accounted

-----------------------------------------------------------------------------
(* No lost wake-up of get().                                               *)

\* The clients of this instance use neither get(timeout) nor waitEmpty, the
\* methods that share _notEmpty with get().
OnlyPlainGet == Calls \cap {"getTimed", "waitEmpty", "waitEmptyTimed"} = {}

\* Then whoever sleeps on _notEmpty sleeps in get().
LEMMA OnlyGetsOnNotEmpty ==
  ASSUME OnlyPlainGet, CallsUsed
  PROVE  Asleep(NotEmptyCalls) = Asleep({"get"})
  BY DEF OnlyPlainGet, CallsUsed, Asleep, In, NotEmptyCalls

\* A thread that leaves its method with notify_one on _notEmpty leaves behind
\* a woken get() if any was asleep.
LEMMA LeaveWakesGet ==
  ASSUME OnlyPlainGet, CallsUsed, TypeOK, NEW t \in Threads, NEW nf \in BOOLEAN,
         Leave(t, TRUE, nf), wait[t] # "asleep" \/ call[t] # "get"
  PROVE  Asleep({"get"})' # {} => Woken({"get"})' # {}
  <1>1. SUFFICES ASSUME NEW u \in Asleep({"get"})'
                 PROVE  Woken({"get"})' # {}
    OBVIOUS
  <1>2. PICK e \in NotifyOne(NotEmptyCalls),
             f \in IF nf THEN NotifyOne(NotFullCalls) ELSE {{}} :
               SetWait(t, "run", e \cup f)
    BY DEF Leave
  <1>3. u \in Asleep({"get"})
    BY <1>2 DEF Leave, SetWait, Asleep, In, TypeOK
  <1>4. PICK v \in Asleep({"get"}) : e = {v}
    BY <1>2, <1>3, OnlyGetsOnNotEmpty DEF NotifyOne
  <1>5. v \in Threads /\ v # t /\ call[v] = "get"
    BY <1>4 DEF Asleep, In
  <1>6. wait'[v] = "woken" /\ call'[v] = "get"
    BY <1>2, <1>4, <1>5 DEF Leave, SetWait, TypeOK
  <1> QED
    BY <1>5, <1>6 DEF Woken, In

\* While the queue and every thread in get() stay as they are, or are woken,
\* no wake-up is lost.
LEMMA GetsUndisturbed ==
  ASSUME NoLostGet, TypeOK, queue' = queue,
         \A u \in Threads : /\ call'[u] = "get" <=> call[u] = "get"
                            /\ call[u] = "get" => \/ wait'[u] = wait[u]
                                                  \/ wait'[u] = "woken"
  PROVE  NoLostGet'
  BY DEF NoLostGet, Asleep, Woken, In

LEMMA NoLostGetStep ==
  ASSUME OnlyPlainGet, IndType, IndType', NoLostGet, [Next]_vars
  PROVE  NoLostGet'
  <1> USE DEF IndType
  <1>1. ASSUME NEW t \in Threads, Fetch(t), call[t] # "get" \/ wait[t] = "woken"
        PROVE  NoLostGet'
    <2>1. CASE Tail(queue) = <<>>
      BY <1>1, <2>1 DEF Fetch, NoLostGet
    <2>2. CASE Tail(queue) # <<>>
      <3>1. Leave(t, TRUE, TRUE)
        BY <1>1, <2>2 DEF Fetch
      <3> QED
        BY <1>1, <3>1, LeaveWakesGet DEF NoLostGet
    <2> QED
      BY <2>1, <2>2
  <1>2. ASSUME NEW t \in Threads, NEW e, Store(t, e), call[t] # "get"
        PROVE  NoLostGet'
    <2>1. PICK m1 \in MaxSizeReads(t), m2 \in MaxSizeReads(t) :
                 Leave(t, TRUE, m1 > 0 /\ Len(queue) + 1 < m2)
      BY <1>2 DEF Store
    <2>2. (m1 > 0 /\ Len(queue) + 1 < m2) \in BOOLEAN
      OBVIOUS
    <2> QED
      BY <1>2, <2>1, <2>2, LeaveWakesGet DEF NoLostGet
  <1>3. ASSUME NEW t \in Threads, Enter(t)
        PROVE  NoLostGet'
    <2>0. call[t] = "none"
      BY <1>3 DEF Enter, GetAtOnce, GetWait, WaitEmptyWait, TryGet, PutAtOnce,
         PutWait, RemoveCall, MaxSizeStore, Idle
    <2>1. CASE GetAtOnce(t) \/ (TryGet(t) /\ Fetch(t))
      BY <1>1, <2>0, <2>1 DEF GetAtOnce
    <2>2. CASE TryGet(t) /\ ~Fetch(t)
      BY <2>2, GetsUndisturbed DEF TryGet
    <2>3. CASE \E m \in AllCalls : GetWait(t, m)
      BY <2>3 DEF GetWait, NoLostGet
    <2>4. CASE \E m \in AllCalls : WaitEmptyWait(t, m)
      BY <2>4 DEF WaitEmptyWait, Idle, OnlyPlainGet
    <2>5. CASE \E e \in Elements : PutAtOnce(t, e)
      BY <1>2, <2>0, <2>5 DEF PutAtOnce
    <2>6. CASE \E e \in Elements : PutWait(t, e)
      BY <2>0, <2>6, GetsUndisturbed DEF PutWait, Sleep, SetWait, TypeOK
    <2>7. CASE \E e \in Elements : RemoveCall(t, e)
      BY <2>7, GetsUndisturbed DEF RemoveCall
    <2>8. CASE \E m \in Limits : MaxSizeStore(t, m)
      BY <2>0, <2>8, GetsUndisturbed DEF MaxSizeStore, TypeOK
    <2> QED
      BY <1>3, <2>1, <2>2, <2>3, <2>4, <2>5, <2>6, <2>7, <2>8 DEF Enter
  <1>4. ASSUME NEW t \in Threads, Resume(t)
        PROVE  NoLostGet'
    <2>1. CASE GetResume(t)
      <3>1. CASE Fetch(t)
        BY <1>1, <2>1, <3>1 DEF GetResume, Resumes
      <3>2. CASE ~Fetch(t)
        BY <2>1, <3>2 DEF GetResume, NoLostGet
      <3> QED
        BY <3>1, <3>2
    <2>2. CASE GetTimedResume(t)
      BY <2>2 DEF GetTimedResume, Resumes, OnlyPlainGet, CallsUsed
    <2>3. CASE PutResume(t)
      <3>1. CASE Store(t, arg[t])
        BY <1>2, <2>3, <3>1 DEF PutResume, Resumes
      <3>2. CASE ~Store(t, arg[t])
        BY <2>3, <3>2, GetsUndisturbed
           DEF PutResume, Resumes, Sleep, SetWait, TypeOK
      <3> QED
        BY <3>1, <3>2
    <2>4. CASE \E m \in AllCalls : WaitEmptyResume(t, m)
      BY <2>4 DEF WaitEmptyResume, Resumes, OnlyPlainGet, CallsUsed
    <2>5. CASE MaxSizeNotify(t)
      BY <2>5, GetsUndisturbed DEF MaxSizeNotify, Leave, SetWait, TypeOK
    <2> QED
      BY <1>4, <2>1, <2>2, <2>3, <2>4, <2>5 DEF Resume
  <1>5. ASSUME NEW t \in Threads, Expire(t) \/ SpuriousWakeup(t)
        PROVE  NoLostGet'
    <2>1. CASE Expire(t)
      BY <2>1 DEF Expire, GetTimedExpire, WaitEmptyExpire, OnlyPlainGet, CallsUsed
    <2>2. CASE SpuriousWakeup(t)
      BY <2>2, GetsUndisturbed DEF SpuriousWakeup, SetWait, TypeOK
    <2> QED
      BY <1>5, <2>1, <2>2
  <1>6. CASE UNCHANGED vars
    BY <1>6, GetsUndisturbed DEF vars
  <1> QED
    BY <1>3, <1>4, <1>5, <1>6 DEF Next

\* For clients that use neither get(timeout) nor waitEmpty (which is how the
\* servers use the queue), no wake-up of get() is ever lost: an element never
\* lies in the queue while all threads in get() sleep on.
THEOREM GetsAreWoken == OnlyPlainGet => (Spec => []NoLostGet)
  <1> SUFFICES ASSUME OnlyPlainGet PROVE Spec => []NoLostGet
    OBVIOUS
  <1>1. Init => NoLostGet
    BY DEF Init, NoLostGet
  <1>2. IndType /\ IndType' /\ NoLostGet /\ [Next]_vars => NoLostGet'
    BY NoLostGetStep
  <1> QED
    BY IndTypeInvariant, <1>1, <1>2, PTL DEF Spec

-----------------------------------------------------------------------------
(* No lost wake-up of put().                                               *)

\* A queue without limit has no put to wake, unless the limit was lifted.
NoPutUnlimited == maxSize = 0 => In({"put", "maxSize"}) = {}

\* What NoLostPut needs to be inductive.
IndPut == NoLostPut /\ NoPutUnlimited

\* A thread that leaves its method with notify_one on _notFull leaves behind
\* a woken put if any was asleep.
LEMMA LeaveWakesPut ==
  ASSUME TypeOK, NEW t \in Threads, NEW ne \in BOOLEAN,
         Leave(t, ne, TRUE), wait[t] # "asleep" \/ call[t] # "put"
  PROVE  Asleep({"put"})' # {} => Woken({"put"})' # {}
  <1>1. SUFFICES ASSUME NEW u \in Asleep({"put"})'
                 PROVE  Woken({"put"})' # {}
    OBVIOUS
  <1>2. PICK e \in IF ne THEN NotifyOne(NotEmptyCalls) ELSE {{}},
             f \in NotifyOne(NotFullCalls) :
               SetWait(t, "run", e \cup f)
    BY DEF Leave
  <1>3. u \in Asleep({"put"})
    BY <1>2 DEF Leave, SetWait, Asleep, In, TypeOK
  <1>4. PICK v \in Asleep({"put"}) : f = {v}
    BY <1>2, <1>3 DEF NotifyOne, NotFullCalls
  <1>5. v \in Threads /\ v # t /\ call[v] = "put"
    BY <1>4 DEF Asleep, In
  <1>6. wait'[v] = "woken" /\ call'[v] = "put"
    BY <1>2, <1>4, <1>5 DEF Leave, SetWait, TypeOK
  <1> QED
    BY <1>5, <1>6 DEF Woken, In

\* While the queue, the limit and every thread in put or maxSize stay as they
\* are, or are woken, no wake-up is lost.
LEMMA PutsUndisturbed ==
  ASSUME IndPut, TypeOK, queue' = queue, maxSize' = maxSize,
         \A u \in Threads :
           /\ \A m \in {"put", "maxSize"} : call'[u] = m <=> call[u] = m
           /\ call[u] = "put" => wait'[u] = wait[u] \/ wait'[u] = "woken"
  PROVE  IndPut'
  BY DEF IndPut, NoLostPut, NoPutUnlimited, Asleep, Woken, In

\* Only a maxSize(m) on its way lets a put read another limit than _maxSize.
LEMMA ReadsExact ==
  ASSUME NEW t \in Threads, In({"maxSize"}) = {}
  PROVE  MaxSizeReads(t) = {maxSize}
  BY DEF MaxSizeReads

\* Leaving any method but put and maxSize adds no thread to these two.
LEMMA NoPutUnlimitedLeave ==
  ASSUME NoPutUnlimited, TypeOK, NEW t \in Threads, maxSize' = maxSize,
         call' = [call EXCEPT ![t] = "none"]
  PROVE  NoPutUnlimited'
  BY DEF NoPutUnlimited, In, TypeOK

LEMMA FetchIndPut ==
  ASSUME IndPut, TypeOK, NEW t \in Threads, Fetch(t), call[t] # "put"
  PROVE  IndPut'
  <1>1. (Tail(queue) # <<>>) \in BOOLEAN
    OBVIOUS
  <1>2. Asleep({"put"})' # {} => Woken({"put"})' # {}
    BY <1>1, LeaveWakesPut DEF Fetch
  <1>3. NoPutUnlimited'
    BY FetchEffect, NoPutUnlimitedLeave DEF IndPut
  <1> QED
    BY <1>2, <1>3 DEF IndPut, NoLostPut

LEMMA StoreIndPut ==
  ASSUME IndPut, TypeOK, NEW t \in Threads, NEW e \in Elements, Store(t, e),
         \/ call[t] = "none"
         \/ call[t] = "put" /\ wait[t] = "woken"
  PROVE  IndPut'
  <1>1. /\ call' = [call EXCEPT ![t] = "none"]
        /\ maxSize' = maxSize
    BY StoreEffect
  <1>2. NoPutUnlimited'
    BY <1>1, NoPutUnlimitedLeave DEF IndPut
  <1>3. CASE In({"maxSize"}) # {}
    <2>1. In({"maxSize"})' # {}
      BY <1>1, <1>3 DEF In, TypeOK
    <2> QED
      BY <1>2, <2>1 DEF IndPut, NoLostPut
  <1>4. CASE In({"maxSize"}) = {} /\ maxSize = 0
    <2>1. In({"put"})' = {}
      BY <1>1, <1>2, <1>4 DEF NoPutUnlimited, In
    <2> QED
      BY <1>2, <2>1 DEF IndPut, NoLostPut, Asleep
  <1>5. CASE In({"maxSize"}) = {} /\ maxSize # 0
    <2>1. Leave(t, TRUE, Len(queue) + 1 < maxSize)
      <3>1. PICK m1 \in MaxSizeReads(t), m2 \in MaxSizeReads(t) :
                   Leave(t, TRUE, m1 > 0 /\ Len(queue) + 1 < m2)
        BY DEF Store
      <3>2. m1 = maxSize /\ m2 = maxSize
        BY <1>5, ReadsExact
      <3>3. (m1 > 0 /\ Len(queue) + 1 < m2) = (Len(queue) + 1 < maxSize)
        BY <1>5, <3>2 DEF TypeOK
      <3> QED
        BY <3>1, <3>3
    <2>2. Len(queue') = Len(queue) + 1
      BY DEF Store, TypeOK
    <2>3. CASE Len(queue) + 1 < maxSize
      <3>1. Leave(t, TRUE, TRUE)
        BY <2>1, <2>3
      <3>2. Asleep({"put"})' # {} => Woken({"put"})' # {}
        BY <3>1, LeaveWakesPut
      <3> QED
        BY <1>2, <3>2 DEF IndPut, NoLostPut
    <2>4. CASE ~(Len(queue) + 1 < maxSize)
      BY <1>1, <1>2, <1>5, <2>2, <2>4 DEF IndPut, NoLostPut
    <2> QED
      BY <2>3, <2>4
  <1> QED
    BY <1>3, <1>4, <1>5

\* A put that goes to sleep has seen the limit reached, or a maxSize(m) that
\* is about to notify.
LEMMA PutSleepsIndPut ==
  ASSUME IndPut, TypeOK, NEW t \in Threads, Full(t, Len(queue)), Sleep(t, "put"),
         call[t] \in {"none", "put"}, UNCHANGED <<queue, maxSize>>
  PROVE  IndPut'
  <1>1. call' = [call EXCEPT ![t] = "put"]
    BY DEF Sleep
  <1>2. CASE In({"maxSize"}) # {}
    <2>1. In({"maxSize"})' # {}
      BY <1>1, <1>2 DEF In, TypeOK
    <2>2. maxSize # 0
      BY <1>2 DEF IndPut, NoPutUnlimited, In
    <2> QED
      BY <2>1, <2>2 DEF IndPut, NoLostPut, NoPutUnlimited
  <1>3. CASE In({"maxSize"}) = {}
    <2>1. maxSize > 0 /\ Len(queue) >= maxSize
      BY <1>3, ReadsExact DEF Full
    <2>2. ~(Len(queue) < maxSize) /\ maxSize # 0
      BY <2>1 DEF TypeOK
    <2> QED
      BY <2>2 DEF IndPut, NoLostPut, NoPutUnlimited
  <1> QED
    BY <1>2, <1>3

LEMMA IndPutStep ==
  ASSUME 0 \notin Limits, IndType, IndPut, [Next]_vars
  PROVE  IndPut'
  <1> USE DEF IndType
  <1>1. ASSUME NEW t \in Threads, Enter(t)
        PROVE  IndPut'
    <2>0. call[t] = "none"
      BY <1>1 DEF Enter, GetAtOnce, GetWait, WaitEmptyWait, TryGet, PutAtOnce,
         PutWait, RemoveCall, MaxSizeStore, Idle
    <2>1. CASE GetAtOnce(t) \/ (TryGet(t) /\ Fetch(t))
      BY <2>0, <2>1, FetchIndPut DEF GetAtOnce
    <2>2. CASE TryGet(t) /\ ~Fetch(t)
      BY <2>2, PutsUndisturbed DEF TryGet
    <2>3. CASE \E m \in AllCalls : GetWait(t, m)
      BY <2>0, <2>3, PutsUndisturbed DEF GetWait, Sleep, SetWait, TypeOK
    <2>4. CASE \E m \in AllCalls : WaitEmptyWait(t, m)
      BY <2>0, <2>4, PutsUndisturbed DEF WaitEmptyWait, Sleep, SetWait, TypeOK
    <2>5. CASE \E e \in Elements : PutAtOnce(t, e)
      BY <2>0, <2>5, StoreIndPut DEF PutAtOnce
    <2>6. CASE \E e \in Elements : PutWait(t, e)
      BY <2>0, <2>6, PutSleepsIndPut DEF PutWait
    <2>7. CASE \E e \in Elements : RemoveCall(t, e)
      BY <2>7, PutsUndisturbed DEF RemoveCall
    <2>8. CASE \E m \in Limits : MaxSizeStore(t, m)
      <3>1. maxSize' # 0 /\ call' = [call EXCEPT ![t] = "maxSize"]
        BY <2>8 DEF MaxSizeStore
      <3>2. t \in In({"maxSize"})'
        BY <3>1 DEF In, TypeOK
      <3> QED
        BY <3>1, <3>2 DEF IndPut, NoLostPut, NoPutUnlimited
    <2> QED
      BY <1>1, <2>1, <2>2, <2>3, <2>4, <2>5, <2>6, <2>7, <2>8 DEF Enter
  <1>2. ASSUME NEW t \in Threads, Resume(t)
        PROVE  IndPut'
    <2>1. CASE GetResume(t)
      <3>1. CASE Fetch(t)
        BY <2>1, <3>1, FetchIndPut DEF GetResume, Resumes
      <3>2. CASE ~Fetch(t)
        BY <2>1, <3>2, PutsUndisturbed
           DEF GetResume, Resumes, Sleep, SetWait, TypeOK
      <3> QED
        BY <3>1, <3>2
    <2>2. CASE GetTimedResume(t)
      <3>1. CASE Fetch(t)
        BY <2>2, <3>1, FetchIndPut DEF GetTimedResume, Resumes
      <3>2. CASE ~Fetch(t)
        <4>1. /\ Leave(t, FALSE, TRUE) /\ call[t] = "getTimed"
              /\ UNCHANGED <<queue, maxSize>>
          BY <2>2, <3>2 DEF GetTimedResume, Resumes
        <4>2. Asleep({"put"})' # {} => Woken({"put"})' # {}
          BY <4>1, LeaveWakesPut
        <4>3. NoPutUnlimited'
          BY <4>1, LeaveEffect, NoPutUnlimitedLeave DEF IndPut
        <4> QED
          BY <4>2, <4>3 DEF IndPut, NoLostPut
      <3> QED
        BY <3>1, <3>2
    <2>3. CASE PutResume(t)
      <3>0. call[t] = "put" /\ wait[t] = "woken" /\ arg[t] \in Elements
        BY <2>3 DEF PutResume, Resumes, PutHoldsElement
      <3>1. CASE Store(t, arg[t])
        <4> DEFINE e == arg[t]
        <4>1. e \in Elements /\ Store(t, e)
          BY <3>0, <3>1
        <4> HIDE DEF e
        <4> QED
          BY <3>0, <4>1, StoreIndPut
      <3>2. CASE ~Store(t, arg[t])
        BY <2>3, <3>0, <3>2, PutSleepsIndPut DEF PutResume
      <3> QED
        BY <3>1, <3>2
    <2>4. CASE \E m \in AllCalls : WaitEmptyResume(t, m)
      BY <2>4, PutsUndisturbed
         DEF WaitEmptyResume, Resumes, Leave, Sleep, SetWait, TypeOK
    <2>5. CASE MaxSizeNotify(t)
      <3>1. /\ call[t] = "maxSize" /\ Leave(t, FALSE, Len(queue) < maxSize)
            /\ UNCHANGED <<queue, maxSize>>
        BY <2>5 DEF MaxSizeNotify
      <3>2. maxSize # 0
        BY <3>1 DEF IndPut, NoPutUnlimited, In
      <3>3. CASE Len(queue) < maxSize
        <4>1. Leave(t, FALSE, TRUE)
          BY <3>1, <3>3
        <4> QED
          BY <3>1, <3>2, <4>1, LeaveWakesPut DEF IndPut, NoLostPut, NoPutUnlimited
      <3>4. CASE ~(Len(queue) < maxSize)
        BY <3>1, <3>2, <3>4 DEF IndPut, NoLostPut, NoPutUnlimited
      <3> QED
        BY <3>3, <3>4
    <2> QED
      BY <1>2, <2>1, <2>2, <2>3, <2>4, <2>5 DEF Resume
  <1>3. ASSUME NEW t \in Threads, Expire(t) \/ SpuriousWakeup(t)
        PROVE  IndPut'
    <2>1. CASE Expire(t)
      BY <2>1, PutsUndisturbed
         DEF Expire, GetTimedExpire, WaitEmptyExpire, Leave, SetWait, TypeOK
    <2>2. CASE SpuriousWakeup(t)
      BY <2>2, PutsUndisturbed DEF SpuriousWakeup, SetWait, TypeOK
    <2> QED
      BY <1>3, <2>1, <2>2
  <1>4. CASE UNCHANGED vars
    BY <1>4, PutsUndisturbed DEF vars
  <1> QED
    BY <1>1, <1>2, <1>3, <1>4 DEF Next

\* As long as nobody lifts the limit with maxSize(0), no wake-up of put() is
\* ever lost, whatever else the threads call and in spite of the unlocked
\* store of _maxSize.
THEOREM PutsAreWoken == 0 \notin Limits => (Spec => []NoLostPut)
  <1> SUFFICES ASSUME 0 \notin Limits PROVE Spec => []NoLostPut
    OBVIOUS
  <1>1. Init => IndPut
    BY DEF Init, IndPut, NoLostPut, NoPutUnlimited, In, Asleep
  <1>2. IndType /\ IndPut /\ [Next]_vars => IndPut'
    BY IndPutStep
  <1> QED
    BY IndTypeInvariant, <1>1, <1>2, PTL DEF Spec, IndPut

-----------------------------------------------------------------------------
(* The queue implements the blocking fifo channel (safety part).           *)

\* The methods that the channel speaks about.
FifoCallsOnly == Calls \subseteq {"get", "tryGet", "put", "putForced", "maxSize"}

\* Only a put that waits has an element in its hands.
OnlyPutOffers == \A t \in Threads : call[t] # "put" => arg[t] = Nothing

LEMMA OnlyPutOffersStep ==
  ASSUME IndType, OnlyPutOffers, [Next]_vars
  PROVE  OnlyPutOffers'
  <1> USE DEF IndType, OnlyPutOffers
  <1>1. ASSUME NEW t \in Threads, NEW m \in AllCalls \cup {"none"},
               call' = [call EXCEPT ![t] = m], arg' = arg, call[t] # "put"
        PROVE  OnlyPutOffers'
    BY <1>1 DEF TypeOK
  <1>2. ASSUME NEW t \in Threads, call' = [call EXCEPT ![t] = "none"],
               arg' = [arg EXCEPT ![t] = Nothing]
        PROVE  OnlyPutOffers'
    BY <1>2 DEF TypeOK
  <1>3. ASSUME NEW t \in Threads, Enter(t)
        PROVE  OnlyPutOffers'
    <2>1. CASE GetAtOnce(t) \/ TryGet(t)
      BY <2>1, <1>1 DEF GetAtOnce, TryGet, Fetch, Leave, Idle
    <2>2. CASE \E m \in AllCalls : GetWait(t, m) \/ WaitEmptyWait(t, m)
      BY <2>2, <1>1 DEF GetWait, WaitEmptyWait, Sleep, Idle
    <2>3. CASE \E e \in Elements : PutAtOnce(t, e)
      BY <2>3, <1>2 DEF PutAtOnce, Store, Leave
    <2>4. CASE \E e \in Elements : PutWait(t, e)
      BY <2>4 DEF PutWait, Sleep, TypeOK
    <2>5. CASE \E e \in Elements : RemoveCall(t, e)
      BY <2>5 DEF RemoveCall
    <2>6. CASE \E m \in Limits : MaxSizeStore(t, m)
      BY <2>6, <1>1 DEF MaxSizeStore, Idle, AllCalls
    <2> QED
      BY <1>3, <2>1, <2>2, <2>3, <2>4, <2>5, <2>6 DEF Enter
  <1>4. ASSUME NEW t \in Threads, Resume(t)
        PROVE  OnlyPutOffers'
    <2>1. CASE GetResume(t) \/ GetTimedResume(t)
      BY <2>1, <1>1
         DEF GetResume, GetTimedResume, Fetch, Leave, Sleep, Resumes, AllCalls
    <2>2. CASE PutResume(t)
      <3>1. CASE Store(t, arg[t])
        BY <3>1, <1>2 DEF Store, Leave
      <3>2. CASE ~Store(t, arg[t])
        BY <2>2, <3>2 DEF PutResume, Resumes, Sleep, TypeOK
      <3> QED
        BY <3>1, <3>2
    <2>3. CASE \E m \in AllCalls : WaitEmptyResume(t, m)
      BY <2>3, <1>1 DEF WaitEmptyResume, Resumes, Leave, Sleep
    <2>4. CASE MaxSizeNotify(t)
      BY <2>4, <1>1 DEF MaxSizeNotify, Leave
    <2> QED
      BY <1>4, <2>1, <2>2, <2>3, <2>4 DEF Resume
  <1>5. ASSUME NEW t \in Threads, Expire(t) \/ SpuriousWakeup(t)
        PROVE  OnlyPutOffers'
    BY <1>5, <1>1
       DEF Expire, GetTimedExpire, WaitEmptyExpire, SpuriousWakeup, Leave
  <1>6. CASE UNCHANGED vars
    BY <1>6 DEF vars
  <1> QED
    BY <1>3, <1>4, <1>5, <1>6 DEF Next

\* A fetch is a Receive of the channel.
LEMMA FetchReceives ==
  ASSUME TypeOK, NEW t \in Threads, Fetch(t)
  PROVE  Fifo!Receive(t)
  <1>1. In({"get"})' = In({"get"}) \ {t}
    BY FetchEffect DEF In, TypeOK
  <1> QED
    BY <1>1 DEF Fetch, Fifo!Receive

\* A store is a Send of the channel.
LEMMA StoreSends ==
  ASSUME TypeOK, NEW t \in Threads, NEW e \in Elements, Store(t, e),
         call[t] # "get", arg[t] \in {Nothing, e}
  PROVE  Fifo!Send(t, e)
  <1>1. In({"get"})' = In({"get"})
    BY StoreEffect DEF In, TypeOK
  <1> QED
    BY <1>1 DEF Store, Fifo!Send

LEMMA FifoStep ==
  ASSUME FifoCallsOnly, IndType, OnlyPutOffers, [Next]_vars
  PROVE  [Fifo!Next]_(Fifo!vars)
  <1> USE DEF IndType
  <1>1. ASSUME UNCHANGED <<queue, arg, result>>, In({"get"})' = In({"get"})
        PROVE  UNCHANGED Fifo!vars
    BY <1>1 DEF Fifo!vars
  <1>2. ASSUME NEW t \in Threads, Enter(t)
        PROVE  [Fifo!Next]_(Fifo!vars)
    <2>0. call[t] = "none" /\ arg[t] = Nothing
      BY <1>2 DEF Enter, GetAtOnce, GetWait, WaitEmptyWait, TryGet, PutAtOnce,
         PutWait, RemoveCall, MaxSizeStore, Idle, OnlyPutOffers
    <2>1. CASE GetAtOnce(t) \/ (TryGet(t) /\ Fetch(t))
      BY <2>1, FetchReceives DEF GetAtOnce, Fifo!Next
    <2>2. CASE TryGet(t) /\ ~Fetch(t)
      <3>1. In({"get"})' = In({"get"})
        BY <2>2 DEF TryGet, In
      <3>2. Fifo!Miss(t)
        BY <2>2, <3>1 DEF TryGet, Fifo!Miss
      <3> QED
        BY <3>2 DEF Fifo!Next
    <2>3. CASE \E m \in AllCalls : GetWait(t, m)
      <3>1. GetWait(t, "get")
        BY <2>3 DEF GetWait, Idle, FifoCallsOnly
      <3>2. In({"get"})' = In({"get"}) \cup {t}
        BY <3>1 DEF GetWait, Sleep, In, TypeOK
      <3>3. Fifo!Ask(t)
        BY <3>1, <3>2 DEF GetWait, Fifo!Ask
      <3> QED
        BY <3>3 DEF Fifo!Next
    <2>4. CASE \E m \in AllCalls : WaitEmptyWait(t, m)
      BY <2>4 DEF WaitEmptyWait, Idle, FifoCallsOnly
    <2>5. CASE \E e \in Elements : PutAtOnce(t, e)
      BY <2>0, <2>5, StoreSends DEF PutAtOnce, Fifo!Next
    <2>6. CASE \E e \in Elements : PutWait(t, e)
      <3>1. PICK e \in Elements : PutWait(t, e)
        BY <2>6
      <3>2. In({"get"})' = In({"get"})
        BY <2>0, <3>1 DEF PutWait, Sleep, In, TypeOK
      <3>3. Fifo!Offer(t, e)
        BY <2>0, <3>1, <3>2 DEF PutWait, Fifo!Offer
      <3> QED
        BY <3>3 DEF Fifo!Next
    <2>7. CASE \E e \in Elements : RemoveCall(t, e)
      BY <2>7 DEF RemoveCall, Idle, FifoCallsOnly
    <2>8. CASE \E m \in Limits : MaxSizeStore(t, m)
      BY <1>1, <2>0, <2>8 DEF MaxSizeStore, In, TypeOK
    <2> QED
      BY <1>2, <2>1, <2>2, <2>3, <2>4, <2>5, <2>6, <2>7, <2>8 DEF Enter
  <1>3. ASSUME NEW t \in Threads, Resume(t)
        PROVE  [Fifo!Next]_(Fifo!vars)
    <2>1. CASE GetResume(t)
      <3>1. CASE Fetch(t)
        BY <3>1, FetchReceives DEF Fifo!Next
      <3>2. CASE ~Fetch(t)
        <4>1. In({"get"})' = In({"get"})
          BY <2>1, <3>2 DEF GetResume, Resumes, Sleep, In, TypeOK
        <4> QED
          BY <1>1, <2>1, <3>2, <4>1 DEF GetResume
      <3> QED
        BY <3>1, <3>2
    <2>2. CASE GetTimedResume(t)
      BY <2>2 DEF GetTimedResume, Resumes, FifoCallsOnly, CallsUsed
    <2>3. CASE PutResume(t)
      <3>0. call[t] = "put" /\ arg[t] \in Elements
        BY <2>3 DEF PutResume, Resumes, PutHoldsElement
      <3>1. CASE Store(t, arg[t])
        <4> DEFINE e == arg[t]
        <4>1. e \in Elements /\ Store(t, e) /\ arg[t] \in {Nothing, e}
          BY <3>0, <3>1
        <4> HIDE DEF e
        <4>2. Fifo!Send(t, e)
          BY <3>0, <4>1, StoreSends
        <4> QED
          BY <4>1, <4>2 DEF Fifo!Next
      <3>2. CASE ~Store(t, arg[t])
        <4>1. In({"get"})' = In({"get"})
          BY <2>3, <3>0, <3>2 DEF PutResume, Sleep, In, TypeOK
        <4> QED
          BY <1>1, <2>3, <3>2, <4>1 DEF PutResume
      <3> QED
        BY <3>1, <3>2
    <2>4. CASE \E m \in AllCalls : WaitEmptyResume(t, m)
      BY <2>4 DEF WaitEmptyResume, Resumes, FifoCallsOnly, CallsUsed
    <2>5. CASE MaxSizeNotify(t)
      <3>1. In({"get"})' = In({"get"})
        BY <2>5 DEF MaxSizeNotify, Leave, In, TypeOK
      <3> QED
        BY <1>1, <2>5, <3>1 DEF MaxSizeNotify
    <2> QED
      BY <1>3, <2>1, <2>2, <2>3, <2>4, <2>5 DEF Resume
  <1>4. ASSUME NEW t \in Threads, Expire(t) \/ SpuriousWakeup(t)
        PROVE  [Fifo!Next]_(Fifo!vars)
    <2>1. CASE Expire(t)
      BY <2>1 DEF Expire, GetTimedExpire, WaitEmptyExpire, FifoCallsOnly, CallsUsed
    <2>2. CASE SpuriousWakeup(t)
      BY <1>1, <2>2 DEF SpuriousWakeup, In
    <2> QED
      BY <1>4, <2>1, <2>2
  <1>5. CASE UNCHANGED vars
    BY <1>1, <1>5 DEF vars, In
  <1> QED
    BY <1>2, <1>3, <1>4, <1>5 DEF Next

\* Behind get, tryGet, put and maxSize is a fifo channel: every element that
\* is put comes out once, in the order of the puts, and get and tryGet report
\* nothing else.  (That waiting threads are served is left to TLC.)
THEOREM RefinesFifo ==
  FifoCallsOnly => (Spec => Fifo!Init /\ [][Fifo!Next]_(Fifo!vars))
  <1> SUFFICES ASSUME FifoCallsOnly
               PROVE  Spec => Fifo!Init /\ [][Fifo!Next]_(Fifo!vars)
    OBVIOUS
  <1>1. Init => OnlyPutOffers /\ Fifo!Init
    BY DEF Init, OnlyPutOffers, Fifo!Init, In
  <1>2. IndType /\ OnlyPutOffers /\ [Next]_vars => OnlyPutOffers'
    BY OnlyPutOffersStep
  <1>3. IndType /\ OnlyPutOffers /\ [Next]_vars => [Fifo!Next]_(Fifo!vars)
    BY FifoStep
  <1> QED
    BY IndTypeInvariant, <1>1, <1>2, <1>3, PTL DEF Spec
-----------------------------------------------------------------------------

(* Logging.                                                                *)

Places ==
  {"idle", "asking", "inserting", "composed", "counting", "waiting", "done",
   "making the appender", "copying", "setting levels", "switching on"}
Configuring == {"making the appender", "copying", "setting levels", "switching on"}
Kinds == {"file", "rolling", "udp", "stdout", "stderr"}
Configurations == Configs \cup {NewConf}
FlagSets == {{}} \cup {logFlags(c, k) : c \in Configurations, k \in Asked}

ThreadSet ==
  [at : Places, category : Asked \cup {<< >>}, flags : FlagSets, impl : Impls \cup {None}, message : Nat,
   tracer : BOOLEAN, seen : Nat]
AppenderSet ==
  [kind : Kinds \cup {None}, max : Nat, backups : Nat, buffer : Seq(Seq(Nat)), size : Nat]

\* Threads that have a message which is not put yet.
Active == {t \in LogThreads : thread[t].at \in {"composed", "counting", "waiting"}}
Waiting == {t \in LogThreads : thread[t].at = "waiting"}

\* The type invariant of logging.
LogTyped ==
  /\ thread \in [LogThreads -> ThreadSet] /\ mutex \in LogThreads \cup {None}
  /\ enabled \in BOOLEAN /\ inForce \in Configurations /\ draft \in Configurations
  /\ appender \in AppenderSet /\ spare \in Seq(Impls) /\ Len(spare) <= MaxSpare /\ text \in [Impls -> Seq(Nat)]
  /\ files \in Seq(Seq(Seq(Nat))) /\ files # << >>
  /\ messages \in Nat /\ configured \in Nat
  /\ put \in Seq(Seq(Nat)) /\ written \in Seq(Seq(Nat)) /\ rolled \in Seq(Seq(Nat)) /\ DOMAIN loggers \subseteq Asked

\* The thread that configures has the mutex, and the others see that logging is off.
MutexRight ==
  /\ \A t \in LogThreads : thread[t].at \in Configuring <=> mutex = t
  /\ mutex # None => ~enabled
  /\ enabled => HasImpl /\ configured > 0
  /\ \A t \in LogThreads :
       /\ thread[t].at \in Configuring \ {"making the appender"} => HasImpl
       /\ thread[t].at \in Configuring => configured > 0
       /\ thread[t].at \in {"asking", "inserting"} => thread[t].category \in Asked /\ configured > 0

\* What is kept back has someone behind it who writes it.
BufferRight ==
  /\ waiting = Cardinality(Waiting)
  /\ appender.buffer # << >> => Waiting # {} /\ appender.kind # "udp"

\* What was put is what was written and what is kept back behind it.
LinesRight == put = written \o appender.buffer

\* Who has an Impl, and which are spare.
ImplsRight ==
  /\ \A i, j \in 1 .. Len(spare) : spare[i] = spare[j] => i = j
  /\ \A t \in LogThreads : thread[t].impl # None =>
       /\ thread[t].at \in {"composed", "counting", "waiting", "done"}
       /\ \A i \in 1 .. Len(spare) : spare[i] # thread[t].impl
       /\ \A u \in LogThreads : thread[u].impl = thread[t].impl => u = t

\* All of a text but its last message was finished while logging was off.
Ends(line, m) ==
  /\ line # << >> /\ line[Len(line)] = m
  /\ \A i \in 1 .. Len(line) : i # Len(line) => line[i] \in silenced

TextsRight ==
  /\ \A t \in Active : thread[t].impl # None => Ends(text[thread[t].impl], thread[t].message)
  /\ \A i \in Impls : (\A t \in Active : thread[t].impl # i) => \A j \in 1 .. Len(text[i]) : text[i][j] \in silenced

\* Every message is made once and put once.
MessagesRight ==
  /\ \A t \in Active : /\ thread[t].message \in 1 .. messages
                       /\ \A u \in Active : thread[u].message = thread[t].message => u = t
                       /\ \A i \in 1 .. Len(put) : put[i] # RotateLine => put[i][Len(put[i])] # thread[t].message
  /\ \A i \in 1 .. Len(put) : put[i] # RotateLine =>
       /\ \E m \in 1 .. messages : Ends(put[i], m)
       /\ \A j \in 1 .. i - 1 : put[j] # RotateLine => put[i][Len(put[i])] # put[j][Len(put[j])]

\* A logger that is about to be inserted has the levels in force, if it was not asked for
\* while another thread configured and nobody has configured since.
LevelsRight ==
  /\ ~raced /\ ~Someone("setting levels") => \A c \in DOMAIN loggers \ old : loggers[c] = logFlags(inForce, c)
  /\ \A t \in LogThreads : thread[t].at = "inserting" =>
       /\ thread[t].seen <= configured
       /\ thread[t].seen = configured => mutex = None /\ thread[t].flags = logFlags(inForce, thread[t].category)

\* The inductive invariant of logging, but for its files.
LogInv ==
  /\ LogTyped /\ MutexRight /\ BufferRight /\ LinesRight /\ ImplsRight /\ TextsRight /\ MessagesRight /\ LevelsRight

LEMMA LogFacts ==
  ASSUME LogInv
  PROVE  /\ LogTyped /\ MutexRight /\ BufferRight /\ LinesRight /\ ImplsRight /\ TextsRight /\ MessagesRight /\ LevelsRight
         /\ \A t \in LogThreads : /\ thread[t] \in ThreadSet /\ thread[t].at \in Places /\ thread[t].message \in Nat
                                  /\ thread[t].impl \in Impls \cup {None} /\ thread[t].seen \in Nat
                                  /\ thread[t].tracer \in BOOLEAN /\ t # None
                                  /\ thread[t].category \in Asked \cup {<< >>} /\ thread[t].flags \in FlagSets
         /\ None \notin Impls
  <1>1. LogTyped /\ MutexRight /\ BufferRight /\ LinesRight /\ ImplsRight /\ TextsRight /\ MessagesRight /\ LevelsRight
    BY DEF LogInv
  <1>2. \A t \in LogThreads : thread[t] \in ThreadSet
    BY <1>1 DEF LogTyped
  <1>3. None \notin LogThreads /\ None \notin Impls
    BY LogAssumption DEF None, LogThreads
  <1> QED
    BY <1>1, <1>2, <1>3 DEF ThreadSet

\* One thread goes on.
LEMMA MovedThread ==
  ASSUME LogInv, NEW t \in LogThreads, NEW r \in ThreadSet, thread' = [thread EXCEPT ![t] = r]
  PROVE  /\ thread' \in [LogThreads -> ThreadSet] /\ thread'[t] = r
         /\ \A u \in LogThreads : u # t => thread'[u] = thread[u]
  <1>1. thread \in [LogThreads -> ThreadSet]
    BY LogFacts DEF LogTyped
  <1> QED
    BY <1>1

\* Its place is another one.
LEMMA GoneOn ==
  ASSUME LogInv, NEW t \in LogThreads, NEW where \in Places, Goes(t, where)
  PROVE  /\ thread' \in [LogThreads -> ThreadSet] /\ \A u \in LogThreads : u # t => thread'[u] = thread[u]
         /\ thread'[t].at = where /\ thread'[t].impl = thread[t].impl /\ thread'[t].message = thread[t].message
         /\ thread'[t].category = thread[t].category /\ thread'[t].flags = thread[t].flags
         /\ thread'[t].seen = thread[t].seen /\ thread'[t].tracer = thread[t].tracer
  <1> DEFINE r == [thread[t] EXCEPT !.at = where]
  <1>1. thread[t] \in ThreadSet /\ thread \in [LogThreads -> ThreadSet]
    BY LogFacts DEF LogTyped
  <1>2. /\ r \in ThreadSet /\ r.at = where /\ r.impl = thread[t].impl /\ r.message = thread[t].message
        /\ r.category = thread[t].category /\ r.flags = thread[t].flags
        /\ r.seen = thread[t].seen /\ r.tracer = thread[t].tracer
    BY <1>1 DEF ThreadSet
  <1>3. thread' = [thread EXCEPT ![t] = r]
    BY <1>1 DEF Goes
  <1> HIDE DEF r
  <1> QED
    BY <1>2, <1>3, MovedThread

\* It has nothing to do any more.
LEMMA AtRest ==
  ASSUME LogInv, NEW t \in LogThreads, Rests(t)
  PROVE  /\ thread' \in [LogThreads -> ThreadSet] /\ \A u \in LogThreads : u # t => thread'[u] = thread[u]
         /\ thread'[t].at = "idle" /\ thread'[t].impl = None
  <1> DEFINE r == [Resting EXCEPT !.tracer = thread[t].tracer]
  <1>1. thread[t].tracer \in BOOLEAN
    BY LogFacts
  <1>2. "idle" \in Places /\ {} \in FlagSets /\ 0 \in Nat
    BY DEF Places, FlagSets
  <1>4. Resting \in ThreadSet /\ Resting.at = "idle" /\ Resting.impl = None
    BY <1>2 DEF ThreadSet, Resting
  <1>5. r \in ThreadSet /\ r.at = "idle" /\ r.impl = None
    BY <1>1, <1>4 DEF ThreadSet
  <1>3. thread' = [thread EXCEPT ![t] = r]
    BY DEF Rests
  <1> HIDE DEF r
  <1> QED
    BY <1>5, <1>3, MovedThread

\* Nobody's message is concerned.
Quiet(t) ==
  /\ thread[t].impl = None /\ thread'[t].impl = None
  /\ {thread[t].at, thread'[t].at} \cap {"composed", "counting", "waiting"} = {}

\* What is about messages stays.
LEMMA QuietStays ==
  ASSUME LogInv, NEW t \in LogThreads, \A u \in LogThreads : u # t => thread'[u] = thread[u], Quiet(t),
         UNCHANGED <<waiting, spare, text, messages, silenced, AppenderVars>>
  PROVE  (BufferRight /\ LinesRight /\ ImplsRight /\ TextsRight /\ MessagesRight)'
  <1>1. BufferRight /\ LinesRight /\ ImplsRight /\ TextsRight /\ MessagesRight
    BY LogFacts
  <1>2. UNCHANGED <<waiting, spare, text, messages, silenced, appender, put, written>>
    BY DEF AppenderVars
  <1>3. Active' = Active /\ Waiting' = Waiting /\ \A u \in Active : thread'[u] = thread[u]
    BY DEF Active, Waiting, Quiet
  <1>4. \A u \in LogThreads : thread'[u].impl = thread[u].impl
    BY DEF Quiet
  <1>5. BufferRight' /\ LinesRight'
    BY <1>1, <1>2, <1>3 DEF BufferRight, LinesRight
  <1>6. ImplsRight'
    <2>1. \A u \in LogThreads : thread[u].impl # None => thread'[u] = thread[u]
      BY DEF Quiet
    <2> QED
      BY <1>1, <1>2, <1>4, <2>1 DEF ImplsRight
  <1>7. TextsRight'
    BY <1>1, <1>2, <1>3 DEF TextsRight, Ends
  <1>8. MessagesRight'
    BY <1>1, <1>2, <1>3 DEF MessagesRight, Ends, RotateLine
  <1> QED
    BY <1>5, <1>6, <1>7, <1>8

\* Nobody configures or makes a logger.
LEMMA MessageStays ==
  ASSUME LogInv, NEW t \in LogThreads, \A u \in LogThreads : u # t => thread'[u] = thread[u],
         {thread[t].at, thread'[t].at} \subseteq {"idle", "composed", "counting", "waiting", "done"},
         UNCHANGED <<enabled, mutex, configured, inForce, old, raced>>, appender'.kind = appender.kind,
         loggers' = loggers \/ \E c : loggers' = WithFlags(loggers, c, logFlags(inForce, c))
  PROVE  (MutexRight /\ LevelsRight)'
  <1>1. MutexRight /\ LevelsRight
    BY LogFacts
  <1>2. \A u \in LogThreads : thread'[u].at \in Configuring \cup {"asking", "inserting"}
                              \/ thread[u].at \in Configuring \cup {"asking", "inserting"} => thread'[u] = thread[u]
    BY DEF Configuring
  <1>3. MutexRight'
    <2>1. HasImpl' = HasImpl
      BY DEF HasImpl
    <2> QED
      BY <1>1, <1>2, <2>1 DEF MutexRight
  <1>4. Someone("setting levels")' = Someone("setting levels")
    BY <1>2 DEF Someone, Configuring
  <1>5. (\A c \in DOMAIN loggers \ old : loggers[c] = logFlags(inForce, c))
          => (\A c \in DOMAIN loggers \ old : loggers[c] = logFlags(inForce, c))'
    BY ZenonT(30) DEF WithFlags
  <1>6. LevelsRight'
    BY <1>1, <1>2, <1>4, <1>5 DEF LevelsRight
  <1> QED
    BY <1>3, <1>6

LEMMA AskStays ==
  ASSUME LogInv, NEW t \in LogThreads, NEW c \in Asked, AskLogger(t, c)
  PROVE  LogInv'
  <1> DEFINE r == [[thread[t] EXCEPT !.at = "asking"] EXCEPT !.category = c]
  <1>1. /\ LogTyped /\ MutexRight /\ LevelsRight /\ thread[t] \in ThreadSet /\ thread[t].at = "idle"
        /\ thread[t].impl = None /\ enabled
    BY LogFacts DEF ImplsRight, AskLogger, At
  <1>2. r \in ThreadSet /\ r.at = "asking" /\ r.impl = None /\ r.category = c
    BY <1>1 DEF ThreadSet, Places
  <1>3. thread' = [thread EXCEPT ![t] = r]
    BY <1>1 DEF AskLogger, LogTyped
  <1> HIDE DEF r
  <1>4. /\ thread' \in [LogThreads -> ThreadSet] /\ \A u \in LogThreads : u # t => thread'[u] = thread[u]
        /\ thread'[t].at = "asking" /\ thread'[t].impl = None /\ thread'[t].category = c
    BY <1>2, <1>3, MovedThread
  <1>5. /\ UNCHANGED <<enabled, inForce, loggers, waiting, spare, text, mutex, draft, messages, configured,
                       silenced, old, raced, AppenderVars>>
        /\ UNCHANGED <<appender, files, put, written, rolled, lost>>
    BY DEF AskLogger, AppenderVars
  <1>6. LogTyped'
    BY <1>1, <1>4, <1>5 DEF LogTyped
  <1>7. (BufferRight /\ LinesRight /\ ImplsRight /\ TextsRight /\ MessagesRight)'
    BY <1>1, <1>4, <1>5, QuietStays DEF Quiet
  <1>8. MutexRight'
    BY <1>1, <1>4, <1>5 DEF MutexRight, Configuring, HasImpl
  <1>9. LevelsRight'
    <2>1. Someone("setting levels")' = Someone("setting levels")
      BY <1>1, <1>4 DEF Someone
    <2> QED
      BY <1>1, <1>4, <1>5, <2>1 DEF LevelsRight
  <1> QED
    BY <1>6, <1>7, <1>8, <1>9 DEF LogInv

\* The settings for a logger.
LEMMA FlagsOfLogger ==
  ASSUME LogInv, NEW c \in Asked
  PROVE  logFlags(inForce, c) \in FlagSets
  BY LogFacts DEF LogTyped, FlagSets

LEMMA FindStays ==
  ASSUME LogInv, NEW t \in LogThreads, FindLogger(t)
  PROVE  LogInv'
  <1>1. /\ LogTyped /\ MutexRight /\ LevelsRight /\ thread[t] \in ThreadSet /\ thread[t].at = "asking"
        /\ thread[t].impl = None /\ thread[t].category \in Asked /\ configured > 0 /\ ~raced
    BY LogFacts DEF ImplsRight, FindLogger, At, MutexRight
  <1>2. /\ UNCHANGED <<enabled, inForce, loggers, waiting, spare, text, mutex, draft, messages, configured,
                       silenced, old, AppenderVars>>
        /\ UNCHANGED <<appender, files, put, written, rolled, lost>>
    BY DEF FindLogger, AppenderVars
  <1>3. CASE thread[t].category \in DOMAIN loggers
    <2>1. Rests(t)
      BY <1>3 DEF FindLogger
    <2>2. /\ thread' \in [LogThreads -> ThreadSet] /\ \A u \in LogThreads : u # t => thread'[u] = thread[u]
          /\ thread'[t].at = "idle" /\ thread'[t].impl = None
      BY <2>1, AtRest
    <2>3. LogTyped'
      BY <1>1, <1>2, <2>2 DEF LogTyped
    <2>4. (BufferRight /\ LinesRight /\ ImplsRight /\ TextsRight /\ MessagesRight)'
      BY <1>1, <1>2, <2>2, QuietStays DEF Quiet
    <2>5. MutexRight'
      BY <1>1, <1>2, <2>2 DEF MutexRight, Configuring, HasImpl
    <2>6. LevelsRight'
      <3>1. Someone("setting levels")' = Someone("setting levels")
        BY <1>1, <2>2 DEF Someone
      <3> QED
        BY <1>1, <1>2, <2>2, <3>1 DEF LevelsRight
    <2> QED
      BY <2>3, <2>4, <2>5, <2>6 DEF LogInv
  <1>4. CASE thread[t].category \notin DOMAIN loggers
    <2> DEFINE s == IF mutex = None THEN configured ELSE 0
    <2> DEFINE f == logFlags(inForce, thread[t].category)
    <2> DEFINE r == [[[thread[t] EXCEPT !.at = "inserting"] EXCEPT !.seen = s] EXCEPT !.flags = f]
    <2>1. f \in FlagSets /\ s \in Nat
      BY <1>1, FlagsOfLogger DEF LogTyped
    <2>2. thread' = [thread EXCEPT ![t].at = "inserting", ![t].seen = s, ![t].flags = f]
      BY <1>4 DEF FindLogger
    <2> HIDE DEF s, f
    <2>3. /\ r \in ThreadSet /\ r.at = "inserting" /\ r.impl = None /\ r.category = thread[t].category
          /\ r.seen = s /\ r.flags = f
      BY <1>1, <2>1 DEF ThreadSet, Places
    <2>4. thread' = [thread EXCEPT ![t] = r]
      BY <1>1, <2>2 DEF LogTyped
    <2> HIDE DEF r
    <2>5. /\ thread' \in [LogThreads -> ThreadSet] /\ \A u \in LogThreads : u # t => thread'[u] = thread[u]
          /\ thread'[t].at = "inserting" /\ thread'[t].impl = None /\ thread'[t].category = thread[t].category
          /\ thread'[t].seen = s /\ thread'[t].flags = f
      BY <2>3, <2>4, MovedThread
    <2>6. LogTyped'
      BY <1>1, <1>2, <2>5 DEF LogTyped
    <2>7. (BufferRight /\ LinesRight /\ ImplsRight /\ TextsRight /\ MessagesRight)'
      BY <1>1, <1>2, <2>5, QuietStays DEF Quiet
    <2>8. MutexRight'
      BY <1>1, <1>2, <2>5 DEF MutexRight, Configuring, HasImpl
    <2>9. LevelsRight'
      <3>1. Someone("setting levels")' = Someone("setting levels")
        BY <1>1, <2>5 DEF Someone
      <3>2. s <= configured /\ (s = configured => mutex = None /\ f = logFlags(inForce, thread[t].category))
        BY <1>1 DEF s, f, LogTyped
      <3> QED
        BY <1>1, <1>2, <2>5, <3>1, <3>2 DEF LevelsRight
    <2> QED
      BY <2>6, <2>7, <2>8, <2>9 DEF LogInv
  <1> QED
    BY <1>3, <1>4

LEMMA InsertStays ==
  ASSUME LogInv, NEW t \in LogThreads, InsertLogger(t)
  PROVE  LogInv'
  <1> DEFINE c == thread[t].category
  <1>1. /\ LogTyped /\ MutexRight /\ LevelsRight /\ thread[t].at = "inserting"
        /\ thread[t].impl = None /\ c \in Asked /\ ~raced
    BY LogFacts DEF ImplsRight, InsertLogger, At, MutexRight
  <1>2. /\ UNCHANGED <<enabled, inForce, waiting, spare, text, mutex, draft, messages, configured,
                       silenced, AppenderVars>>
        /\ UNCHANGED <<appender, files, put, written, rolled, lost>> /\ loggers' = WithFlags(loggers, c, thread[t].flags)
        /\ old' = (IF mutex # None \/ thread[t].seen # configured THEN old \cup {c} ELSE old)
        /\ raced' = Someone("setting levels")
    BY DEF InsertLogger, AppenderVars
  <1>3. /\ thread' \in [LogThreads -> ThreadSet] /\ \A u \in LogThreads : u # t => thread'[u] = thread[u]
        /\ thread'[t].at = "idle" /\ thread'[t].impl = None
    BY AtRest DEF InsertLogger
  <1>4. /\ DOMAIN loggers' = DOMAIN loggers \cup {c} /\ loggers'[c] = thread[t].flags
        /\ \A k \in DOMAIN loggers : k # c => loggers'[k] = loggers[k]
    BY <1>2 DEF WithFlags
  <1>5. LogTyped'
    BY <1>1, <1>2, <1>3, <1>4 DEF LogTyped
  <1>6. (BufferRight /\ LinesRight /\ ImplsRight /\ TextsRight /\ MessagesRight)'
    BY <1>1, <1>2, <1>3, QuietStays DEF Quiet
  <1>7. MutexRight'
    BY <1>1, <1>2, <1>3 DEF MutexRight, Configuring, HasImpl
  <1>8. LevelsRight'
    <2>1. Someone("setting levels")' = Someone("setting levels")
      BY <1>1, <1>3 DEF Someone
    <2>2. ~raced' /\ ~Someone("setting levels")' => \A k \in DOMAIN loggers' \ old' : loggers'[k] = logFlags(inForce, k)
      BY <1>1, <1>2, <1>4, <2>1 DEF LevelsRight
    <2>3. \A u \in LogThreads : thread'[u].at = "inserting" => thread'[u] = thread[u]
      BY <1>3
    <2> QED
      BY <1>1, <1>2, <2>2, <2>3 DEF LevelsRight
  <1> QED
    BY <1>5, <1>6, <1>7, <1>8 DEF LogInv

LEMMA ConfigureStays ==
  ASSUME LogInv, NEW t \in LogThreads, NEW c \in Configs, Configure(t, c)
  PROVE  LogInv'
  <1>1. /\ LogTyped /\ MutexRight /\ LevelsRight /\ thread[t].at = "idle" /\ t # None
        /\ thread[t].impl = None /\ mutex = None
    BY LogFacts DEF ImplsRight, Configure, At
  <1>2. /\ UNCHANGED <<inForce, loggers, waiting, spare, text, messages, silenced, old, raced, AppenderVars>>
        /\ UNCHANGED <<appender, files, put, written, rolled, lost>>
        /\ mutex' = t /\ draft' = c /\ configured' = configured + 1 /\ enabled' = FALSE
    BY DEF Configure, AppenderVars
  <1>3. /\ thread' \in [LogThreads -> ThreadSet] /\ \A u \in LogThreads : u # t => thread'[u] = thread[u]
        /\ thread'[t].at = "making the appender" /\ thread'[t].impl = None
    BY <1>1, GoneOn DEF Configure, Places
  <1>4. LogTyped'
    <2>1. mutex' \in LogThreads \cup {None} /\ enabled' \in BOOLEAN /\ draft' \in Configurations
      BY <1>2 DEF Configurations
    <2>2. configured' \in Nat
      BY <1>1, <1>2 DEF LogTyped
    <2> QED
      BY <1>1, <1>2, <1>3, <2>1, <2>2 DEF LogTyped
  <1>5. (BufferRight /\ LinesRight /\ ImplsRight /\ TextsRight /\ MessagesRight)'
    BY <1>1, <1>2, <1>3, QuietStays DEF Quiet
  <1>6. MutexRight'
    <2>1. \A u \in LogThreads : u # t => thread'[u].at \notin Configuring
      BY <1>1, <1>3, LogFacts DEF MutexRight
    <2>2. \A u \in LogThreads : u # t => thread'[u] = thread[u] /\ mutex' # u
      BY <1>2, <1>3
    <2>3. thread'[t].at \in Configuring /\ "making the appender" \notin Configuring \ {"making the appender"}
      BY <1>3 DEF Configuring
    <2>4. configured' > 0
      BY <1>1, <1>2 DEF LogTyped
    <2>5. \A u \in LogThreads : u # t /\ thread'[u].at \in {"asking", "inserting"} => thread[u].category \in Asked
      BY <1>1, <2>2 DEF MutexRight
    <2>6. \A u \in LogThreads : thread'[u].at \in Configuring <=> mutex' = u
      BY <1>2, <2>1, <2>2, <2>3
    <2> QED
      BY <1>2, <1>3, <2>1, <2>2, <2>3, <2>4, <2>5, <2>6 DEF MutexRight, HasImpl
  <1>7. LevelsRight'
    <2>1. Someone("setting levels")' = Someone("setting levels")
      BY <1>1, <1>3 DEF Someone
    <2>2. \A u \in LogThreads : thread'[u].at = "inserting" => thread[u].at = "inserting" /\ thread'[u] = thread[u]
      BY <1>3
    <2>3. \A u \in LogThreads : thread[u].at = "inserting" => thread[u].seen <= configured /\ thread[u].seen \in Nat
      BY <1>1, LogFacts DEF LevelsRight
    <2>4. configured \in Nat
      BY <1>1 DEF LogTyped
    <2>5. \A u \in LogThreads : thread'[u].at = "inserting" => thread'[u].seen <= configured' /\ thread'[u].seen # configured'
      <3> SUFFICES ASSUME NEW u \in LogThreads, thread'[u].at = "inserting"
                   PROVE  thread'[u].seen <= configured' /\ thread'[u].seen # configured'
        OBVIOUS
      <3>1. thread'[u].seen = thread[u].seen /\ thread[u].seen <= configured /\ thread[u].seen \in Nat
        BY <2>2, <2>3
      <3> QED
        BY <3>1, <2>4, <1>2
    <2>6. (~raced /\ ~Someone("setting levels") => \A k \in DOMAIN loggers \ old : loggers[k] = logFlags(inForce, k))'
      BY <1>1, <1>2, <2>1 DEF LevelsRight
    <2> QED
      BY <2>5, <2>6 DEF LevelsRight
  <1> QED
    BY <1>4, <1>5, <1>6, <1>7 DEF LogInv

\* A thread that configures goes from one step to the next.
LEMMA NextPlace ==
  ASSUME LogInv, NEW t \in LogThreads, NEW where \in Places,
         thread[t].at \in Configuring, Goes(t, where),
         UNCHANGED <<waiting, spare, text, messages, silenced, AppenderVars>>
  PROVE  /\ thread' \in [LogThreads -> ThreadSet] /\ \A u \in LogThreads : u # t => thread'[u] = thread[u]
         /\ thread'[t].at = where
         /\ where \notin {"composed", "counting", "waiting", "done"} =>
              (BufferRight /\ LinesRight /\ ImplsRight /\ TextsRight /\ MessagesRight)'
         /\ mutex = t /\ ~enabled
         /\ \A u \in LogThreads : u # t => thread[u].at \notin Configuring
  <1>1. /\ MutexRight /\ thread[t].impl = None /\ t # None
    BY LogFacts DEF ImplsRight, Configuring
  <1>2. /\ thread' \in [LogThreads -> ThreadSet] /\ \A u \in LogThreads : u # t => thread'[u] = thread[u]
        /\ thread'[t].at = where /\ thread'[t].impl = None
    BY <1>1, GoneOn
  <1>3. where \notin {"composed", "counting", "waiting", "done"} =>
          (BufferRight /\ LinesRight /\ ImplsRight /\ TextsRight /\ MessagesRight)'
    BY <1>1, <1>2, QuietStays DEF Quiet, Configuring
  <1>4. mutex = t /\ ~enabled /\ \A u \in LogThreads : u # t => thread[u].at \notin Configuring
    BY <1>1 DEF MutexRight
  <1> QED
    BY <1>2, <1>3, <1>4

LEMMA ConfigureNothingStays ==
  ASSUME LogInv, NEW t \in LogThreads, ConfigureNothing(t)
  PROVE  LogInv'
  <1>1. /\ LogTyped /\ MutexRight /\ LevelsRight /\ thread[t].at = "making the appender" /\ HasImpl
    BY LogFacts DEF ConfigureNothing, At
  <1>2. /\ UNCHANGED <<enabled, inForce, loggers, waiting, spare, text, mutex, draft, messages, configured,
                       silenced, old, raced, AppenderVars>>
        /\ UNCHANGED <<appender, files, put, written, rolled, lost>>
    BY DEF ConfigureNothing, AppenderVars
  <1>3. /\ thread' \in [LogThreads -> ThreadSet] /\ \A u \in LogThreads : u # t => thread'[u] = thread[u]
        /\ thread'[t].at = "switching on"
        /\ (BufferRight /\ LinesRight /\ ImplsRight /\ TextsRight /\ MessagesRight)'
    BY <1>1, <1>2, NextPlace DEF ConfigureNothing, Configuring, Places
  <1>4. LogTyped'
    BY <1>1, <1>2, <1>3 DEF LogTyped
  <1>5. MutexRight'
    BY <1>1, <1>2, <1>3 DEF MutexRight, Configuring, HasImpl
  <1>6. LevelsRight'
    <2>1. Someone("setting levels")' = Someone("setting levels")
      BY <1>1, <1>3 DEF Someone
    <2> QED
      BY <1>1, <1>2, <1>3, <2>1 DEF LevelsRight
  <1> QED
    BY <1>3, <1>4, <1>5, <1>6 DEF LogInv

LEMMA NoAppenderMadeStays ==
  ASSUME LogInv, NEW t \in LogThreads, NoAppenderMade(t)
  PROVE  LogInv'
  <1>1. /\ LogTyped /\ MutexRight /\ LevelsRight /\ thread[t].at = "making the appender"
    BY LogFacts DEF NoAppenderMade, At
  <1>2. /\ UNCHANGED <<enabled, inForce, loggers, waiting, spare, text, draft, messages, configured, silenced,
                       old, raced, AppenderVars>>
        /\ UNCHANGED <<appender, files, put, written, rolled, lost>> /\ mutex' = None
    BY DEF NoAppenderMade, AppenderVars
  <1>3. /\ thread' \in [LogThreads -> ThreadSet] /\ \A u \in LogThreads : u # t => thread'[u] = thread[u]
        /\ thread'[t].at = "idle" /\ mutex = t /\ ~enabled
        /\ (BufferRight /\ LinesRight /\ ImplsRight /\ TextsRight /\ MessagesRight)'
        /\ \A u \in LogThreads : u # t => thread[u].at \notin Configuring
    BY <1>1, <1>2, NextPlace DEF NoAppenderMade, Configuring, Places
  <1>4. LogTyped'
    BY <1>1, <1>2, <1>3 DEF LogTyped
  <1>5. MutexRight'
    BY <1>1, <1>2, <1>3, LogFacts DEF MutexRight, Configuring, HasImpl
  <1>6. LevelsRight'
    <2>1. Someone("setting levels")' = Someone("setting levels")
      BY <1>1, <1>3 DEF Someone
    <2> QED
      BY <1>1, <1>2, <1>3, <2>1 DEF LevelsRight
  <1> QED
    BY <1>3, <1>4, <1>5, <1>6 DEF LogInv

LEMMA CopiedStays ==
  ASSUME LogInv, NEW t \in LogThreads, Copied(t)
  PROVE  LogInv'
  <1>1. /\ LogTyped /\ MutexRight /\ LevelsRight /\ thread[t].at = "copying" /\ t # None
    BY LogFacts DEF Copied, At
  <1>2. /\ UNCHANGED <<enabled, loggers, waiting, spare, text, mutex, draft, messages, configured, silenced,
                       old, raced, AppenderVars>>
        /\ UNCHANGED <<appender, files, put, written, rolled, lost>> /\ inForce' = draft
    BY DEF Copied, AppenderVars
  <1>3. /\ thread' \in [LogThreads -> ThreadSet] /\ \A u \in LogThreads : u # t => thread'[u] = thread[u]
        /\ thread'[t].at = "setting levels" /\ mutex = t /\ ~enabled
        /\ (BufferRight /\ LinesRight /\ ImplsRight /\ TextsRight /\ MessagesRight)'
    BY <1>1, <1>2, NextPlace DEF Copied, Configuring, Places
  <1>4. LogTyped'
    BY <1>1, <1>2, <1>3 DEF LogTyped
  <1>5. MutexRight'
    BY <1>1, <1>2, <1>3 DEF MutexRight, Configuring, HasImpl
  <1>6. LevelsRight'
    <2>1. Someone("setting levels")'
      BY <1>3 DEF Someone
    <2>2. \A u \in LogThreads : thread'[u].at = "inserting" =>
            thread[u].seen <= configured /\ thread[u].seen # configured /\ thread'[u] = thread[u]
      BY <1>1, <1>3 DEF LevelsRight
    <2> QED
      BY <1>2, <2>1, <2>2 DEF LevelsRight
  <1> QED
    BY <1>3, <1>4, <1>5, <1>6 DEF LogInv

LEMMA LevelsSetStays ==
  ASSUME LogInv, NEW t \in LogThreads, LevelsSet(t)
  PROVE  LogInv'
  <1>1. /\ LogTyped /\ MutexRight /\ LevelsRight /\ thread[t].at = "setting levels"
    BY LogFacts DEF LevelsSet, At
  <1>2. /\ UNCHANGED <<enabled, inForce, waiting, spare, text, mutex, draft, messages, configured, silenced,
                       raced, AppenderVars>>
        /\ UNCHANGED <<appender, files, put, written, rolled, lost>>
        /\ loggers' = [c \in DOMAIN loggers |-> logFlags(inForce, c)]
    BY DEF LevelsSet, AppenderVars
  <1>3. /\ thread' \in [LogThreads -> ThreadSet] /\ \A u \in LogThreads : u # t => thread'[u] = thread[u]
        /\ thread'[t].at = "switching on"
        /\ (BufferRight /\ LinesRight /\ ImplsRight /\ TextsRight /\ MessagesRight)'
    BY <1>1, <1>2, NextPlace DEF LevelsSet, Configuring, Places
  <1>4. LogTyped'
    BY <1>1, <1>2, <1>3 DEF LogTyped
  <1>5. MutexRight'
    BY <1>1, <1>2, <1>3 DEF MutexRight, Configuring, HasImpl
  <1>6. LevelsRight'
    BY <1>1, <1>2, <1>3 DEF LevelsRight
  <1> QED
    BY <1>3, <1>4, <1>5, <1>6 DEF LogInv

LEMMA SwitchedOnStays ==
  ASSUME LogInv, NEW t \in LogThreads, SwitchedOn(t)
  PROVE  LogInv'
  <1>1. /\ LogTyped /\ MutexRight /\ LevelsRight /\ thread[t].at = "switching on"
    BY LogFacts DEF SwitchedOn, At
  <1>2. /\ UNCHANGED <<inForce, loggers, waiting, spare, text, draft, messages, configured, silenced, old, raced,
                       AppenderVars>>
        /\ UNCHANGED <<appender, files, put, written, rolled, lost>> /\ enabled' = TRUE /\ mutex' = None
    BY DEF SwitchedOn, AppenderVars
  <1>3. /\ thread' \in [LogThreads -> ThreadSet] /\ \A u \in LogThreads : u # t => thread'[u] = thread[u]
        /\ thread'[t].at = "idle"
        /\ (BufferRight /\ LinesRight /\ ImplsRight /\ TextsRight /\ MessagesRight)'
        /\ \A u \in LogThreads : u # t => thread[u].at \notin Configuring
    BY <1>1, <1>2, NextPlace DEF SwitchedOn, Configuring, Places
  <1>4. LogTyped'
    BY <1>1, <1>2, <1>3 DEF LogTyped
  <1>5. HasImpl /\ configured > 0
    BY <1>1 DEF MutexRight, Configuring
  <1>6. MutexRight'
    BY <1>1, <1>2, <1>3, <1>5, LogFacts DEF MutexRight, Configuring, HasImpl
  <1>7. LevelsRight'
    <2>1. Someone("setting levels")' = Someone("setting levels")
      BY <1>1, <1>3 DEF Someone
    <2> QED
      BY <1>1, <1>2, <1>3, <2>1 DEF LevelsRight
  <1> QED
    BY <1>3, <1>4, <1>6, <1>7 DEF LogInv

LEMMA DisableStays ==
  ASSUME LogInv, NEW t \in LogThreads, Disable(t)
  PROVE  LogInv'
  <1>1. /\ LogTyped /\ MutexRight /\ BufferRight /\ LinesRight /\ ImplsRight /\ TextsRight /\ MessagesRight
        /\ LevelsRight
    BY LogFacts
  <1>2. /\ UNCHANGED <<inForce, loggers, waiting, spare, text, thread, mutex, draft, messages, configured,
                       silenced, old, raced, AppenderVars>>
        /\ UNCHANGED <<appender, files, put, written, rolled, lost>> /\ enabled' = FALSE
    BY DEF Disable, AppenderVars
  <1>3. (LogTyped /\ MutexRight)'
    BY <1>1, <1>2 DEF LogTyped, MutexRight, HasImpl
  <1>4. Active' = Active /\ Waiting' = Waiting /\ Someone("setting levels")' = Someone("setting levels")
    BY <1>2 DEF Active, Waiting, Someone
  <1>5. (BufferRight /\ LinesRight)'
    BY <1>1, <1>2, <1>4 DEF BufferRight, LinesRight
  <1>6. (ImplsRight /\ LevelsRight)'
    BY <1>1, <1>2, <1>4 DEF ImplsRight, LevelsRight
  <1>7. (TextsRight /\ MessagesRight)'
    BY <1>1, <1>2, <1>4 DEF TextsRight, MessagesRight, Ends, RotateLine
  <1> QED
    BY <1>3, <1>5, <1>6, <1>7 DEF LogInv

\* A beginning of a sequence that was put together.
LEMMA FirstPart ==
  ASSUME NEW S, NEW s \in Seq(S), NEW r \in Seq(S)
  PROVE  SubSeq(s \o r, 1, Len(s \o r) - Len(r)) = s
  <1>1. s \o r \in Seq(S) /\ Len(s \o r) - Len(r) = Len(s) /\ \A i \in 1 .. Len(s) : (s \o r)[i] = s[i]
    OBVIOUS
  <1>2. Len(s) \in Nat /\ s = [i \in 1 .. Len(s) |-> s[i]] /\ Len(s) <= Len(s \o r)
    OBVIOUS
  <1> QED
    BY <1>1, <1>2

\* Fewer lines are put.
LEMMA FewerLines ==
  ASSUME LogInv, put' \in Seq(Seq(Nat)), Len(put') <= Len(put), \A i \in 1 .. Len(put') : put'[i] = put[i],
         Active' = Active, \A u \in Active : thread'[u].message = thread[u].message, UNCHANGED <<messages, silenced>>
  PROVE  MessagesRight'
  <1>1. MessagesRight /\ put \in Seq(Seq(Nat))
    BY LogFacts DEF LogTyped
  <1>2. \A i \in 1 .. Len(put') : i \in 1 .. Len(put) /\ \A j \in 1 .. i - 1 : j \in 1 .. Len(put')
    BY <1>1
  <1>3. \A u \in Active : /\ thread'[u].message \in 1 .. messages
                         /\ \A v \in Active : thread'[v].message = thread'[u].message => v = u
                         /\ \A i \in 1 .. Len(put') : put'[i] # RotateLine => put'[i][Len(put'[i])] # thread'[u].message
    BY <1>1, <1>2 DEF MessagesRight
  <1>4. \A i \in 1 .. Len(put') : put'[i] # RotateLine =>
          /\ \E m \in 1 .. messages : Ends(put'[i], m)
          /\ \A j \in 1 .. i - 1 : put'[j] # RotateLine => put'[i][Len(put'[i])] # put'[j][Len(put'[j])]
    <2> SUFFICES ASSUME NEW i \in 1 .. Len(put'), put'[i] # RotateLine
                 PROVE  /\ \E m \in 1 .. messages : Ends(put'[i], m)
                        /\ \A j \in 1 .. i - 1 : put'[j] # RotateLine => put'[i][Len(put'[i])] # put'[j][Len(put'[j])]
      OBVIOUS
    <2>1. i \in 1 .. Len(put) /\ put'[i] = put[i] /\ \A j \in 1 .. i - 1 : put'[j] = put[j]
      BY <1>2
    <2>2. /\ \E m \in 1 .. messages : Ends(put[i], m)
          /\ \A j \in 1 .. i - 1 : put[j] # RotateLine => put[i][Len(put[i])] # put[j][Len(put[j])]
      BY <1>1, <2>1 DEF MessagesRight
    <2> QED
      BY <2>1, <2>2
  <1> QED
    BY <1>3, <1>4 DEF MessagesRight, Ends, RotateLine

\* What appender a configuration has.
LEMMA AppenderIsKnown ==
  ASSUME LogInv
  PROVE  AppenderOf(draft) \in Kinds /\ draft.maxfilesize \in Nat /\ draft.maxbackupindex \in Nat
  <1>1. draft \in Configs \cup {NewConf}
    BY LogFacts DEF LogTyped, Configurations
  <1> QED
    BY <1>1, LogAssumption DEF NewConf, AppenderOf, Kinds

LEMMA NewAppenderStays ==
  ASSUME LogInv, NEW t \in LogThreads, NewAppender(t)
  PROVE  LogInv'
  <1>1. /\ LogTyped /\ MutexRight /\ BufferRight /\ LinesRight /\ ImplsRight /\ TextsRight /\ LevelsRight
        /\ thread[t].at = "making the appender" /\ thread[t].impl = None
    BY LogFacts DEF NewAppender, At, ImplsRight
  <1>2. /\ UNCHANGED <<enabled, inForce, loggers, waiting, spare, text, mutex, draft, files, messages, configured,
                       written, rolled, silenced, old, raced>>
        /\ appender' = [kind |-> AppenderOf(draft), max |-> draft.maxfilesize, backups |-> draft.maxbackupindex,
                        buffer |-> << >>, size |-> Len(files[1])]
        /\ put' = SubSeq(put, 1, Len(put) - Len(appender.buffer))
    BY DEF NewAppender
  <1>3. /\ thread' \in [LogThreads -> ThreadSet] /\ \A u \in LogThreads : u # t => thread'[u] = thread[u]
        /\ thread'[t].at = "copying" /\ thread'[t].impl = None
    BY <1>1, GoneOn DEF NewAppender, Places
  <1>4. mutex = t /\ ~enabled
    BY <1>1, LogFacts DEF MutexRight, Configuring
  <1>5. put' = written /\ put' \in Seq(Seq(Nat))
    <2>1. appender.buffer \in Seq(Seq(Nat))
      BY <1>1 DEF LogTyped, AppenderSet
    <2>2. written \in Seq(Seq(Nat))
      BY <1>1 DEF LogTyped
    <2> QED
      BY <1>1, <1>2, <2>1, <2>2, FirstPart DEF LinesRight
  <1>6. appender' \in AppenderSet /\ appender'.kind # None /\ appender'.buffer = << >>
    <2>1. Len(files[1]) \in Nat
      <3>1. files \in Seq(Seq(Seq(Nat))) /\ files # << >>
        BY <1>1 DEF LogTyped
      <3>2. 1 \in 1 .. Len(files)
        BY <3>1
      <3> QED
        BY <3>1, <3>2
    <2>2. AppenderOf(draft) # None
      BY AppenderIsKnown DEF Kinds, None
    <2> QED
      BY <1>2, <2>1, <2>2, AppenderIsKnown DEF AppenderSet
  <1>7. LogTyped'
    BY <1>1, <1>2, <1>3, <1>5, <1>6 DEF LogTyped
  <1>8. MutexRight'
    BY <1>1, <1>2, <1>3, <1>4, <1>6 DEF MutexRight, Configuring, HasImpl
  <1>9. Active' = Active /\ Waiting' = Waiting /\ \A u \in Active : thread'[u] = thread[u]
    BY <1>1, <1>3 DEF Active, Waiting
  <1>10. BufferRight' /\ LinesRight'
    <2>1. put' \o << >> = put'
      BY <1>5
    <2> QED
      BY <1>1, <1>2, <1>5, <1>6, <1>9, <2>1 DEF BufferRight, LinesRight
  <1>11. ImplsRight' /\ TextsRight'
    <2>1. \A u \in LogThreads : /\ thread'[u].impl = thread[u].impl
                                /\ thread[u].impl # None => thread'[u] = thread[u]
      BY <1>1, <1>3
    <2>2. UNCHANGED <<spare, text, silenced>>
      BY <1>2
    <2>3. ImplsRight /\ TextsRight
      BY <1>1
    <2>4. ImplsRight'
      BY <2>1, <2>2, <2>3 DEF ImplsRight
    <2> QED
      BY <1>9, <2>2, <2>3, <2>4 DEF TextsRight, Ends
  <1>12. MessagesRight'
    <2>1. put \in Seq(Seq(Nat)) /\ appender.buffer \in Seq(Seq(Nat))
      BY <1>1 DEF LogTyped, AppenderSet
    <2>2. put = put' \o appender.buffer
      BY <1>1, <1>5 DEF LinesRight
    <2>3. Len(put') <= Len(put) /\ \A i \in 1 .. Len(put') : put'[i] = put[i]
      BY <1>5, <2>1, <2>2
    <2> QED
      BY <1>2, <1>5, <1>9, <2>3, FewerLines
  <1>13. LevelsRight'
    <2>1. Someone("setting levels")' = Someone("setting levels")
      BY <1>1, <1>3 DEF Someone
    <2> QED
      BY <1>1, <1>2, <1>3, <2>1 DEF LevelsRight
  <1> QED
    BY <1>7, <1>8, <1>10, <1>11, <1>12, <1>13 DEF LogInv

\* A message is made by a thread that had none.
LEMMA MessageMade ==
  ASSUME LogInv, NEW t \in LogThreads, \A u \in LogThreads : u # t => thread'[u] = thread[u],
         thread[t].at = "idle", thread'[t].at = "composed", thread'[t].message = messages + 1,
         messages' = messages + 1, UNCHANGED <<waiting, appender, put, written, silenced>>
  PROVE  (BufferRight /\ LinesRight /\ MessagesRight)' /\ Active' = Active \cup {t} /\ t \notin Active
  <1>1. BufferRight /\ LinesRight /\ MessagesRight /\ messages \in Nat /\ put \in Seq(Seq(Nat))
    BY LogFacts DEF LogTyped
  <1>2. Active' = Active \cup {t} /\ Waiting' = Waiting /\ t \notin Active
    BY DEF Active, Waiting
  <1>3. BufferRight' /\ LinesRight'
    BY <1>1, <1>2 DEF BufferRight, LinesRight
  <1>4. \A u \in Active : thread[u].message \in 1 .. messages /\ thread'[u] = thread[u]
    BY <1>1, <1>2 DEF MessagesRight, Active
  <1>5. \A i \in 1 .. Len(put) : put[i] # RotateLine => put[i][Len(put[i])] \in 1 .. messages
    BY <1>1 DEF MessagesRight, Ends
  <1>6. messages + 1 \notin 1 .. messages /\ messages + 1 \in 1 .. messages' /\ 1 .. messages \subseteq 1 .. messages'
    BY <1>1
  <1>7. \A u \in Active' : /\ thread'[u].message \in 1 .. messages'
                           /\ \A v \in Active' : thread'[v].message = thread'[u].message => v = u
    BY <1>1, <1>2, <1>4, <1>6 DEF MessagesRight
  <1>8. \A u \in Active' : \A i \in 1 .. Len(put) : put[i] # RotateLine => put[i][Len(put[i])] # thread'[u].message
    <2>1. \A u \in Active : \A i \in 1 .. Len(put) : put[i] # RotateLine => put[i][Len(put[i])] # thread[u].message
      BY <1>1, Zenon DEF MessagesRight
    <2>2. \A i \in 1 .. Len(put) : put[i] # RotateLine => put[i][Len(put[i])] # thread'[t].message
      BY <1>5, <1>6
    <2> QED
      BY <1>2, <1>4, <2>1, <2>2
  <1>9. \A i \in 1 .. Len(put) : put[i] # RotateLine =>
          /\ \E m \in 1 .. messages' : Ends(put[i], m)
          /\ \A j \in 1 .. i - 1 : put[j] # RotateLine => put[i][Len(put[i])] # put[j][Len(put[j])]
    BY <1>1, <1>6 DEF MessagesRight
  <1>10. MessagesRight'
    BY <1>7, <1>8, <1>9 DEF MessagesRight, Ends, RotateLine
  <1> QED
    BY <1>2, <1>3, <1>10

\* A scope is traced: its message is not put together in an Impl.
LEMMA ScopeStays ==
  ASSUME LogInv, NEW t \in LogThreads, NEW b \in BOOLEAN, thread[t].at = "idle",
         thread' = [thread EXCEPT ![t].at = "composed", ![t].message = messages + 1, ![t].tracer = b],
         messages' = messages + 1,
         UNCHANGED <<enabled, inForce, loggers, waiting, spare, text, mutex, draft, configured, silenced,
                     old, raced, AppenderVars>>
  PROVE  LogInv'
  <1> DEFINE r == [[[thread[t] EXCEPT !.at = "composed"] EXCEPT !.message = messages + 1] EXCEPT !.tracer = b]
  <1>1. /\ LogTyped /\ ImplsRight /\ TextsRight /\ thread[t] \in ThreadSet /\ thread[t].impl = None
        /\ messages + 1 \in Nat
    <2>1. LogTyped /\ ImplsRight /\ TextsRight /\ thread[t] \in ThreadSet
      BY LogFacts
    <2>2. thread[t].impl = None
      BY <2>1 DEF ImplsRight
    <2>3. messages \in Nat
      BY <2>1 DEF LogTyped
    <2> QED
      BY <2>1, <2>2, <2>3
  <1>2. r \in ThreadSet /\ r.at = "composed" /\ r.impl = None /\ r.message = messages + 1
    BY <1>1 DEF ThreadSet, Places
  <1>3. thread' = [thread EXCEPT ![t] = r]
    BY <1>1 DEF LogTyped
  <1> HIDE DEF r
  <1>4. /\ thread' \in [LogThreads -> ThreadSet] /\ \A u \in LogThreads : u # t => thread'[u] = thread[u]
        /\ thread'[t].at = "composed" /\ thread'[t].impl = None /\ thread'[t].message = messages + 1
    BY <1>2, <1>3, MovedThread
  <1>5. UNCHANGED <<appender, files, put, written, rolled, lost>>
    BY DEF AppenderVars
  <1>6. LogTyped'
    BY <1>1, <1>4, <1>5 DEF LogTyped
  <1>7. (BufferRight /\ LinesRight /\ MessagesRight)' /\ Active' = Active \cup {t} /\ t \notin Active
    BY <1>4, <1>5, MessageMade
  <1>8. (MutexRight /\ LevelsRight)'
    BY <1>4, <1>5, MessageStays
  <1>9. \A u \in LogThreads : thread'[u].impl = thread[u].impl /\ (thread[u].impl # None => thread'[u] = thread[u])
    BY <1>1, <1>4
  <1>10. ImplsRight'
    <2>1. spare' = spare
      OBVIOUS
    <2>2. \A u \in LogThreads : thread'[u].impl # None =>
            /\ thread'[u].at \in {"composed", "counting", "waiting", "done"}
            /\ \A k \in 1 .. Len(spare') : spare'[k] # thread'[u].impl
      <3> SUFFICES ASSUME NEW u \in LogThreads, thread'[u].impl # None
                   PROVE  /\ thread'[u].at \in {"composed", "counting", "waiting", "done"}
                          /\ \A k \in 1 .. Len(spare') : spare'[k] # thread'[u].impl
        OBVIOUS
      <3>1. thread[u].impl # None /\ thread'[u] = thread[u]
        BY <1>9
      <3> QED
        BY <1>1, <2>1, <3>1 DEF ImplsRight
    <2>3. \A u, v \in LogThreads : thread'[u].impl # None /\ thread'[v].impl = thread'[u].impl => v = u
      BY <1>1, <1>9 DEF ImplsRight
    <2>4. \A k, l \in 1 .. Len(spare') : spare'[k] = spare'[l] => k = l
      BY <1>1, <2>1 DEF ImplsRight
    <2> QED
      BY <2>2, <2>3, <2>4 DEF ImplsRight
  <1>11. TextsRight'
    <2>1. \A u \in Active' : thread'[u].impl # None => u \in Active /\ thread'[u] = thread[u]
      <3>1. \A u \in Active : u \in LogThreads
        BY DEF Active
      <3> QED
        BY <1>4, <1>7, <3>1
    <2>2. \A u \in Active : thread'[u] = thread[u] /\ u \in Active'
      BY <1>4, <1>7 DEF Active
    <2>3. UNCHANGED <<text, silenced>>
      OBVIOUS
    <2>4. \A u \in Active' : thread'[u].impl # None => Ends(text[thread'[u].impl], thread'[u].message)
      BY <1>1, <2>1 DEF TextsRight
    <2>5. \A i \in Impls : (\A u \in Active' : thread'[u].impl # i) => \A j \in 1 .. Len(text[i]) : text[i][j] \in silenced
      BY <1>1, <2>2 DEF TextsRight
    <2> QED
      BY <2>3, <2>4, <2>5 DEF TextsRight, Ends
  <1> QED
    BY <1>6, <1>7, <1>8, <1>10, <1>11 DEF LogInv

LEMMA EnterScopeStays ==
  ASSUME LogInv, NEW t \in LogThreads, EnterScope(t)
  PROVE  LogInv'
  BY ScopeStays DEF EnterScope, At

LEMMA ExitScopeStays ==
  ASSUME LogInv, NEW t \in LogThreads, ExitScope(t)
  PROVE  LogInv'
  BY ScopeStays DEF ExitScope, At

\* What the pool gives is not used.
LEMMA GivenImpl ==
  ASSUME LogInv, NEW g \in Taken \cup New
  PROVE  /\ g.impl \in Impls /\ \A u \in LogThreads : thread[u].impl # g.impl
         /\ g.rest \in Seq(Impls) /\ Len(g.rest) <= Len(spare) /\ \A i \in 1 .. Len(g.rest) : g.rest[i] = spare[i]
         /\ \A i \in 1 .. Len(g.rest) : g.rest[i] # g.impl
  <1>1. spare \in Seq(Impls) /\ ImplsRight /\ None \notin Impls
    BY LogFacts DEF LogTyped
  <1>2. CASE g \in Taken
    <2>1. spare # << >> /\ g.impl = spare[Len(spare)] /\ g.rest = SubSeq(spare, 1, Len(spare) - 1)
      BY <1>2 DEF Taken, Last, Front
    <2>2. /\ Len(spare) \in 1 .. Len(spare) /\ Len(spare) - 1 \in Nat
          /\ g.rest \in Seq(Impls) /\ Len(g.rest) = Len(spare) - 1
          /\ \A i \in 1 .. Len(g.rest) : i \in 1 .. Len(spare) /\ i # Len(spare) /\ g.rest[i] = spare[i]
      <3>1. Len(spare) \in Nat /\ Len(spare) # 0
        BY <1>1, <2>1
      <3>2. /\ g.rest \in Seq(Impls) /\ Len(g.rest) = Len(spare) - 1
            /\ \A i \in 1 .. Len(spare) - 1 : g.rest[i] = spare[i]
        <4> DEFINE n == Len(spare) - 1
        <4>1. 1 \in Int /\ n \in Int /\ n >= 0 /\ \A i \in 1 .. n : spare[i] \in Impls
          BY <1>1, <3>1
        <4>2. g.rest = SubSeq(spare, 1, n)
          BY <2>1
        <4> HIDE DEF n
        <4>3. /\ g.rest \in Seq(Impls) /\ Len(g.rest) = IF 1 <= n THEN n - 1 + 1 ELSE 0
              /\ \A i \in 1 .. n - 1 + 1 : g.rest[i] = spare[1 + i - 1]
          BY <4>1, <4>2, SubSeqProperties
        <4>4. \A i \in 1 .. n : i \in 1 .. n - 1 + 1 /\ 1 + i - 1 = i
          BY <4>1
        <4>5. Len(g.rest) = n
          BY <4>1, <4>3
        <4>6. \A i \in 1 .. n : g.rest[i] = spare[i]
          BY <4>3, <4>4
        <4> QED
          BY <4>3, <4>5, <4>6 DEF n
      <3> QED
        BY <3>1, <3>2
    <2>3. g.impl \in Impls /\ \A i \in 1 .. Len(g.rest) : g.rest[i] # g.impl
      BY <1>1, <2>1, <2>2 DEF ImplsRight
    <2>4. \A u \in LogThreads : thread[u].impl # g.impl
      BY <1>1, <2>1, <2>2, <2>3 DEF ImplsRight
    <2>5. Len(g.rest) <= Len(spare)
      BY <2>2
    <2> QED
      BY <2>2, <2>3, <2>4, <2>5
  <1>3. CASE g \in New
    <2> DEFINE others == Impls \ (InUse \cup Range(spare))
    <2>1. g.impl \in others /\ g.rest = spare
      BY <1>3 DEF New
    <2>2. \A i \in 1 .. Len(spare) : spare[i] \in Range(spare)
      BY <1>1 DEF Range
    <2>3. \A u \in LogThreads : thread[u].impl # None => thread[u].impl \in InUse
      BY DEF InUse
    <2> QED
      BY <1>1, <2>1, <2>2, <2>3
  <1> QED
    BY <1>2, <1>3

LEMMA ComposeStays ==
  ASSUME LogInv, NEW t \in LogThreads, Compose(t)
  PROVE  LogInv'
  <1>1. PICK g \in Taken \cup New :
          /\ spare' = g.rest
          /\ text' = [text EXCEPT ![g.impl] = Append(text[g.impl], messages + 1)]
          /\ thread' = [thread EXCEPT ![t].at = "composed", ![t].impl = g.impl, ![t].message = messages + 1]
    BY DEF Compose
  <1> DEFINE i == g.impl
  <1>2. /\ messages' = messages + 1 /\ thread[t].at = "idle"
        /\ UNCHANGED <<enabled, inForce, loggers, waiting, mutex, draft, configured, silenced, old, raced,
                       AppenderVars>>
        /\ UNCHANGED <<appender, files, put, written, rolled, lost>>
    BY DEF Compose, At, AppenderVars
  <1>3. /\ i \in Impls /\ \A u \in LogThreads : thread[u].impl # i
        /\ g.rest \in Seq(Impls) /\ Len(g.rest) <= Len(spare) /\ \A k \in 1 .. Len(g.rest) : g.rest[k] = spare[k]
        /\ \A k \in 1 .. Len(g.rest) : g.rest[k] # i
    BY GivenImpl
  <1> HIDE DEF i
  <1>4. /\ LogTyped /\ ImplsRight /\ TextsRight /\ thread[t] \in ThreadSet /\ thread[t].impl = None
        /\ messages + 1 \in Nat /\ i # None
    <2>1. LogTyped /\ ImplsRight /\ TextsRight /\ thread[t] \in ThreadSet /\ None \notin Impls
      BY LogFacts
    <2>2. thread[t].impl = None
      BY <1>2, <2>1 DEF ImplsRight
    <2>3. messages \in Nat
      BY <2>1 DEF LogTyped
    <2> QED
      BY <1>3, <2>1, <2>2, <2>3
  <1> DEFINE r == [[[thread[t] EXCEPT !.at = "composed"] EXCEPT !.impl = i] EXCEPT !.message = messages + 1]
  <1>5. r \in ThreadSet /\ r.at = "composed" /\ r.impl = i /\ r.message = messages + 1
    BY <1>3, <1>4 DEF ThreadSet, Places
  <1>6. thread' = [thread EXCEPT ![t] = r]
    BY <1>1, <1>4 DEF LogTyped, i
  <1> HIDE DEF r
  <1>7. /\ thread' \in [LogThreads -> ThreadSet] /\ \A u \in LogThreads : u # t => thread'[u] = thread[u]
        /\ thread'[t].at = "composed" /\ thread'[t].impl = i /\ thread'[t].message = messages + 1
    BY <1>5, <1>6, MovedThread
  <1>8. /\ text \in [Impls -> Seq(Nat)] /\ text' \in [Impls -> Seq(Nat)]
        /\ text'[i] = Append(text[i], messages + 1) /\ \A k \in Impls : k # i => text'[k] = text[k]
    BY <1>1, <1>3, <1>4, SMTT(30) DEF LogTyped, i
  <1>9. LogTyped'
    <2>1. spare' \in Seq(Impls) /\ Len(spare') <= MaxSpare
      <3>1. spare \in Seq(Impls) /\ Len(spare) <= MaxSpare /\ MaxSpare \in Nat
        BY <1>4, LogAssumption DEF LogTyped
      <3>2. g.rest \in Seq(Impls) /\ Len(g.rest) <= MaxSpare
        BY <1>3, <3>1
      <3> QED
        BY <1>1, <3>2, Zenon
    <2> QED
      BY <1>2, <1>4, <1>7, <1>8, <2>1 DEF LogTyped
  <1>10. (BufferRight /\ LinesRight /\ MessagesRight)' /\ Active' = Active \cup {t} /\ t \notin Active
    BY <1>2, <1>7, MessageMade
  <1>11. (MutexRight /\ LevelsRight)'
    BY <1>2, <1>7, MessageStays
  <1>12. ImplsRight'
    <2>1. \A k \in 1 .. Len(spare') : k \in 1 .. Len(spare) /\ spare'[k] = spare[k] /\ spare'[k] # i
      <3>1. Len(spare) \in Nat /\ Len(g.rest) \in Nat
        BY <1>3, <1>4 DEF LogTyped
      <3>2. \A k \in 1 .. Len(g.rest) : k \in 1 .. Len(spare) /\ g.rest[k] = spare[k] /\ g.rest[k] # i
        BY <1>3, <3>1
      <3>3. spare' = g.rest
        BY <1>1
      <3> QED
        BY <3>2, <3>3, Zenon
    <2>2. \A k, l \in 1 .. Len(spare') : spare'[k] = spare'[l] => k = l
      BY <1>4, <2>1 DEF ImplsRight
    <2>3. \A u \in LogThreads : thread'[u].impl # None =>
            /\ thread'[u].at \in {"composed", "counting", "waiting", "done"}
            /\ \A k \in 1 .. Len(spare') : spare'[k] # thread'[u].impl
      BY <1>4, <1>7, <2>1 DEF ImplsRight
    <2>4. \A u, v \in LogThreads : thread'[u].impl # None /\ thread'[v].impl = thread'[u].impl => u = v
      BY <1>3, <1>4, <1>7 DEF ImplsRight
    <2> QED
      BY <2>2, <2>3, <2>4 DEF ImplsRight
  <1>13. TextsRight'
    <2>1. \A j \in 1 .. Len(text[i]) : text[i][j] \in silenced
      BY <1>3, <1>4 DEF TextsRight, Active
    <2>2. Ends(text'[i], messages + 1)
      <3>1. /\ text'[i] # << >> /\ Len(text'[i]) = Len(text[i]) + 1 /\ text'[i][Len(text'[i])] = messages + 1
            /\ \A j \in 1 .. Len(text[i]) : text'[i][j] = text[i][j]
        <4>1. text[i] \in Seq(Nat) /\ messages + 1 \in Nat
          BY <1>3, <1>4, <1>8
        <4> QED
          BY <1>8, <4>1, AppendProperties, SMTT(30)
      <3>2. \A j \in 1 .. Len(text'[i]) : j # Len(text'[i]) => j \in 1 .. Len(text[i])
        BY <1>3, <1>8, <3>1
      <3> QED
        BY <2>1, <3>1, <3>2 DEF Ends
    <2>3. \A u \in Active : thread'[u] = thread[u] /\ thread'[u].impl # i /\ u \in Active'
      BY <1>3, <1>7, <1>10 DEF Active
    <2>4. \A u \in Active' : thread'[u].impl # None => Ends(text'[thread'[u].impl], thread'[u].message)
      <3>1. \A u \in Active : thread[u].impl # None => thread[u].impl \in Impls /\ text'[thread[u].impl] = text[thread[u].impl]
        BY <1>3, <1>8, LogFacts DEF Active
      <3>2. \A u \in Active : thread'[u].impl # None => Ends(text'[thread'[u].impl], thread'[u].message)
        BY <1>4, <2>3, <3>1 DEF TextsRight
      <3> QED
        BY <1>7, <1>10, <2>2, <3>2
    <2>5. \A k \in Impls : (\A u \in Active' : thread'[u].impl # k) => \A j \in 1 .. Len(text'[k]) : text'[k][j] \in silenced
      <3>1. t \in Active' /\ thread'[t].impl = i
        BY <1>7, <1>10
      <3>2. \A k \in Impls : (\A u \in Active' : thread'[u].impl # k) => k # i /\ \A u \in Active : thread[u].impl # k
        BY <2>3, <3>1
      <3> QED
        BY <1>4, <1>8, <3>2 DEF TextsRight
    <2> QED
      BY <1>2, <2>4, <2>5 DEF TextsRight, Ends
  <1> QED
    BY <1>9, <1>10, <1>11, <1>12, <1>13 DEF LogInv

\* A message goes on in its Impl.
LEMMA ImplsStay ==
  ASSUME LogInv, NEW t \in LogThreads, NEW where \in {"composed", "counting", "waiting", "done"},
         Goes(t, where), spare' = spare
  PROVE  ImplsRight'
  <1>1. ImplsRight
    BY LogFacts
  <1>2. \A u \in LogThreads : thread'[u].impl = thread[u].impl /\ (u # t => thread'[u] = thread[u]) /\ thread'[t].at = where
    BY GoneOn DEF Places
  <1>3. \A u \in LogThreads : thread'[u].impl # None =>
          /\ thread'[u].at \in {"composed", "counting", "waiting", "done"}
          /\ \A k \in 1 .. Len(spare') : spare'[k] # thread'[u].impl
    <2> SUFFICES ASSUME NEW u \in LogThreads, thread'[u].impl # None
                 PROVE  /\ thread'[u].at \in {"composed", "counting", "waiting", "done"}
                        /\ \A k \in 1 .. Len(spare') : spare'[k] # thread'[u].impl
      OBVIOUS
    <2>1. thread[u].impl # None /\ thread'[u].impl = thread[u].impl
      BY <1>2
    <2>2. thread[u].at \in {"composed", "counting", "waiting", "done"} /\ \A k \in 1 .. Len(spare) : spare[k] # thread[u].impl
      BY <1>1, <2>1 DEF ImplsRight
    <2> QED
      BY <1>2, <2>1, <2>2
  <1>4. \A u, v \in LogThreads : thread'[u].impl # None /\ thread'[v].impl = thread'[u].impl => v = u
    BY <1>1, <1>2 DEF ImplsRight
  <1>5. \A k, l \in 1 .. Len(spare') : spare'[k] = spare'[l] => k = l
    BY <1>1 DEF ImplsRight
  <1> QED
    BY <1>3, <1>4, <1>5 DEF ImplsRight

\* It is on its way before and afterwards.
LEMMA MessageGoesOn ==
  ASSUME LogInv, NEW t \in LogThreads, NEW where \in {"composed", "counting", "waiting"},
         thread[t].at \in {"composed", "counting", "waiting"},
         Goes(t, where), UNCHANGED <<spare, text, messages, silenced, put>>
  PROVE  (ImplsRight /\ TextsRight /\ MessagesRight)'
  <1>1. TextsRight /\ MessagesRight /\ put \in Seq(Seq(Nat))
    BY LogFacts DEF LogTyped
  <1>2. /\ \A u \in LogThreads : thread'[u].impl = thread[u].impl /\ thread'[u].message = thread[u].message
        /\ \A u \in LogThreads : u # t => thread'[u] = thread[u]
        /\ thread'[t].at = where
    BY GoneOn DEF Places
  <1>3. Active' = Active /\ \A u \in Active : u \in LogThreads
    BY <1>2 DEF Active
  <1>4. ImplsRight'
    BY ImplsStay
  <1>5. TextsRight'
    <2>1. \A u \in Active' : thread'[u].impl # None => Ends(text[thread'[u].impl], thread'[u].message)
      BY <1>1, <1>2, <1>3 DEF TextsRight
    <2>2. \A i \in Impls : (\A u \in Active' : thread'[u].impl # i) => \A j \in 1 .. Len(text[i]) : text[i][j] \in silenced
      BY <1>1, <1>2, <1>3 DEF TextsRight
    <2> QED
      BY <2>1, <2>2 DEF TextsRight, Ends
  <1>6. MessagesRight'
    BY <1>1, <1>2, <1>3, FewerLines
  <1> QED
    BY <1>4, <1>5, <1>6

LEMMA FinishLoudStays ==
  ASSUME LogInv, NEW t \in LogThreads, FinishLoud(t)
  PROVE  LogInv'
  <1>1. LogTyped /\ BufferRight /\ LinesRight /\ thread[t].at = "composed" /\ Goes(t, "counting")
    BY LogFacts DEF FinishLoud, At
  <1>2. /\ UNCHANGED <<enabled, inForce, loggers, waiting, spare, text, mutex, draft, messages, configured,
                       silenced, old, raced, AppenderVars>>
        /\ UNCHANGED <<appender, files, put, written, rolled, lost>>
    BY DEF FinishLoud, AppenderVars
  <1>3. /\ thread' \in [LogThreads -> ThreadSet] /\ \A u \in LogThreads : u # t => thread'[u] = thread[u]
        /\ thread'[t].at = "counting"
    BY <1>1, GoneOn DEF Places
  <1>4. LogTyped'
    BY <1>1, <1>2, <1>3 DEF LogTyped
  <1>5. (MutexRight /\ LevelsRight)'
    BY <1>1, <1>2, <1>3, MessageStays
  <1>6. (ImplsRight /\ TextsRight /\ MessagesRight)'
    BY <1>1, <1>2, MessageGoesOn
  <1>7. Waiting' = Waiting
    BY <1>1, <1>3 DEF Waiting
  <1>8. BufferRight' /\ LinesRight'
    BY <1>1, <1>2, <1>7 DEF BufferRight, LinesRight
  <1> QED
    BY <1>4, <1>5, <1>6, <1>8 DEF LogInv

\* Those who wait can be counted.
LEMMA WaitingIsFinite ==
  /\ IsFiniteSet(Waiting) /\ Cardinality(Waiting) \in Nat /\ (Cardinality(Waiting) = 0 <=> Waiting = {})
  <1>1. IsFiniteSet(LogThreads) /\ Waiting \subseteq LogThreads
    BY LogAssumption DEF LogThreads, Waiting
  <1>2. IsFiniteSet(Waiting)
    BY <1>1, FS_Subset
  <1> QED
    BY <1>2, FS_CardinalityType, FS_EmptySet

LEMMA CountStays ==
  ASSUME LogInv, NEW t \in LogThreads, Count(t)
  PROVE  LogInv'
  <1>1. LogTyped /\ BufferRight /\ LinesRight /\ thread[t].at = "counting" /\ Goes(t, "waiting") /\ waiting' = waiting + 1
    BY LogFacts DEF Count, At
  <1>2. /\ UNCHANGED <<enabled, inForce, loggers, spare, text, mutex, draft, messages, configured, silenced,
                       old, raced, AppenderVars>>
        /\ UNCHANGED <<appender, files, put, written, rolled, lost>>
    BY DEF Count, AppenderVars
  <1>3. /\ thread' \in [LogThreads -> ThreadSet] /\ \A u \in LogThreads : u # t => thread'[u] = thread[u]
        /\ thread'[t].at = "waiting"
    BY <1>1, GoneOn DEF Places
  <1>4. LogTyped'
    BY <1>1, <1>2, <1>3 DEF LogTyped
  <1>5. (MutexRight /\ LevelsRight)'
    BY <1>1, <1>2, <1>3, MessageStays
  <1>6. (ImplsRight /\ TextsRight /\ MessagesRight)'
    BY <1>1, <1>2, MessageGoesOn
  <1>7. Waiting' = Waiting \cup {t} /\ t \notin Waiting
    BY <1>1, <1>3 DEF Waiting
  <1>8. Cardinality(Waiting') = Cardinality(Waiting) + 1
    BY <1>7, WaitingIsFinite, FS_AddElement
  <1>9. BufferRight' /\ LinesRight'
    BY <1>1, <1>2, <1>7, <1>8 DEF BufferRight, LinesRight
  <1> QED
    BY <1>4, <1>5, <1>6, <1>9 DEF LogInv

\* A message that is finished while logging is off stays in its Impl.
LEMMA FinishSilentStays ==
  ASSUME LogInv, NEW t \in LogThreads, FinishSilent(t)
  PROVE  LogInv'
  <1>1. /\ LogTyped /\ BufferRight /\ LinesRight /\ TextsRight /\ MessagesRight /\ ImplsRight
        /\ thread[t].at = "composed" /\ Goes(t, "done") /\ silenced' = silenced \cup {thread[t].message}
    BY LogFacts DEF FinishSilent, At
  <1>2. /\ UNCHANGED <<enabled, inForce, loggers, waiting, spare, text, mutex, draft, messages, configured,
                       old, raced, AppenderVars>>
        /\ UNCHANGED <<appender, files, put, written, rolled, lost>>
    BY DEF FinishSilent, AppenderVars
  <1>3. /\ thread' \in [LogThreads -> ThreadSet] /\ \A u \in LogThreads : u # t => thread'[u] = thread[u]
        /\ thread'[t].at = "done" /\ thread'[t].impl = thread[t].impl
    BY <1>1, GoneOn DEF Places
  <1>4. LogTyped'
    BY <1>1, <1>2, <1>3 DEF LogTyped
  <1>5. (MutexRight /\ LevelsRight)'
    BY <1>1, <1>2, <1>3, MessageStays
  <1>6. ImplsRight'
    BY <1>1, <1>2, ImplsStay
  <1>7. /\ Waiting' = Waiting /\ Active' = Active \ {t} /\ t \in Active
        /\ \A u \in Active' : u \in Active /\ thread'[u] = thread[u]
    BY <1>1, <1>3 DEF Waiting, Active
  <1>8. BufferRight' /\ LinesRight'
    BY <1>1, <1>2, <1>7 DEF BufferRight, LinesRight
  <1>9. \A l, m : Ends(l, m) =>
          l # << >> /\ l[Len(l)] = m /\ \A i \in 1 .. Len(l) : i # Len(l) => l[i] \in silenced'
    BY <1>1 DEF Ends
  <1>10. TextsRight'
    <2>1. \A u \in Active' : thread'[u].impl # None => Ends(text[thread'[u].impl], thread'[u].message)
      BY <1>1, <1>7 DEF TextsRight
    <2>2. ASSUME NEW i \in Impls, \A u \in Active' : thread'[u].impl # i, NEW j \in 1 .. Len(text[i])
          PROVE  text[i][j] \in silenced'
      <3>1. CASE thread[t].impl = i
        <4>1. Ends(text[i], thread[t].message)
          BY <1>1, <1>7, <3>1, LogFacts DEF TextsRight
        <4> QED
          BY <1>1, <4>1 DEF Ends
      <3>2. CASE thread[t].impl # i
        <4>1. \A u \in Active : thread[u].impl # i
          BY <1>7, <2>2, <3>2
        <4> QED
          BY <1>1, <4>1 DEF TextsRight
      <3> QED
        BY <3>1, <3>2
    <2> QED
      BY <1>2, <1>9, <2>1, <2>2 DEF TextsRight, Ends
  <1>11. MessagesRight'
    <2>1. \A u \in Active' : /\ thread'[u].message \in 1 .. messages
                             /\ \A v \in Active' : thread'[v].message = thread'[u].message => v = u
                             /\ \A i \in 1 .. Len(put) : put[i] # RotateLine => put[i][Len(put[i])] # thread'[u].message
      BY <1>1, <1>7 DEF MessagesRight
    <2>2. \A i \in 1 .. Len(put) : put[i] # RotateLine =>
            /\ \E m \in 1 .. messages : Ends(put[i], m)
            /\ \A j \in 1 .. i - 1 : put[j] # RotateLine => put[i][Len(put[i])] # put[j][Len(put[j])]
      BY <1>1 DEF MessagesRight
    <2> QED
      BY <1>2, <1>9, <2>1, <2>2 DEF MessagesRight, Ends, RotateLine
  <1> QED
    BY <1>4, <1>5, <1>6, <1>8, <1>10, <1>11 DEF LogInv

\* An Impl that goes back to the pool, or is deleted, has no message of its own.
LEMMA ReleaseStays ==
  ASSUME LogInv, NEW t \in LogThreads, Release(t)
  PROVE  LogInv'
  <1> DEFINE i == thread[t].impl
  <1> DEFINE room == i # None /\ Len(spare) < MaxSpare
  <1>1. /\ LogTyped /\ BufferRight /\ LinesRight /\ TextsRight /\ MessagesRight /\ ImplsRight
        /\ thread[t].at = "done" /\ Rests(t) /\ i \in Impls \cup {None}
        /\ spare' = (IF room THEN Append(spare, i) ELSE spare)
        /\ text' = (IF i # None /\ ~room THEN [text EXCEPT ![i] = << >>] ELSE text)
    BY LogFacts DEF Release, At
  <1>2. /\ UNCHANGED <<enabled, inForce, loggers, waiting, mutex, draft, messages, configured, silenced, old,
                       raced, AppenderVars>>
        /\ UNCHANGED <<appender, files, put, written, rolled, lost>>
    BY DEF Release, AppenderVars
  <1>3. /\ thread' \in [LogThreads -> ThreadSet] /\ \A u \in LogThreads : u # t => thread'[u] = thread[u]
        /\ thread'[t].at = "idle" /\ thread'[t].impl = None
    BY <1>1, AtRest
  <1> HIDE DEF i
  <1>4. /\ text \in [Impls -> Seq(Nat)] /\ text' \in [Impls -> Seq(Nat)]
        /\ \A k \in Impls : text'[k] = text[k] \/ (k = i /\ text'[k] = << >>)
    <2>1. text \in [Impls -> Seq(Nat)]
      BY <1>1 DEF LogTyped
    <2>2. CASE text' = text
      BY <2>1, <2>2
    <2>3. CASE text' = [text EXCEPT ![i] = << >>]
      <3>1. << >> \in Seq(Nat)
        OBVIOUS
      <3>2. text' \in [Impls -> Seq(Nat)]
        BY <2>1, <2>3, <3>1
      <3>3. \A k \in Impls : text'[k] = IF k = i THEN << >> ELSE text[k]
        BY <2>1, <2>3
      <3> QED
        BY <2>1, <3>2, <3>3
    <2> QED
      BY <1>1, <2>1, <2>2, <2>3
  <1>5. /\ spare' \in Seq(Impls) /\ Len(spare') <= MaxSpare
        /\ \A k \in 1 .. Len(spare') : \/ k \in 1 .. Len(spare) /\ spare'[k] = spare[k]
                                       \/ k = Len(spare) + 1 /\ spare'[k] = i /\ i # None
    <2>1. spare \in Seq(Impls) /\ MaxSpare \in Nat /\ Len(spare) <= MaxSpare
      BY <1>1, LogAssumption DEF LogTyped
    <2>2. CASE room
      <3>1. i \in Impls
        BY <1>1, <2>2
      <3>2. spare' = Append(spare, i) /\ Len(spare) < MaxSpare /\ i # None
        BY <1>1, <2>2
      <3>3. /\ Append(spare, i) \in Seq(Impls) /\ Len(Append(spare, i)) = Len(spare) + 1
            /\ \A k \in 1 .. Len(spare) : Append(spare, i)[k] = spare[k]
            /\ Append(spare, i)[Len(spare) + 1] = i
        BY <2>1, <3>1, AppendProperties
      <3>4. \A k \in 1 .. Len(spare) + 1 : k \in 1 .. Len(spare) \/ k = Len(spare) + 1
        BY <2>1
      <3>5. Len(spare) + 1 <= MaxSpare
        BY <2>1, <3>2
      <3> QED
        BY <3>2, <3>3, <3>4, <3>5
    <2>3. CASE ~room
      <3>1. spare' = spare
        BY <1>1, <2>3
      <3> QED
        BY <2>1, <3>1
    <2> QED
      BY <2>2, <2>3
  <1>6. LogTyped'
    BY <1>1, <1>2, <1>3, <1>4, <1>5 DEF LogTyped
  <1>7. (MutexRight /\ LevelsRight)'
    BY <1>1, <1>2, <1>3, MessageStays
  <1>8. Waiting' = Waiting /\ Active' = Active /\ \A u \in Active : u \in LogThreads /\ u # t /\ thread'[u] = thread[u]
    BY <1>1, <1>3 DEF Waiting, Active
  <1>9. BufferRight' /\ LinesRight'
    BY <1>1, <1>2, <1>8 DEF BufferRight, LinesRight
  <1>10. \A u \in LogThreads : u # t /\ thread[u].impl # None => thread[u].impl # i
    BY <1>1 DEF ImplsRight, i
  <1>11. ImplsRight'
    <2>1. \A k \in 1 .. Len(spare) : i # None => spare[k] # i
      BY <1>1 DEF ImplsRight, i
    <2>2. \A k, l \in 1 .. Len(spare') : spare'[k] = spare'[l] => k = l
      BY <1>1, <1>5, <2>1 DEF ImplsRight
    <2>3. ASSUME NEW u \in LogThreads, thread'[u].impl # None
          PROVE  /\ thread'[u].at \in {"composed", "counting", "waiting", "done"}
                 /\ \A k \in 1 .. Len(spare') : spare'[k] # thread'[u].impl
                 /\ \A v \in LogThreads : thread'[v].impl = thread'[u].impl => v = u
      <3>1. u # t /\ thread'[u] = thread[u] /\ thread[u].impl # None
        BY <1>3, <2>3
      <3>2. /\ thread[u].at \in {"composed", "counting", "waiting", "done"}
            /\ \A k \in 1 .. Len(spare) : spare[k] # thread[u].impl
            /\ \A v \in LogThreads : thread[v].impl = thread[u].impl => v = u
        BY <1>1, <3>1 DEF ImplsRight
      <3> QED
        BY <1>3, <1>5, <1>10, <3>1, <3>2
    <2> QED
      BY <2>2, <2>3 DEF ImplsRight
  <1>12. TextsRight'
    <2>1. \A u \in Active' : thread'[u].impl # None => Ends(text'[thread'[u].impl], thread'[u].message)
      <3> SUFFICES ASSUME NEW u \in Active, thread[u].impl # None
                   PROVE  Ends(text'[thread[u].impl], thread[u].message)
        BY <1>8
      <3>1. thread[u].impl # i /\ thread[u].impl \in Impls
        BY <1>8, <1>10, LogFacts
      <3> QED
        BY <1>1, <1>4, <3>1 DEF TextsRight
    <2>2. \A k \in Impls : (\A u \in Active' : thread'[u].impl # k) => \A j \in 1 .. Len(text'[k]) : text'[k][j] \in silenced
      <3> SUFFICES ASSUME NEW k \in Impls, \A u \in Active : thread[u].impl # k, NEW j \in 1 .. Len(text'[k])
                   PROVE  text'[k][j] \in silenced
        BY <1>8
      <3>1. text'[k] # << >> 
        OBVIOUS
      <3> QED
        BY <1>1, <1>4, <3>1 DEF TextsRight
    <2> QED
      BY <1>2, <2>1, <2>2 DEF TextsRight, Ends
  <1>13. MessagesRight'
    <2>1. put \in Seq(Seq(Nat))
      BY <1>1 DEF LogTyped
    <2> QED
      BY <1>2, <1>8, <2>1, FewerLines
  <1> QED
    BY <1>6, <1>7, <1>9, <1>11, <1>12, <1>13 DEF LogInv

\* What doRotate() makes of the files.
LEMMA FilesRenamed ==
  ASSUME NEW S, NEW fs \in Seq(Seq(S)), NEW backups \in Nat
  PROVE  /\ Renamed(fs, backups) \in Seq(Seq(S)) /\ Renamed(fs, backups) # << >> /\ Renamed(fs, backups)[1] = << >>
         /\ \A i \in DOMAIN Renamed(fs, backups) : i # 1 => i - 1 \in DOMAIN fs /\ Renamed(fs, backups)[i] = fs[i - 1]
  <1> DEFINE m == Min({Len(fs), backups + 1})
  <1>1. m \in Nat /\ m <= Len(fs)
    <2>1. Len(fs) \in Nat
      OBVIOUS
    <2>2. \E x \in {Len(fs), backups + 1} : \A y \in {Len(fs), backups + 1} : x <= y
      BY <2>1
    <2>3. m \in {Len(fs), backups + 1} /\ m <= Len(fs)
      BY <2>2 DEF Min
    <2> QED
      BY <2>1, <2>3
  <1>2. Renamed(fs, backups) = << << >> >> \o SubSeq(fs, 1, m)
    BY DEF Renamed
  <1> HIDE DEF m
  <1> DEFINE older == SubSeq(fs, 1, m)
  <1>3. older \in Seq(Seq(S)) /\ Len(older) = m /\ \A i \in 1 .. m : older[i] = fs[i]
    <2>1. \A i \in 1 .. m : fs[i] \in Seq(S)
      BY <1>1
    <2>2. /\ older \in Seq(Seq(S)) /\ Len(older) = IF 1 <= m THEN m - 1 + 1 ELSE 0
          /\ \A i \in 1 .. m - 1 + 1 : older[i] = fs[1 + i - 1]
      BY <1>1, <2>1, SubSeqProperties
    <2>3. Len(older) = m /\ \A i \in 1 .. m : i \in 1 .. m - 1 + 1 /\ 1 + i - 1 = i
      BY <1>1, <2>2
    <2>4. \A i \in 1 .. m : older[i] = fs[i]
      BY <2>2, <2>3
    <2> QED
      BY <2>2, <2>3, <2>4
  <1> HIDE DEF older
  <1>4. << << >> >> \in Seq(Seq(S)) /\ Len(<< << >> >>) = 1 /\ << << >> >>[1] = << >>
    OBVIOUS
  <1> DEFINE gs == << << >> >> \o older
  <1>5. /\ gs \in Seq(Seq(S)) /\ Len(gs) = 1 + m
        /\ \A i \in 1 .. 1 + m : gs[i] = IF i <= 1 THEN << << >> >>[i] ELSE older[i - 1]
    BY <1>3, <1>4, ConcatProperties
  <1> HIDE DEF gs
  <1>6. gs # << >> /\ gs[1] = << >> /\ DOMAIN gs = 1 .. 1 + m
    BY <1>1, <1>4, <1>5
  <1>7. ASSUME NEW i \in 1 .. 1 + m, i # 1
        PROVE  i - 1 \in DOMAIN fs /\ gs[i] = fs[i - 1]
    <2>1. i - 1 \in 1 .. m /\ i - 1 \in 1 .. Len(fs) /\ ~(i <= 1)
      BY <1>1, <1>7
    <2> QED
      BY <1>3, <1>5, <2>1, SMTT(30)
  <1>8. Renamed(fs, backups) = gs
    BY <1>2 DEF gs, older
  <1> QED
    BY <1>5, <1>6, <1>7, <1>8

\* What is written goes to the current file.
LEMMA ToCurrent ==
  ASSUME NEW S, NEW fs \in Seq(Seq(S)), fs # << >>, NEW more \in Seq(S)
  PROVE  [fs EXCEPT ![1] = @ \o more] \in Seq(Seq(S)) /\ [fs EXCEPT ![1] = @ \o more] # << >>
  <1>1. 1 \in 1 .. Len(fs) /\ fs[1] \in Seq(S)
    OBVIOUS
  <1>2. fs[1] \o more \in Seq(S)
    BY <1>1
  <1> QED
    BY <1>1, <1>2

\* The current appender.
LEMMA AppenderKnown ==
  ASSUME LogInv
  PROVE  /\ appender \in AppenderSet /\ appender.kind \in Kinds \cup {None} /\ appender.max \in Nat
         /\ appender.backups \in Nat /\ appender.buffer \in Seq(Seq(Nat)) /\ appender.size \in Nat
  BY LogFacts DEF LogTyped, AppenderSet

\* Three lists of lines.
LEMMA LinesAssociative ==
  ASSUME NEW a \in Seq(Seq(Nat)), NEW b \in Seq(Seq(Nat)), NEW c \in Seq(Seq(Nat))
  PROVE  (a \o b) \o c = a \o (b \o c)
  BY SMT

\* A line that is kept, or written with all that was kept back.
LEMMA KeepsLine ==
  ASSUME LogInv, NEW line \in Seq(Nat), NEW flush \in BOOLEAN, Keep(line, flush)
  PROVE  /\ appender' \in AppenderSet /\ appender'.kind = appender.kind /\ (flush => appender'.buffer = << >>)
         /\ files' \in Seq(Seq(Seq(Nat))) /\ files' # << >>
         /\ written' \in Seq(Seq(Nat)) /\ rolled' \in Seq(Seq(Nat)) /\ LinesRight'
         /\ put' = Append(put, line) \/ put' = Append(Append(put, RotateLine), line)
  <1> DEFINE told == Rotates /\ Announced
  <1> DEFINE kept == appender.buffer
  <1> DEFINE first == IF told THEN Append(kept, RotateLine) ELSE << >>
  <1> DEFINE buffer == Append(IF told THEN << >> ELSE kept, line)
  <1> DEFINE full == BufferFull(buffer, flush)
  <1> DEFINE second == IF full THEN buffer ELSE << >>
  <1> DEFINE closed == IF Rotates THEN Renamed([files EXCEPT ![1] = @ \o first], appender.backups) ELSE files
  <1>1. /\ appender' = [appender EXCEPT !.buffer = IF full THEN << >> ELSE buffer,
                                        !.size = (IF Rotates THEN 0 ELSE @) + 1]
        /\ rolled' = IF appender.kind = "rolling" THEN rolled \o first \o second ELSE rolled
        /\ files' = IF appender.kind = "rolling" THEN [closed EXCEPT ![1] = @ \o second] ELSE files
        /\ written' = written \o first \o second
        /\ put' = put \o (IF told THEN <<RotateLine>> ELSE << >>) \o <<line>>
    BY DEF Keep
  <1>2. flush => full
    BY DEF BufferFull
  <1>3. /\ LogTyped /\ LinesRight /\ put \in Seq(Seq(Nat)) /\ kept \in Seq(Seq(Nat)) /\ RotateLine \in Seq(Nat)
        /\ put = written \o kept /\ written \in Seq(Seq(Nat))
    <2>1. LogTyped /\ LinesRight /\ put \in Seq(Seq(Nat))
      BY LogFacts DEF LogTyped
    <2>2. kept \in Seq(Seq(Nat))
      BY AppenderKnown
    <2>3. RotateLine \in Seq(Nat)
      BY DEF RotateLine
    <2>4. put = written \o kept
      BY <2>1 DEF LinesRight
    <2>5. written \in Seq(Seq(Nat))
      BY <2>1 DEF LogTyped
    <2> QED
      BY <2>1, <2>2, <2>3, <2>4, <2>5
  <1> HIDE DEF kept, full, told
  <1>4. /\ first \in Seq(Seq(Nat)) /\ buffer \in Seq(Seq(Nat)) /\ second \in Seq(Seq(Nat))
        /\ first \o second \in Seq(Seq(Nat))
    BY <1>3
  <1>5. appender' \in AppenderSet /\ appender'.kind = appender.kind /\ appender'.buffer = (IF full THEN << >> ELSE buffer)
    <2> DEFINE b == IF full THEN << >> ELSE buffer
    <2> DEFINE z == (IF Rotates THEN 0 ELSE appender.size) + 1
    <2>1. b \in Seq(Seq(Nat)) /\ z \in Nat
      BY <1>4, AppenderKnown
    <2>2. appender' = [appender EXCEPT !.buffer = b, !.size = z]
      BY <1>1
    <2> HIDE DEF b, z
    <2>3. appender' \in AppenderSet /\ appender'.kind = appender.kind /\ appender'.buffer = b
      BY <2>1, <2>2, AppenderKnown DEF AppenderSet
    <2> QED
      BY <2>3 DEF b
  <1> HIDE DEF first, buffer, second
  <1>6. files' \in Seq(Seq(Seq(Nat))) /\ files' # << >>
    <2>1. files \in Seq(Seq(Seq(Nat))) /\ files # << >>
      BY <1>3 DEF LogTyped
    <2>2. closed \in Seq(Seq(Seq(Nat))) /\ closed # << >>
      <3>1. [files EXCEPT ![1] = @ \o first] \in Seq(Seq(Seq(Nat)))
        BY <1>4, <2>1, ToCurrent
      <3>2. /\ Renamed([files EXCEPT ![1] = @ \o first], appender.backups) \in Seq(Seq(Seq(Nat)))
            /\ Renamed([files EXCEPT ![1] = @ \o first], appender.backups) # << >>
        BY <3>1, FilesRenamed, AppenderKnown, ZenonT(30)
      <3> QED
        BY <2>1, <3>2
    <2> HIDE DEF closed
    <2>3. [closed EXCEPT ![1] = @ \o second] \in Seq(Seq(Seq(Nat))) /\ [closed EXCEPT ![1] = @ \o second] # << >>
      BY <1>4, <2>2, ToCurrent
    <2> QED
      BY <1>1, <2>1, <2>3
  <1>7. written' \in Seq(Seq(Nat)) /\ rolled' \in Seq(Seq(Nat)) /\ written' = written \o (first \o second)
    <2>1. rolled \in Seq(Seq(Nat))
      BY <1>3 DEF LogTyped
    <2>2. written \o first \in Seq(Seq(Nat)) /\ rolled \o first \in Seq(Seq(Nat))
      BY <1>3, <1>4, <2>1
    <2>3. (written \o first) \o second \in Seq(Seq(Nat)) /\ (rolled \o first) \o second \in Seq(Seq(Nat))
      BY <1>4, <2>2
    <2>4. (written \o first) \o second = written \o (first \o second)
      <3>1. written \in Seq(Seq(Nat)) /\ first \in Seq(Seq(Nat)) /\ second \in Seq(Seq(Nat))
        BY <1>3, <1>4
      <3> QED
        BY <3>1, LinesAssociative
    <2> QED
      BY <1>1, <2>1, <2>3, <2>4
  <1>8. put' = Append(put, line) \/ put' = Append(Append(put, RotateLine), line)
    <2>1. put \in Seq(Seq(Nat)) /\ line \in Seq(Nat) /\ RotateLine \in Seq(Nat)
      BY <1>3
    <2>2. CASE told
      <3>1. put' = (put \o <<RotateLine>>) \o <<line>>
        BY <1>1, <2>2
      <3>2. put \o <<RotateLine>> = Append(put, RotateLine) /\ Append(put, RotateLine) \in Seq(Seq(Nat))
        BY <2>1, AppendIsConcat, AppendProperties
      <3> QED
        BY <2>1, <3>1, <3>2, AppendIsConcat
    <2>3. CASE ~told
      <3>1. put' = (put \o << >>) \o <<line>>
        BY <1>1, <2>3
      <3> QED
        BY <2>1, <3>1, AppendIsConcat, ConcatEmptySeq
    <2> QED
      BY <2>2, <2>3
  <1>9. put' = (written \o first) \o buffer
    <2>1. CASE told
      <3>1. first = kept \o <<RotateLine>> /\ buffer = <<line>>
        BY <1>3, <2>1, AppendIsConcat DEF first, buffer
      <3>2. put' = ((written \o kept) \o <<RotateLine>>) \o <<line>>
        BY <1>1, <1>3, <2>1
      <3>3. (written \o kept) \o <<RotateLine>> = written \o (kept \o <<RotateLine>>)
        <4>1. <<RotateLine>> \in Seq(Seq(Nat)) /\ kept \in Seq(Seq(Nat)) /\ written \in Seq(Seq(Nat))
          BY <1>3
        <4> QED
          BY <4>1, LinesAssociative, Zenon
      <3> QED
        BY <3>1, <3>2, <3>3
    <2>2. CASE ~told
      <3>1. first = << >> /\ buffer = kept \o <<line>>
        BY <1>3, <2>2, AppendIsConcat DEF first, buffer
      <3>2. put' = ((written \o kept) \o << >>) \o <<line>>
        BY <1>1, <1>3, <2>2
      <3>3. written \o kept \in Seq(Seq(Nat)) /\ <<line>> \in Seq(Seq(Nat))
        BY <1>3
      <3>4. (written \o kept) \o << >> = written \o kept /\ written \o << >> = written
        BY <1>3, <3>3, ConcatEmptySeq
      <3>5. (written \o kept) \o <<line>> = written \o (kept \o <<line>>)
        BY <1>3, <3>3, LinesAssociative
      <3> QED
        BY <3>1, <3>2, <3>4, <3>5
    <2> QED
      BY <2>1, <2>2
  <1>10. LinesRight'
    <2>1. put' = (written \o (first \o second)) \o appender'.buffer
      <3>1. CASE full
        <4>1. second = buffer /\ appender'.buffer = << >>
          BY <1>5, <3>1 DEF second
        <4>2. (written \o first) \o buffer = written \o (first \o buffer) /\ written \o (first \o buffer) \in Seq(Seq(Nat))
          <5>1. first \o buffer \in Seq(Seq(Nat))
            BY <1>4
          <5>2. written \o (first \o buffer) \in Seq(Seq(Nat))
            BY <1>3, <5>1
          <5>3. (written \o first) \o buffer = written \o (first \o buffer)
            <6>1. written \in Seq(Seq(Nat)) /\ first \in Seq(Seq(Nat)) /\ buffer \in Seq(Seq(Nat))
              BY <1>3, <1>4
            <6> QED
              BY <6>1, LinesAssociative
          <5> QED
            BY <5>2, <5>3
        <4>3. (written \o (first \o buffer)) \o << >> = written \o (first \o buffer)
          BY <4>2, ConcatEmptySeq
        <4> QED
          BY <1>9, <4>1, <4>2, <4>3
      <3>2. CASE ~full
        <4>1. second = << >> /\ appender'.buffer = buffer
          BY <1>5, <3>2 DEF second
        <4>2. first \o << >> = first
          BY <1>4, ConcatEmptySeq
        <4> QED
          BY <1>9, <4>1, <4>2
      <3> QED
        BY <3>1, <3>2
    <2> QED
      BY <1>7, <2>1 DEF LinesRight
  <1> QED
    BY <1>2, <1>5, <1>6, <1>7, <1>8, <1>10

\* The line of a thread that waits.
LEMMA LineOfWaiting ==
  ASSUME LogInv, NEW t \in LogThreads, thread[t].at = "waiting"
  PROVE  LineOf(t) \in Seq(Nat) /\ Ends(LineOf(t), thread[t].message) /\ t \in Active /\ thread[t].message \in 1 .. messages
  <1>1. TextsRight /\ MessagesRight /\ text \in [Impls -> Seq(Nat)] /\ thread[t].message \in Nat
    BY LogFacts DEF LogTyped
  <1>2. t \in Active
    BY DEF Active
  <1>3. thread[t].message \in 1 .. messages
    BY <1>1, <1>2 DEF MessagesRight
  <1>4. CASE thread[t].impl = None
    <2>1. LineOf(t) = <<thread[t].message>>
      BY <1>4 DEF LineOf
    <2>2. <<thread[t].message>> \in Seq(Nat) /\ Ends(<<thread[t].message>>, thread[t].message)
      BY <1>1 DEF Ends
    <2> QED
      BY <1>2, <1>3, <2>1, <2>2
  <1>5. CASE thread[t].impl # None
    <2>1. LineOf(t) = text[thread[t].impl] /\ thread[t].impl \in Impls
      BY <1>5, LogFacts DEF LineOf
    <2>2. Ends(text[thread[t].impl], thread[t].message)
      BY <1>1, <1>2, <1>5 DEF TextsRight
    <2> QED
      BY <1>1, <1>2, <1>3, <2>1, <2>2
  <1> QED
    BY <1>4, <1>5

\* A line that is put behind the others, with or without the one about the rotation.
LEMMA LinePut ==
  ASSUME LogInv, NEW t \in LogThreads, thread[t].at = "waiting", Goes(t, "done"), UNCHANGED <<messages, silenced>>,
         \/ put' = put
         \/ put' = Append(put, LineOf(t))
         \/ put' = Append(Append(put, RotateLine), LineOf(t))
  PROVE  put' \in Seq(Seq(Nat)) /\ MessagesRight'
  <1> DEFINE line == LineOf(t)
  <1>1. MessagesRight /\ put \in Seq(Seq(Nat)) /\ RotateLine \in Seq(Nat)
    BY LogFacts DEF LogTyped, RotateLine
  <1>2. line \in Seq(Nat) /\ Ends(line, thread[t].message) /\ t \in Active /\ thread[t].message \in 1 .. messages
    BY LineOfWaiting
  <1>3. \/ put' = put
        \/ put' = Append(put, line)
        \/ put' = Append(Append(put, RotateLine), line)
    OBVIOUS
  <1> HIDE DEF line
  <1>4. /\ \A u \in LogThreads : thread'[u].message = thread[u].message /\ (u # t => thread'[u] = thread[u])
        /\ thread'[t].at = "done"
    BY GoneOn DEF Places
  <1>5. /\ Active' = Active \ {t} /\ \A u \in Active : u \in LogThreads
        /\ \A u \in Active' : u \in Active /\ u # t /\ thread'[u].message = thread[u].message
    BY <1>4 DEF Active
  <1>6. /\ put' \in Seq(Seq(Nat)) /\ Len(put) <= Len(put')
        /\ \A i \in 1 .. Len(put) : put'[i] = put[i]
        /\ \A i \in 1 .. Len(put') : \/ i \in 1 .. Len(put)
                                     \/ put'[i] = RotateLine
                                     \/ put'[i] = line /\ i = Len(put')
        /\ \A i \in 1 .. Len(put') : put'[i] # RotateLine /\ i # Len(put') => i \in 1 .. Len(put)
    <2>1. Len(put) \in Nat
      BY <1>1
    <2>2. CASE put' = put
      BY <1>1, <2>1, <2>2
    <2>3. CASE put' = Append(put, line)
      <3>1. /\ put' \in Seq(Seq(Nat)) /\ Len(put') = Len(put) + 1 /\ put'[Len(put) + 1] = line
            /\ \A i \in 1 .. Len(put) : put'[i] = put[i]
        BY <1>1, <1>2, <2>3, AppendProperties
      <3>2. \A i \in 1 .. Len(put') : i \in 1 .. Len(put) \/ i = Len(put')
        BY <2>1, <3>1
      <3> QED
        BY <2>1, <3>1, <3>2
    <2>4. CASE put' = Append(Append(put, RotateLine), line)
      <3> DEFINE q == Append(put, RotateLine)
      <3>1. /\ q \in Seq(Seq(Nat)) /\ Len(q) = Len(put) + 1 /\ q[Len(put) + 1] = RotateLine
            /\ \A i \in 1 .. Len(put) : q[i] = put[i]
        BY <1>1, AppendProperties
      <3>2. put' = Append(q, line)
        BY <2>4
      <3> HIDE DEF q
      <3>3. /\ put' \in Seq(Seq(Nat)) /\ Len(put') = Len(q) + 1 /\ put'[Len(q) + 1] = line
            /\ \A i \in 1 .. Len(q) : put'[i] = q[i]
        BY <1>2, <3>1, <3>2, AppendProperties
      <3>4. \A i \in 1 .. Len(put') : i \in 1 .. Len(put) \/ i = Len(put) + 1 \/ i = Len(put')
        <4>1. Len(put') = Len(put) + 2
          BY <2>1, <3>1, <3>3
        <4> QED
          BY <2>1, <4>1
      <3>5. Len(put) + 1 \in 1 .. Len(q) /\ \A i \in 1 .. Len(put) : i \in 1 .. Len(q)
        BY <2>1, <3>1
      <3>6. put'[Len(put) + 1] = RotateLine /\ \A i \in 1 .. Len(put) : put'[i] = put[i]
        BY <3>1, <3>3, <3>5
      <3>7. Len(put) <= Len(put')
        BY <2>1, <3>1, <3>3
      <3>8. put'[Len(put')] = line
        BY <3>3
      <3> QED
        BY <3>3, <3>4, <3>6, <3>7, <3>8
    <2> QED
      BY <1>3, <2>2, <2>3, <2>4
  <1>7. \A l : Ends(l, thread[t].message) => l[Len(l)] = thread[t].message
    BY DEF Ends
  <1>8. /\ \A u \in Active : /\ thread[u].message \in 1 .. messages
                             /\ \A v \in Active : thread[v].message = thread[u].message => v = u
                             /\ \A i \in 1 .. Len(put) : put[i] # RotateLine => put[i][Len(put[i])] # thread[u].message
        /\ \A i \in 1 .. Len(put) : put[i] # RotateLine =>
             /\ \E m \in 1 .. messages : Ends(put[i], m)
             /\ \A j \in 1 .. i - 1 : put[j] # RotateLine => put[i][Len(put[i])] # put[j][Len(put[j])]
    BY <1>1, Zenon DEF MessagesRight
  <1>9. \A u \in Active' : /\ thread'[u].message \in 1 .. messages
                           /\ \A v \in Active' : thread'[v].message = thread'[u].message => v = u
                           /\ \A i \in 1 .. Len(put') : put'[i] # RotateLine => put'[i][Len(put'[i])] # thread'[u].message
    <2> SUFFICES ASSUME NEW u \in Active'
                 PROVE  /\ thread'[u].message \in 1 .. messages
                        /\ \A v \in Active' : thread'[v].message = thread'[u].message => v = u
                        /\ \A i \in 1 .. Len(put') : put'[i] # RotateLine => put'[i][Len(put'[i])] # thread'[u].message
      OBVIOUS
    <2>1. u \in Active /\ u # t /\ thread'[u].message = thread[u].message /\ thread[u].message # thread[t].message
      BY <1>2, <1>5, <1>8
    <2>2. thread[u].message \in 1 .. messages /\ \A v \in Active' : thread'[v].message = thread'[u].message => v = u
      BY <1>5, <1>8, <2>1
    <2>3. line[Len(line)] # thread[u].message
      BY <1>2, <1>7, <2>1
    <2>4. ASSUME NEW i \in 1 .. Len(put'), put'[i] # RotateLine
          PROVE  put'[i][Len(put'[i])] # thread[u].message
      <3>1. CASE i \in 1 .. Len(put)
        BY <1>6, <1>8, <2>1, <2>4, <3>1, ZenonT(30)
      <3>2. CASE put'[i] = line
        BY <2>3, <3>2
      <3> QED
        BY <1>6, <2>4, <3>1, <3>2
    <2> QED
      BY <2>1, <2>2, <2>4
  <1>10. \A i \in 1 .. Len(put') : put'[i] # RotateLine =>
           /\ \E m \in 1 .. messages : Ends(put'[i], m)
           /\ \A j \in 1 .. i - 1 : put'[j] # RotateLine => put'[i][Len(put'[i])] # put'[j][Len(put'[j])]
    <2> SUFFICES ASSUME NEW i \in 1 .. Len(put'), put'[i] # RotateLine
                 PROVE  /\ \E m \in 1 .. messages : Ends(put'[i], m)
                        /\ \A j \in 1 .. i - 1 : put'[j] # RotateLine => put'[i][Len(put'[i])] # put'[j][Len(put'[j])]
      OBVIOUS
    <2>1. CASE i \in 1 .. Len(put)
      <3>1. put'[i] = put[i] /\ \A j \in 1 .. i - 1 : j \in 1 .. Len(put) /\ put'[j] = put[j]
        <4>1. Len(put) \in Nat
          BY <1>1
        <4>2. \A j \in 1 .. i - 1 : j \in 1 .. Len(put)
          BY <2>1, <4>1
        <4> QED
          BY <1>6, <2>1, <4>2
      <3>2. put[i] # RotateLine
        BY <2>1, <3>1
      <3>3. PICK m \in 1 .. messages : Ends(put[i], m)
        BY <1>8, <2>1, <3>2
      <3>4. Ends(put'[i], m)
        BY <3>1, <3>3
      <3>5. \A j \in 1 .. i - 1 : put[j] # RotateLine => put[i][Len(put[i])] # put[j][Len(put[j])]
        BY <1>8, <2>1, <3>2, Zenon
      <3>6. \A j \in 1 .. i - 1 : put'[j] # RotateLine => put'[i][Len(put'[i])] # put'[j][Len(put'[j])]
        BY <3>1, <3>5
      <3> QED
        BY <3>3, <3>4, <3>6
    <2>2. CASE put'[i] = line /\ i = Len(put')
      <3>1. Ends(put'[i], thread[t].message) /\ put'[i][Len(put'[i])] = thread[t].message
        BY <1>2, <1>7, <2>2
      <3>2. ASSUME NEW j \in 1 .. i - 1, put'[j] # RotateLine
            PROVE  put'[j][Len(put'[j])] # thread[t].message
        <4>1. j \in 1 .. Len(put') /\ j # Len(put')
          BY <1>6, <2>2
        <4>2. j \in 1 .. Len(put) /\ put'[j] = put[j]
          BY <1>6, <3>2, <4>1
        <4> QED
          BY <1>2, <1>8, <3>2, <4>2
      <3> QED
        BY <1>2, <3>1, <3>2
    <2> QED
      BY <1>6, <2>1, <2>2
  <1> QED
    BY <1>6, <1>9, <1>10 DEF MessagesRight, Ends, RotateLine

\* A line that is sent at once, or not at all.
LEMMA SendsLine ==
  ASSUME LogInv, NEW line \in Seq(Nat), SendLine(line), appender.kind = "udp"
  PROVE  /\ UNCHANGED <<appender, files, rolled>> /\ appender.buffer = << >>
         /\ written' \in Seq(Seq(Nat)) /\ rolled' \in Seq(Seq(Nat)) /\ LinesRight'
         /\ put' = put \/ put' = Append(put, line)
  <1>1. /\ BufferRight /\ LinesRight /\ written \in Seq(Seq(Nat)) /\ rolled \in Seq(Seq(Nat))
    BY LogFacts DEF LogTyped
  <1>2. appender.buffer = << >>
    BY <1>1 DEF BufferRight
  <1>3. UNCHANGED <<appender, files, rolled>> /\ (put' = put \/ put' = Append(put, line))
    BY DEF SendLine, AppenderVars
  <1>4. put = written
    BY <1>1, <1>2, ConcatEmptySeq DEF LinesRight
  <1>5. put' = written' /\ written' \in Seq(Seq(Nat))
    <2>1. CASE put' = Append(put, line) /\ written' = Append(written, line)
      BY <1>1, <1>4, <2>1, AppendProperties
    <2>2. CASE UNCHANGED <<put, written>>
      BY <1>1, <1>4, <2>2
    <2> QED
      BY <2>1, <2>2 DEF SendLine, AppenderVars
  <1>6. written' \o << >> = written'
    BY <1>5, ConcatEmptySeq
  <1>7. LinesRight'
    BY <1>2, <1>3, <1>5, <1>6 DEF LinesRight
  <1> QED
    BY <1>1, <1>2, <1>3, <1>5, <1>7

\* What the appender does with the line of the thread.
LEMMA AppenderGetsLine ==
  ASSUME LogInv, NEW t \in LogThreads, PutLine(t)
  PROVE  /\ appender' \in AppenderSet /\ appender'.kind = appender.kind
         /\ appender'.buffer # << >> => waiting' # 0 /\ appender'.kind # "udp"
         /\ files' \in Seq(Seq(Seq(Nat))) /\ files' # << >>
         /\ written' \in Seq(Seq(Nat)) /\ rolled' \in Seq(Seq(Nat)) /\ LinesRight'
         /\ \/ put' = put
            \/ put' = Append(put, LineOf(t))
            \/ put' = Append(Append(put, RotateLine), LineOf(t))
  <1>1. /\ LineOf(t) \in Seq(Nat) /\ appender \in AppenderSet
        /\ files \in Seq(Seq(Seq(Nat))) /\ files # << >>
    BY LineOfWaiting, LogFacts DEF PutLine, At, LogTyped
  <1>2. CASE appender.kind = "udp"
    <2>1. SendLine(LineOf(t))
      BY <1>2 DEF PutLine
    <2>2. /\ UNCHANGED <<appender, files, rolled>> /\ appender.buffer = << >>
          /\ written' \in Seq(Seq(Nat)) /\ rolled' \in Seq(Seq(Nat)) /\ LinesRight'
          /\ put' = put \/ put' = Append(put, LineOf(t))
      BY <1>1, <1>2, <2>1, SendsLine
    <2> QED
      BY <1>1, <2>2
  <1>3. CASE appender.kind # "udp"
    <2> DEFINE last == waiting' = 0
    <2>1. last \in BOOLEAN /\ Keep(LineOf(t), last)
      BY <1>3 DEF PutLine
    <2> HIDE DEF last
    <2>2. /\ appender' \in AppenderSet /\ appender'.kind = appender.kind /\ (last => appender'.buffer = << >>)
          /\ files' \in Seq(Seq(Seq(Nat))) /\ files' # << >>
          /\ written' \in Seq(Seq(Nat)) /\ rolled' \in Seq(Seq(Nat)) /\ LinesRight'
          /\ put' = Append(put, LineOf(t)) \/ put' = Append(Append(put, RotateLine), LineOf(t))
      BY <1>1, <2>1, KeepsLine
    <2> QED
      BY <1>3, <2>2 DEF last
  <1> QED
    BY <1>2, <1>3

LEMMA PutLineStays ==
  ASSUME LogInv, NEW t \in LogThreads, PutLine(t)
  PROVE  LogInv'
  <1>1. /\ LogTyped /\ BufferRight /\ TextsRight /\ ImplsRight
        /\ thread[t].at = "waiting" /\ Goes(t, "done") /\ waiting' = waiting - 1
        /\ loggers' = OwnLoggers /\ text' = Cleared(thread[t].impl)
    BY LogFacts DEF PutLine, At
  <1>2. UNCHANGED <<enabled, inForce, spare, mutex, draft, messages, configured, silenced, old, raced>>
    BY DEF PutLine
  <1>3. /\ thread' \in [LogThreads -> ThreadSet] /\ \A u \in LogThreads : u # t => thread'[u] = thread[u]
        /\ thread'[t].at = "done" /\ thread'[t].impl = thread[t].impl
    BY <1>1, GoneOn DEF Places
  <1>4. /\ appender' \in AppenderSet /\ appender'.kind = appender.kind
        /\ appender'.buffer # << >> => waiting' # 0 /\ appender'.kind # "udp"
        /\ files' \in Seq(Seq(Seq(Nat))) /\ files' # << >>
        /\ written' \in Seq(Seq(Nat)) /\ rolled' \in Seq(Seq(Nat)) /\ LinesRight'
    BY AppenderGetsLine
  <1>5. put' \in Seq(Seq(Nat)) /\ MessagesRight'
    BY <1>1, <1>2, AppenderGetsLine, LinePut
  <1>6. loggers' = loggers \/ loggers' = WithFlags(loggers, Own, logFlags(inForce, Own))
    BY <1>1 DEF OwnLoggers
  <1>7. /\ text \in [Impls -> Seq(Nat)] /\ text' \in [Impls -> Seq(Nat)]
        /\ \A k \in Impls : IF k = thread[t].impl THEN text'[k] = << >> ELSE text'[k] = text[k]
    <2>1. text \in [Impls -> Seq(Nat)] /\ None \notin Impls /\ << >> \in Seq(Nat)
      BY <1>1, LogFacts DEF LogTyped
    <2>2. CASE thread[t].impl = None
      BY <1>1, <2>1, <2>2 DEF Cleared
    <2>3. CASE thread[t].impl # None
      <3>1. text' = [text EXCEPT ![thread[t].impl] = << >>]
        BY <1>1, <2>3 DEF Cleared
      <3>2. text' \in [Impls -> Seq(Nat)]
        BY <2>1, <3>1
      <3> QED
        BY <2>1, <3>1, <3>2
    <2> QED
      BY <2>2, <2>3
  <1>8. LogTyped'
    <2>1. DOMAIN loggers' \subseteq Asked
      BY <1>1, <1>6, LogAssumption DEF WithFlags, LogTyped
    <2> QED
      BY <1>1, <1>2, <1>3, <1>4, <1>5, <1>7, <2>1 DEF LogTyped
  <1>9. (MutexRight /\ LevelsRight)'
    BY <1>1, <1>2, <1>3, <1>4, <1>6, MessageStays
  <1>10. ImplsRight'
    BY <1>1, <1>2, ImplsStay
  <1>11. /\ Waiting' = Waiting \ {t} /\ t \in Waiting
         /\ Active' = Active \ {t} /\ t \in Active /\ \A u \in Active' : u \in LogThreads /\ u # t /\ thread'[u] = thread[u]
    BY <1>1, <1>3 DEF Waiting, Active
  <1>12. BufferRight'
    <2>1. Cardinality(Waiting') = Cardinality(Waiting) - 1
      BY <1>11, WaitingIsFinite, FS_RemoveElement
    <2>2. waiting' = Cardinality(Waiting')
      BY <1>1, <2>1 DEF BufferRight
    <2>3. waiting' # 0 => Waiting' # {}
      BY <2>2, FS_EmptySet
    <2> QED
      BY <1>4, <2>2, <2>3 DEF BufferRight
  <1>13. TextsRight'
    <2>1. \A u \in Active' : thread'[u].impl # None => Ends(text'[thread'[u].impl], thread'[u].message)
      <3> SUFFICES ASSUME NEW u \in Active', thread[u].impl # None
                   PROVE  Ends(text'[thread[u].impl], thread[u].message)
        BY <1>11
      <3>1. u \in Active /\ u \in LogThreads /\ u # t
        BY <1>11
      <3>2. thread[u].impl \in Impls /\ thread[u].impl # thread[t].impl
        BY <1>1, <3>1, LogFacts DEF ImplsRight
      <3>3. text'[thread[u].impl] = text[thread[u].impl]
        BY <1>7, <3>2
      <3> QED
        BY <1>1, <3>1, <3>3 DEF TextsRight
    <2>2. \A k \in Impls : (\A u \in Active' : thread'[u].impl # k) => \A j \in 1 .. Len(text'[k]) : text'[k][j] \in silenced
      <3> SUFFICES ASSUME NEW k \in Impls, \A u \in Active' : thread'[u].impl # k, NEW j \in 1 .. Len(text'[k])
                   PROVE  text'[k][j] \in silenced
        OBVIOUS
      <3>1. CASE k = thread[t].impl
        <4>1. text'[k] = << >>
          BY <1>7, <3>1
        <4> QED
          BY <4>1
      <3>2. CASE k # thread[t].impl
        <4>1. \A u \in Active : thread[u].impl # k
          BY <1>11, <3>2
        <4>2. text'[k] = text[k]
          BY <1>7, <3>2
        <4> QED
          BY <1>1, <4>1, <4>2 DEF TextsRight
      <3> QED
        BY <3>1, <3>2
    <2> QED
      BY <1>2, <2>1, <2>2 DEF TextsRight, Ends
  <1> QED
    BY <1>4, <1>5, <1>8, <1>9, <1>10, <1>12, <1>13 DEF LogInv

-----------------------------------------------------------------------------
(* Files that are rotated.                                                 *)

\* The appender for files that are rotated has its limits from a configuration, and counts the
\* lines in the current file, but for some that were kept back at a rotation.
LimitRight ==
  appender.kind = "rolling" =>
    /\ appender.max > 0 /\ \E c \in Configs : c.maxfilesize = appender.max
    /\ Len(appender.buffer) < Buffered
    /\ Len(files[1]) + Len(appender.buffer) < appender.size + Buffered
    /\ appender.size <= appender.max \/ (appender.buffer = << >> /\ appender.size = Len(files[1]))

\* A configuration allows as many lines.
Allowed(n) == n > 0 => \E c \in Configs : n <= c.maxfilesize + Buffered

\* Files are not longer than some configuration allows, the current one with room for a line.
SizesRight ==
  /\ Len(files[1]) > 0 => \E c \in Configs : Len(files[1]) < c.maxfilesize + Buffered
  /\ \A i \in DOMAIN files : Allowed(Len(files[i]))

\* What joins the files of the rolling appender to the lines that were written to them.
FilesInv == AreTheEnd(files, rolled) /\ LimitRight /\ SizesRight

\* A place in a part is one in the whole.
LEMMA Within ==
  ASSUME NEW a \in Nat, NEW n \in Nat, NEW l \in Nat, a + n <= l, NEW j \in 1 .. n
  PROVE  a + j \in 1 .. l
  OBVIOUS

\* Lines that are written to the current file.
LEMMA EndWritten ==
  ASSUME NEW S, NEW fs \in Seq(Seq(S)), fs # << >>, NEW lines \in Seq(S), NEW more \in Seq(S), AreTheEnd(fs, lines)
  PROVE  AreTheEnd([fs EXCEPT ![1] = @ \o more], lines \o more)
  <1> DEFINE gs == [fs EXCEPT ![1] = @ \o more]
  <1> DEFINE all == lines \o more
  <1>1. PICK from \in [DOMAIN fs -> 0 .. Len(lines)] : \A i \in DOMAIN fs :
          /\ from[i] + Len(fs[i]) = IF i = 1 THEN Len(lines) ELSE from[i - 1]
          /\ \A j \in DOMAIN fs[i] : fs[i][j] = lines[from[i] + j]
    BY DEF AreTheEnd
  <1>2. /\ 1 \in DOMAIN fs /\ Len(lines) \in Nat /\ Len(more) \in Nat
        /\ \A i \in DOMAIN fs : fs[i] \in Seq(S) /\ Len(fs[i]) \in Nat /\ DOMAIN fs[i] = 1 .. Len(fs[i]) /\ from[i] \in 0 .. Len(lines)
    OBVIOUS
  <1>3. /\ DOMAIN gs = DOMAIN fs /\ gs[1] = fs[1] \o more
        /\ \A i \in DOMAIN fs : i # 1 => gs[i] = fs[i]
    BY <1>2
  <1>4. /\ all \in Seq(S) /\ Len(all) = Len(lines) + Len(more)
        /\ \A i \in 1 .. Len(lines) : all[i] = lines[i]
        /\ \A i \in 1 .. Len(more) : all[Len(lines) + i] = more[i]
    OBVIOUS
  <1>5. /\ gs[1] \in Seq(S) /\ Len(gs[1]) = Len(fs[1]) + Len(more)
        /\ \A i \in 1 .. Len(fs[1]) : gs[1][i] = fs[1][i]
        /\ \A i \in 1 .. Len(more) : gs[1][Len(fs[1]) + i] = more[i]
    BY <1>2, <1>3
  <1> HIDE DEF gs, all
  <1>6. from \in [DOMAIN gs -> 0 .. Len(all)]
    BY <1>2, <1>3, <1>4
  <1>7. from[1] + Len(fs[1]) = Len(lines)
    BY <1>1, <1>2
  <1>12. from[1] \in Nat /\ Len(fs[1]) \in Nat /\ Len(lines) \in Nat /\ Len(more) \in Nat
    BY <1>2
  <1>13. DOMAIN gs[1] = 1 .. Len(fs[1]) + Len(more)
    BY <1>5
  <1>8. from[1] + Len(gs[1]) = Len(all)
    <2>1. Len(gs[1]) = Len(fs[1]) + Len(more) /\ Len(all) = Len(lines) + Len(more)
      BY <1>4, <1>5
    <2> QED
      BY <1>7, <1>12, <2>1
  <1>9. \A j \in DOMAIN gs[1] : gs[1][j] = all[from[1] + j]
    <2> SUFFICES ASSUME NEW j \in 1 .. Len(fs[1]) + Len(more)
                 PROVE  gs[1][j] = all[from[1] + j]
      BY <1>13
    <2>1. CASE j <= Len(fs[1])
      <3>1. j \in 1 .. Len(fs[1]) /\ from[1] + j \in 1 .. Len(lines)
        BY <1>7, <1>12, <2>1
      <3> QED
        <4>1. fs[1][j] = lines[from[1] + j]
          BY <1>1, <1>2, <3>1
        <4>2. gs[1][j] = fs[1][j] /\ all[from[1] + j] = lines[from[1] + j]
          BY <1>4, <1>5, <3>1
        <4> QED
          BY <4>1, <4>2
    <2>2. CASE j > Len(fs[1])
      <3> DEFINE k == j - Len(fs[1])
      <3>1. k \in 1 .. Len(more) /\ j = Len(fs[1]) + k /\ from[1] + j = Len(lines) + k
        <4> DEFINE a == from[1]
        <4> DEFINE n == Len(fs[1])
        <4> DEFINE m == Len(more)
        <4> DEFINE l == Len(lines)
        <4>1. a \in Nat /\ n \in Nat /\ m \in Nat /\ l \in Nat /\ a + n = l /\ j \in 1 .. n + m /\ j > n
          BY <1>7, <1>12, <2>2
        <4> HIDE DEF a, n, m, l
        <4>2. j - n \in 1 .. m /\ j = n + (j - n) /\ a + j = l + (j - n)
          BY <4>1
        <4> QED
          BY <4>2 DEF a, n, m, l
      <3> HIDE DEF k
      <3>2. gs[1][Len(fs[1]) + k] = more[k] /\ all[Len(lines) + k] = more[k]
        BY <1>4, <1>5, <3>1
      <3> QED
        BY <3>1, <3>2
    <2>3. j <= Len(fs[1]) \/ j > Len(fs[1])
      BY <1>2
    <2> QED
      BY <2>1, <2>2, <2>3
  <1>10. ASSUME NEW i \in DOMAIN gs, i # 1
         PROVE  /\ from[i] + Len(gs[i]) = from[i - 1]
                /\ \A j \in DOMAIN gs[i] : gs[i][j] = all[from[i] + j]
    <2>1. i \in DOMAIN fs /\ i - 1 \in DOMAIN fs /\ gs[i] = fs[i]
      BY <1>3, <1>10
    <2>2. from[i] + Len(fs[i]) = from[i - 1]
      BY <1>1, <1>10, <2>1
    <2>3. \A j \in DOMAIN fs[i] : from[i] + j \in 1 .. Len(lines) /\ fs[i][j] = lines[from[i] + j]
      <3>1. from[i] \in Nat /\ from[i - 1] \in 0 .. Len(lines) /\ Len(fs[i]) \in Nat /\ DOMAIN fs[i] = 1 .. Len(fs[i])
        BY <1>2, <2>1
      <3>2. \A j \in 1 .. Len(fs[i]) : from[i] + j \in 1 .. Len(lines)
        <4>1. from[i] + Len(fs[i]) <= Len(lines)
          BY <1>12, <2>2, <3>1
        <4> QED
          BY <1>12, <3>1, <4>1, Within
      <3> QED
        BY <1>1, <2>1, <3>1, <3>2
    <2> QED
      BY <1>4, <2>1, <2>2, <2>3
  <1>11. AreTheEnd(gs, all)
    <2>1. \A i \in DOMAIN gs : /\ from[i] + Len(gs[i]) = IF i = 1 THEN Len(all) ELSE from[i - 1]
                               /\ \A j \in DOMAIN gs[i] : gs[i][j] = all[from[i] + j]
      <3> TAKE i \in DOMAIN gs
      <3>1. CASE i = 1
        BY <1>8, <1>9, <3>1
      <3>2. CASE i # 1
        BY <1>10, <3>2
      <3> QED
        BY <3>1, <3>2
    <2> QED
      BY <1>6, <2>1 DEF AreTheEnd
  <1> QED
    BY <1>11 DEF gs, all

\* Lines when the files get other names.
LEMMA EndRenamed ==
  ASSUME NEW S, NEW fs \in Seq(Seq(S)), NEW lines \in Seq(S), NEW backups \in Nat, AreTheEnd(fs, lines)
  PROVE  AreTheEnd(Renamed(fs, backups), lines)
  <1> DEFINE gs == Renamed(fs, backups)
  <1>1. /\ gs \in Seq(Seq(S)) /\ gs # << >> /\ gs[1] = << >>
        /\ \A i \in DOMAIN gs : i # 1 => i - 1 \in DOMAIN fs /\ gs[i] = fs[i - 1]
    BY FilesRenamed
  <1> HIDE DEF gs
  <1>2. PICK from \in [DOMAIN fs -> 0 .. Len(lines)] : \A i \in DOMAIN fs :
          /\ from[i] + Len(fs[i]) = IF i = 1 THEN Len(lines) ELSE from[i - 1]
          /\ \A j \in DOMAIN fs[i] : fs[i][j] = lines[from[i] + j]
    BY DEF AreTheEnd
  <1> DEFINE next == [i \in DOMAIN gs |-> IF i = 1 THEN Len(lines) ELSE from[i - 1]]
  <1>3. Len(lines) \in Nat /\ DOMAIN gs = 1 .. Len(gs) /\ Len(gs) \in Nat
    BY <1>1
  <1>4. next \in [DOMAIN gs -> 0 .. Len(lines)] /\ \A i \in DOMAIN gs : next[i] = IF i = 1 THEN Len(lines) ELSE from[i - 1]
    BY <1>1, <1>3
  <1> HIDE DEF next
  <1>5. ASSUME NEW i \in DOMAIN gs
        PROVE  /\ next[i] + Len(gs[i]) = IF i = 1 THEN Len(lines) ELSE next[i - 1]
               /\ \A j \in DOMAIN gs[i] : gs[i][j] = lines[next[i] + j]
    <2>1. CASE i = 1
      <3>1. gs[i] = << >> /\ next[i] = Len(lines)
        BY <1>1, <1>4, <2>1
      <3>2. Len(<< >>) = 0 /\ Len(lines) + 0 = Len(lines) /\ DOMAIN << >> = {}
        BY <1>3
      <3> QED
        BY <2>1, <3>1, <3>2
    <2>2. CASE i # 1
      <3> DEFINE k == i - 1
      <3>1. k \in DOMAIN fs /\ gs[i] = fs[k] /\ next[i] = from[k]
        BY <1>1, <1>4, <2>2
      <3>2. k \in DOMAIN gs
        BY <1>3, <2>2
      <3> HIDE DEF k
      <3>3. next[k] = IF k = 1 THEN Len(lines) ELSE from[k - 1]
        BY <1>4, <3>2
      <3>4. /\ from[k] + Len(fs[k]) = IF k = 1 THEN Len(lines) ELSE from[k - 1]
            /\ \A j \in DOMAIN fs[k] : fs[k][j] = lines[from[k] + j]
        BY <1>2, <3>1
      <3> QED
        BY <2>2, <3>1, <3>3, <3>4 DEF k
    <2> QED
      BY <2>1, <2>2
  <1>6. AreTheEnd(gs, lines)
    BY <1>4, <1>5 DEF AreTheEnd
  <1> QED
    BY <1>6 DEF gs

\* Nothing is written and no appender is made.
LEMMA FilesStay ==
  ASSUME FilesInv, UNCHANGED <<appender, files, rolled>>
  PROVE  FilesInv'
  BY DEF FilesInv, AreTheEnd, LimitRight, SizesRight, Allowed

\* A new appender begins to count with what is in the file.
LEMMA NewAppenderFiles ==
  ASSUME LogInv, FilesInv, NEW t \in LogThreads, NewAppender(t)
  PROVE  FilesInv'
  <1>1. /\ UNCHANGED <<files, rolled>>
        /\ appender' = [kind |-> AppenderOf(draft), max |-> draft.maxfilesize, backups |-> draft.maxbackupindex,
                        buffer |-> << >>, size |-> Len(files[1])]
    BY DEF NewAppender
  <1>2. /\ appender'.kind = AppenderOf(draft) /\ appender'.max = draft.maxfilesize /\ appender'.buffer = << >>
        /\ appender'.size = Len(files[1]) /\ files' = files
    BY <1>1
  <1>3. AreTheEnd(files, rolled)' /\ SizesRight'
    BY <1>1 DEF FilesInv, AreTheEnd, SizesRight, Allowed
  <1>4. LimitRight'
    <2> SUFFICES ASSUME AppenderOf(draft) = "rolling"
                 PROVE  LimitRight'
      BY <1>2 DEF LimitRight
    <2>1. draft \in Configs /\ draft.maxfilesize \in Nat /\ draft.maxfilesize # 0
      <3>1. draft \in Configs \cup {NewConf} /\ draft.maxfilesize \in Nat
        BY AppenderIsKnown, LogFacts DEF LogTyped, Configurations
      <3>2. draft # NewConf /\ draft.maxfilesize # 0
        BY DEF AppenderOf, NewConf
      <3> QED
        BY <3>1, <3>2
    <2>2. Len(files[1]) \in Nat
      <3>1. files \in Seq(Seq(Seq(Nat))) /\ files # << >>
        BY LogFacts DEF LogTyped
      <3>2. 1 \in 1 .. Len(files)
        BY <3>1
      <3> QED
        BY <3>1, <3>2
    <2>3. Len(<< >>) < Buffered /\ Len(files[1]) + Len(<< >>) < Len(files[1]) + Buffered
      BY <2>2, LogAssumption
    <2> QED
      BY <1>2, <2>1, <2>3 DEF LimitRight
  <1> QED
    BY <1>3, <1>4 DEF FilesInv

\* A line for an appender that rotates its files.
LEMMA KeepsFiles ==
  ASSUME LogInv, FilesInv, NEW line \in Seq(Nat), NEW flush \in BOOLEAN, Keep(line, flush)
  PROVE  FilesInv'
  <1> DEFINE told == Rotates /\ Announced
  <1> DEFINE kept == appender.buffer
  <1> DEFINE first == IF told THEN Append(kept, RotateLine) ELSE << >>
  <1> DEFINE buffer == Append(IF told THEN << >> ELSE kept, line)
  <1> DEFINE full == BufferFull(buffer, flush)
  <1> DEFINE second == IF full THEN buffer ELSE << >>
  <1> DEFINE closed == IF Rotates THEN Renamed([files EXCEPT ![1] = @ \o first], appender.backups) ELSE files
  <1> DEFINE size == (IF Rotates THEN 0 ELSE appender.size) + 1
  <1>1. /\ appender' = [appender EXCEPT !.buffer = IF full THEN << >> ELSE buffer,
                                        !.size = (IF Rotates THEN 0 ELSE @) + 1]
        /\ files' = IF appender.kind = "rolling" THEN [closed EXCEPT ![1] = @ \o second] ELSE files
        /\ rolled' = IF appender.kind = "rolling" THEN rolled \o first \o second ELSE rolled
    BY DEF Keep
  <1>2. appender'.kind = appender.kind /\ appender'.max = appender.max
        /\ appender'.buffer = (IF full THEN << >> ELSE buffer) /\ appender'.size = size
    BY <1>1, AppenderKnown DEF AppenderSet
  <1>3. CASE appender.kind # "rolling"
    <2>1. UNCHANGED <<files, rolled>>
      BY <1>1, <1>3
    <2>2. AreTheEnd(files, rolled)' /\ SizesRight'
      BY <2>1 DEF FilesInv, AreTheEnd, SizesRight, Allowed
    <2>3. LimitRight'
      BY <1>2, <1>3 DEF LimitRight
    <2> QED
      BY <2>2, <2>3 DEF FilesInv
  <1>4. CASE appender.kind = "rolling"
    <2>1. /\ files \in Seq(Seq(Seq(Nat))) /\ files # << >> /\ rolled \in Seq(Seq(Nat))
          /\ kept \in Seq(Seq(Nat)) /\ RotateLine \in Seq(Nat) /\ appender.backups \in Nat
      BY LogFacts, AppenderKnown DEF LogTyped, RotateLine
    <2>2. AreTheEnd(files, rolled) /\ LimitRight /\ SizesRight
      BY DEF FilesInv
    <2>3. Rotates <=> appender.size >= appender.max
      BY <1>4 DEF Rotates
    <2>4. full <=> flush \/ Len(buffer) >= Buffered
      BY DEF BufferFull
    <2>5. told => Rotates
      OBVIOUS
    <2> HIDE DEF kept, told
    <2>6. /\ first \in Seq(Seq(Nat)) /\ Len(first) = (IF told THEN Len(kept) + 1 ELSE 0)
          /\ buffer \in Seq(Seq(Nat)) /\ Len(buffer) = (IF told THEN 0 ELSE Len(kept)) + 1
      BY <2>1
    <2> HIDE DEF first, buffer, full
    <2>7. second \in Seq(Seq(Nat)) /\ Len(second) = (IF full THEN Len(buffer) ELSE 0)
      <3>1. << >> \in Seq(Seq(Nat)) /\ Len(<< >>) = 0
        OBVIOUS
      <3>2. CASE full
        BY <2>6, <3>2
      <3>3. CASE ~full
        BY <3>1, <3>3
      <3> QED
        BY <3>2, <3>3
    <2> HIDE DEF second
    <2> DEFINE moved == [files EXCEPT ![1] = @ \o first]
    <2>8. moved \in Seq(Seq(Seq(Nat))) /\ moved # << >> /\ AreTheEnd(moved, rolled \o first) /\ rolled \o first \in Seq(Seq(Nat))
      <3>1. moved \in Seq(Seq(Seq(Nat))) /\ moved # << >>
        BY <2>1, <2>6, ToCurrent
      <3>2. AreTheEnd(moved, rolled \o first)
        BY <2>1, <2>2, <2>6, EndWritten
      <3>3. rolled \o first \in Seq(Seq(Nat))
        BY <2>1, <2>6
      <3> QED
        BY <3>1, <3>2, <3>3
    <2>9. DOMAIN moved = DOMAIN files /\ 1 \in DOMAIN files /\ moved[1] = files[1] \o first /\ files[1] \in Seq(Seq(Nat))
      BY <2>1
    <2>10. \A i \in DOMAIN files : i # 1 => moved[i] = files[i]
      BY <2>1
    <2> HIDE DEF moved
    <2>11. /\ closed \in Seq(Seq(Seq(Nat))) /\ closed # << >> /\ AreTheEnd(closed, rolled \o first)
           /\ closed[1] = IF Rotates THEN << >> ELSE files[1]
           /\ \A i \in DOMAIN closed : i # 1 =>
                IF Rotates THEN i - 1 \in DOMAIN moved /\ closed[i] = moved[i - 1] ELSE i \in DOMAIN files /\ closed[i] = files[i]
      <3>1. CASE Rotates
        <4>1. closed = Renamed(moved, appender.backups)
          BY <3>1 DEF moved
        <4> QED
          <5>1. moved \in Seq(Seq(Seq(Nat))) /\ rolled \o first \in Seq(Seq(Nat)) /\ appender.backups \in Nat
            BY <2>1, <2>8
          <5> DEFINE rs == Renamed(moved, appender.backups)
          <5>2. /\ rs \in Seq(Seq(Seq(Nat))) /\ rs # << >> /\ rs[1] = << >>
                /\ \A i \in DOMAIN rs : i # 1 => i - 1 \in DOMAIN moved /\ rs[i] = moved[i - 1]
            BY <5>1, FilesRenamed
          <5>3. AreTheEnd(rs, rolled \o first)
            BY <2>8, <5>1, EndRenamed
          <5>4. closed = rs
            BY <4>1
          <5> HIDE DEF rs, closed
          <5> QED
            BY <3>1, <5>2, <5>3, <5>4
      <3>2. CASE ~Rotates
        <4>1. closed = files /\ first = << >>
          BY <2>5, <3>2 DEF first
        <4>2. rolled \o << >> = rolled
          BY <2>1, ConcatEmptySeq
        <4> QED
          BY <2>1, <2>2, <3>2, <4>1, <4>2
      <3> QED
        BY <3>1, <3>2
    <2> HIDE DEF closed
    <2>12. files' = [closed EXCEPT ![1] = @ \o second] /\ rolled' = (rolled \o first) \o second
      BY <1>1, <1>4
    <2>13. AreTheEnd(files', rolled')
      <3>1. closed \in Seq(Seq(Seq(Nat))) /\ closed # << >> /\ AreTheEnd(closed, rolled \o first)
        BY <2>11
      <3>2. rolled \o first \in Seq(Seq(Nat)) /\ second \in Seq(Seq(Nat))
        BY <2>7, <2>8
      <3>3. AreTheEnd([closed EXCEPT ![1] = @ \o second], (rolled \o first) \o second)
        BY <3>1, <3>2, EndWritten
      <3> QED
        BY <2>12, <3>3, Zenon
    <2>14. /\ DOMAIN files' = DOMAIN closed /\ 1 \in DOMAIN closed /\ files'[1] = closed[1] \o second
           /\ closed[1] \in Seq(Seq(Nat)) /\ \A i \in DOMAIN closed : i # 1 => files'[i] = closed[i]
      <3>1. closed \in Seq(Seq(Seq(Nat))) /\ closed # << >>
        BY <2>11
      <3>2. 1 \in DOMAIN closed /\ closed[1] \in Seq(Seq(Nat))
        BY <3>1
      <3>3. files' = [closed EXCEPT ![1] = @ \o second]
        BY <2>12
      <3>4. DOMAIN files' = DOMAIN closed
        BY <3>3, Zenon
      <3>5. files'[1] = closed[1] \o second
        BY <3>2, <3>3, Zenon
      <3>6. \A i \in DOMAIN closed : i # 1 => files'[i] = closed[i]
        BY <3>3, Zenon
      <3> QED
        BY <3>2, <3>4, <3>5, <3>6, Zenon
    <2> DEFINE l == Len(files[1])
    <2> DEFINE b == Len(kept)
    <2> DEFINE s == appender.size
    <2> DEFINE m == appender.max
    <2>15. l \in Nat /\ b \in Nat /\ s \in Nat /\ m \in Nat /\ Buffered \in Nat /\ Buffered > 0 /\ m > 0
      BY <1>4, <2>1, <2>2, <2>9, AppenderKnown, LogAssumption, SMTT(30) DEF LimitRight
    <2>16. b < Buffered /\ l + b < s + Buffered /\ (s <= m \/ (b = 0 /\ s = l))
      BY <1>4, <2>2 DEF LimitRight, kept
    <2>17. Len(files'[1]) = (IF Rotates THEN 0 ELSE l) + Len(second)
      <3>1. files'[1] = closed[1] \o second /\ closed[1] \in Seq(Seq(Nat)) /\ second \in Seq(Seq(Nat))
        BY <2>7, <2>14
      <3>2. Len(files'[1]) = Len(closed[1]) + Len(second)
        BY <3>1, ConcatProperties
      <3>3. Len(closed[1]) = IF Rotates THEN 0 ELSE l
        BY <2>11
      <3> QED
        BY <3>2, <3>3
    <2>18. Len(moved[1]) = l + Len(first)
      BY <2>6, <2>9, ConcatProperties
    <2>19. Len(appender'.buffer) = (IF full THEN 0 ELSE Len(buffer)) /\ (full => appender'.buffer = << >>)
      BY <1>2
    <2>20. /\ Rotates <=> s >= m
           /\ size = (IF Rotates THEN 0 ELSE s) + 1
      BY <2>3
    <2> HIDE DEF l, b, s, m, size
    <2>21. /\ Len(appender'.buffer) < Buffered
           /\ Len(files'[1]) + Len(appender'.buffer) < size + Buffered
           /\ size <= m /\ Len(files'[1]) < m + Buffered
      <3> DEFINE n == Len(buffer)
      <3> DEFINE now == Len(files'[1])
      <3> DEFINE back == Len(appender'.buffer)
      <3>1. /\ n = (IF told THEN 0 ELSE b) + 1 /\ (told => s >= m)
            /\ now = (IF s >= m THEN 0 ELSE l) + (IF full THEN n ELSE 0)
            /\ back = (IF full THEN 0 ELSE n) /\ size = (IF s >= m THEN 0 ELSE s) + 1
        BY <2>5, <2>6, <2>7, <2>17, <2>19, <2>20 DEF b
      <3>2. ~full => n < Buffered
        BY <2>4, <2>6, <2>15
      <3> HIDE DEF n, now, back
      <3>3. CASE s >= m /\ told
        <4>1. n = 1 /\ size = 1 /\ now = (IF full THEN 1 ELSE 0) /\ back = (IF full THEN 0 ELSE 1)
          BY <3>1, <3>3
        <4>2. back < Buffered /\ now + back < size + Buffered /\ size <= m /\ now < m + Buffered
          BY <2>15, <3>2, <4>1
        <4> QED
          BY <4>2 DEF now, back
      <3>4. CASE s >= m /\ ~told
        <4>1. n = b + 1 /\ size = 1 /\ now = (IF full THEN b + 1 ELSE 0) /\ back = (IF full THEN 0 ELSE b + 1)
          BY <2>15, <3>1, <3>4
        <4>2. back < Buffered /\ now + back < size + Buffered /\ size <= m /\ now < m + Buffered
          BY <2>15, <2>16, <3>2, <4>1
        <4> QED
          BY <4>2 DEF now, back
      <3>5. CASE ~(s >= m)
        <4>1. n = b + 1 /\ size = s + 1 /\ now = (IF full THEN l + (b + 1) ELSE l) /\ back = (IF full THEN 0 ELSE b + 1)
          BY <2>15, <3>1, <3>5
        <4>2. back < Buffered /\ now + back < size + Buffered /\ size <= m /\ now < m + Buffered
          BY <2>15, <2>16, <3>2, <3>5, <4>1
        <4> QED
          BY <4>2 DEF now, back
      <3> QED
        BY <3>3, <3>4, <3>5
    <2>22. Len(first) > 0 => l + Len(first) <= m + Buffered \/ (l > 0 /\ Len(first) = 1)
      BY <2>5, <2>6, <2>15, <2>16, <2>20 DEF b
    <2>23. PICK c \in Configs : c.maxfilesize = m
      BY <1>4, <2>2 DEF LimitRight, m
    <2>24. LimitRight'
      BY <1>2, <2>15, <2>21, <2>23 DEF LimitRight, m
    <2>25. Allowed(Len(moved[1]))
      <3>1. CASE Len(first) = 0
        <4>1. Allowed(l)
          BY <2>2, <2>9 DEF SizesRight, l
        <4> QED
          BY <2>15, <2>18, <3>1, <4>1
      <3>2. CASE l + Len(first) <= m + Buffered
        BY <2>18, <2>23, <3>2 DEF Allowed
      <3>3. CASE l > 0 /\ Len(first) = 1
        <4>1. PICK d \in Configs : l < d.maxfilesize + Buffered
          BY <2>2, <3>3 DEF SizesRight, l
        <4>2. l + 1 <= d.maxfilesize + Buffered
          BY <2>15, <4>1, LogAssumption
        <4> QED
          BY <2>18, <3>3, <4>2 DEF Allowed
      <3> QED
        BY <2>6, <2>22, <3>1, <3>2, <3>3
    <2>26. \A i \in DOMAIN files : Allowed(Len(files[i]))
      BY <2>2 DEF SizesRight
    <2>27. \A i \in DOMAIN moved : Allowed(Len(moved[i]))
      BY <2>9, <2>10, <2>25, <2>26
    <2>28. Allowed(Len(files'[1]))
      BY <2>15, <2>21, <2>23 DEF Allowed
    <2>29. \A i \in DOMAIN files' : Allowed(Len(files'[i]))
      BY <2>11, <2>14, <2>26, <2>27, <2>28
    <2>30. SizesRight'
      BY <2>21, <2>23, <2>29 DEF SizesRight, Allowed
    <2> QED
      BY <2>13, <2>24, <2>30 DEF FilesInv, AreTheEnd
  <1> QED
    BY <1>3, <1>4

-----------------------------------------------------------------------------
(* Every step keeps both.                                                  *)

LEMMA LogBegins == LogInit => LogInv /\ FilesInv
  <1> SUFFICES ASSUME LogInit
               PROVE  LogInv /\ FilesInv
    OBVIOUS
  <1>1. /\ thread = [t \in LogThreads |-> Resting]
        /\ Resting.at = "idle" /\ Resting.impl = None
    BY DEF LogInit, Resting
  <1>2. \A t \in LogThreads : thread[t].at = "idle" /\ thread[t].impl = None
    BY <1>1
  <1>3. Active = {} /\ Waiting = {}
    BY <1>2 DEF Active, Waiting
  <1>4. LogTyped
    <2>1. Resting \in ThreadSet
      BY DEF Resting, ThreadSet, Places, FlagSets
    <2>2. thread \in [LogThreads -> ThreadSet]
      BY <1>1, <2>1
    <2>3. appender \in AppenderSet
      BY DEF LogInit, AppenderSet
    <2>4. << >> \in Seq(Impls) /\ Len(<< >>) <= MaxSpare /\ text \in [Impls -> Seq(Nat)]
      BY LogAssumption DEF LogInit
    <2>5. /\ files \in Seq(Seq(Seq(Nat))) /\ files # << >>
          /\ put \in Seq(Seq(Nat)) /\ written \in Seq(Seq(Nat)) /\ rolled \in Seq(Seq(Nat)) /\ DOMAIN loggers \subseteq Asked
      BY DEF LogInit
    <2> QED
      BY <2>2, <2>3, <2>4, <2>5 DEF LogTyped, LogInit, Configurations
  <1>5. MutexRight
    <2>1. \A t \in LogThreads : t # None
      BY LogAssumption DEF LogThreads, None
    <2> QED
      BY <1>2, <2>1 DEF MutexRight, LogInit, Configuring
  <1>6. BufferRight /\ LinesRight
    BY <1>3, FS_EmptySet DEF BufferRight, LinesRight, LogInit
  <1>7. ImplsRight /\ TextsRight /\ MessagesRight
    BY <1>2, <1>3 DEF ImplsRight, TextsRight, MessagesRight, LogInit
  <1>8. LevelsRight
    BY <1>2 DEF LevelsRight, LogInit
  <1>9. FilesInv
    <2>1. files = << << >> >> /\ rolled = << >> /\ appender.kind = None
      BY DEF LogInit
    <2>2. DOMAIN files = {1} /\ files[1] = << >> /\ Len(<< >>) = 0 /\ DOMAIN << >> = {}
      BY <2>1
    <2>3. AreTheEnd(files, rolled)
      <3> DEFINE from == [i \in {1} |-> 0]
      <3>1. from \in [DOMAIN files -> 0 .. Len(rolled)]
        BY <2>1, <2>2
      <3>2. \A i \in DOMAIN files : /\ from[i] + Len(files[i]) = IF i = 1 THEN Len(rolled) ELSE from[i - 1]
                                    /\ \A j \in DOMAIN files[i] : files[i][j] = rolled[from[i] + j]
        BY <2>1, <2>2
      <3> HIDE DEF from
      <3> QED
        BY <3>1, <3>2 DEF AreTheEnd
    <2>4. LimitRight
      BY <2>1 DEF LimitRight, None
    <2>5. SizesRight
      BY <2>2 DEF SizesRight, Allowed
    <2> QED
      BY <2>3, <2>4, <2>5 DEF FilesInv
  <1> QED
    BY <1>4, <1>5, <1>6, <1>7, <1>8, <1>9 DEF LogInv

LEMMA LogSteps ==
  ASSUME LogInv, FilesInv, LogNext
  PROVE  LogInv' /\ FilesInv'
  <1>1. ASSUME NEW t \in Writers, NEW c \in Asked, AskLogger(t, c)
        PROVE  LogInv' /\ FilesInv'
    BY <1>1, AskStays, FilesStay DEF LogThreads, AskLogger, AppenderVars
  <1>2. ASSUME NEW t \in Writers, FindLogger(t)
        PROVE  LogInv' /\ FilesInv'
    BY <1>2, FindStays, FilesStay DEF LogThreads, FindLogger, AppenderVars
  <1>3. ASSUME NEW t \in Writers, InsertLogger(t)
        PROVE  LogInv' /\ FilesInv'
    BY <1>3, InsertStays, FilesStay DEF LogThreads, InsertLogger, AppenderVars
  <1>4. ASSUME NEW t \in Writers, Compose(t)
        PROVE  LogInv' /\ FilesInv'
    BY <1>4, ComposeStays, FilesStay DEF LogThreads, Compose, AppenderVars
  <1>5. ASSUME NEW t \in Writers, EnterScope(t)
        PROVE  LogInv' /\ FilesInv'
    BY <1>5, EnterScopeStays, FilesStay DEF LogThreads, EnterScope, AppenderVars
  <1>6. ASSUME NEW t \in Writers, ExitScope(t)
        PROVE  LogInv' /\ FilesInv'
    BY <1>6, ExitScopeStays, FilesStay DEF LogThreads, ExitScope, AppenderVars
  <1>7. ASSUME NEW t \in Writers, FinishSilent(t)
        PROVE  LogInv' /\ FilesInv'
    BY <1>7, FinishSilentStays, FilesStay DEF LogThreads, FinishSilent, AppenderVars
  <1>8. ASSUME NEW t \in Writers, FinishLoud(t)
        PROVE  LogInv' /\ FilesInv'
    BY <1>8, FinishLoudStays, FilesStay DEF LogThreads, FinishLoud, AppenderVars
  <1>9. ASSUME NEW t \in Writers, Count(t)
        PROVE  LogInv' /\ FilesInv'
    BY <1>9, CountStays, FilesStay DEF LogThreads, Count, AppenderVars
  <1>10. ASSUME NEW t \in Writers, PutLine(t)
         PROVE  LogInv' /\ FilesInv'
    <2>1. t \in LogThreads /\ thread[t].at = "waiting"
      BY <1>10 DEF LogThreads, PutLine, At
    <2>2. LogInv' /\ LineOf(t) \in Seq(Nat)
      BY <1>10, <2>1, PutLineStays, LineOfWaiting
    <2>3. CASE appender.kind = "udp"
      <3>1. SendLine(LineOf(t))
        BY <1>10, <2>3 DEF PutLine
      <3> QED
        BY <2>2, <2>3, <3>1, SendsLine, FilesStay
    <2>4. CASE appender.kind # "udp"
      <3> DEFINE last == waiting' = 0
      <3>1. last \in BOOLEAN /\ Keep(LineOf(t), last)
        BY <1>10, <2>4 DEF PutLine
      <3> HIDE DEF last
      <3> QED
        BY <2>2, <3>1, KeepsFiles
    <2> QED
      BY <2>3, <2>4
  <1>11. ASSUME NEW t \in Writers, Release(t)
         PROVE  LogInv' /\ FilesInv'
    BY <1>11, ReleaseStays, FilesStay DEF LogThreads, Release, AppenderVars
  <1>12. ASSUME NEW t \in Configurers, NEW c \in Configs, Configure(t, c)
         PROVE  LogInv' /\ FilesInv'
    BY <1>12, ConfigureStays, FilesStay DEF LogThreads, Configure, AppenderVars
  <1>13. ASSUME NEW t \in Configurers, ConfigureNothing(t)
         PROVE  LogInv' /\ FilesInv'
    BY <1>13, ConfigureNothingStays, FilesStay DEF LogThreads, ConfigureNothing, AppenderVars
  <1>14. ASSUME NEW t \in Configurers, NewAppender(t)
         PROVE  LogInv' /\ FilesInv'
    BY <1>14, NewAppenderStays, NewAppenderFiles DEF LogThreads
  <1>15. ASSUME NEW t \in Configurers, NoAppenderMade(t)
         PROVE  LogInv' /\ FilesInv'
    BY <1>15, NoAppenderMadeStays, FilesStay DEF LogThreads, NoAppenderMade, AppenderVars
  <1>16. ASSUME NEW t \in Configurers, Copied(t)
         PROVE  LogInv' /\ FilesInv'
    BY <1>16, CopiedStays, FilesStay DEF LogThreads, Copied, AppenderVars
  <1>17. ASSUME NEW t \in Configurers, LevelsSet(t)
         PROVE  LogInv' /\ FilesInv'
    BY <1>17, LevelsSetStays, FilesStay DEF LogThreads, LevelsSet, AppenderVars
  <1>18. ASSUME NEW t \in Configurers, SwitchedOn(t)
         PROVE  LogInv' /\ FilesInv'
    BY <1>18, SwitchedOnStays, FilesStay DEF LogThreads, SwitchedOn, AppenderVars
  <1>19. ASSUME NEW t \in Configurers, Disable(t)
         PROVE  LogInv' /\ FilesInv'
    BY <1>19, DisableStays, FilesStay DEF LogThreads, Disable, AppenderVars
  <1> QED
    BY <1>1, <1>2, <1>3, <1>4, <1>5, <1>6, <1>7, <1>8, <1>9, <1>10, <1>11, <1>12, <1>13, <1>14, <1>15, <1>16,
       <1>17, <1>18, <1>19 DEF LogNext

LEMMA LogStands ==
  ASSUME LogInv, FilesInv, UNCHANGED logVars
  PROVE  LogInv' /\ FilesInv'
  <1>1. LogTyped' /\ MutexRight'
    BY LogFacts DEF logVars, LogTyped, MutexRight, HasImpl
  <1>2. Active' = Active /\ Waiting' = Waiting /\ Someone("setting levels")' = Someone("setting levels")
    BY DEF logVars, Active, Waiting, Someone
  <1>3. BufferRight' /\ LinesRight' /\ ImplsRight'
    BY <1>2, LogFacts DEF logVars, BufferRight, LinesRight, ImplsRight
  <1>4. TextsRight' /\ LevelsRight'
    BY <1>2, LogFacts DEF logVars, TextsRight, LevelsRight, Ends
  <1>5. MessagesRight'
    BY <1>2, LogFacts DEF logVars, MessagesRight, Ends, RotateLine
  <1>6. FilesInv'
    BY FilesStay DEF logVars
  <1> QED
    BY <1>1, <1>3, <1>4, <1>5, <1>6 DEF LogInv

\* Lines, the Impls they are put together in, loggers and files are what they should be after
\* every step of the threads that log and of those that configure logging.
THEOREM LogInvariant == LogSpec => [](LogInv /\ FilesInv)
  <1>1. LogInit => LogInv /\ FilesInv
    BY LogBegins
  <1>2. LogInv /\ FilesInv /\ [LogNext]_logVars => (LogInv /\ FilesInv)'
    BY LogSteps, LogStands
  <1> QED
    BY <1>1, <1>2, PTL DEF LogSpec

\* What it says of the lines in the buffer, of those that were put, and of loggers.
LEMMA LogIsSound ==
  ASSUME LogInv, FilesInv
  PROVE  LogSound
  <1>1. /\ LogTyped /\ MutexRight /\ BufferRight /\ LinesRight /\ ImplsRight /\ MessagesRight /\ LevelsRight
    BY LogFacts
  <1>2. LogTypeOK
    <2>1. Waiting = {t \in LogThreads : thread[t].at = "waiting"}
      BY DEF Waiting
    <2> QED
      BY <1>1, <2>1 DEF LogTypeOK, LogTyped, MutexRight, BufferRight
  <1>3. NothingIsKeptBack
    BY <1>1 DEF NothingIsKeptBack, BufferRight, Waiting, Someone
  <1>4. WrittenInOrder
    BY <1>1 DEF WrittenInOrder, LinesRight
  <1>5. EndsWithItsText
    <2>1. put \in Seq(Seq(Nat))
      BY <1>1 DEF LogTyped
    <2>2. ASSUME NEW i \in 1 .. Len(put), put[i] # RotateLine
          PROVE  /\ Range(Front(put[i])) \subseteq silenced
                 /\ \A j \in 1 .. i - 1 : put[j] # RotateLine => Last(put[i]) # Last(put[j])
      <3>1. PICK m \in 1 .. messages : Ends(put[i], m)
        BY <1>1, <2>2 DEF MessagesRight
      <3> DEFINE l == put[i]
      <3>2. l \in Seq(Nat) /\ l # << >> /\ \A j \in 1 .. Len(l) : j # Len(l) => l[j] \in silenced
        BY <2>1, <3>1 DEF Ends
      <3> HIDE DEF l
      <3>3. Len(l) - 1 \in Nat /\ \A j \in 1 .. Len(l) - 1 : j \in 1 .. Len(l) /\ j # Len(l) /\ l[j] \in Nat
        BY <3>2
      <3> DEFINE n == Len(l) - 1
      <3>4. n \in Nat /\ Front(l) = SubSeq(l, 1, n) /\ \A j \in 1 .. n : l[j] \in silenced /\ l[j] \in Nat
        BY <3>2, <3>3 DEF Front
      <3> HIDE DEF n
      <3>5. DOMAIN SubSeq(l, 1, n) = 1 .. n /\ \A j \in 1 .. n : SubSeq(l, 1, n)[j] = l[j]
        BY <3>2, <3>4, SubSeqProperties
      <3>6. Range(Front(l)) \subseteq silenced
        BY <3>4, <3>5 DEF Range
      <3>7. \A j \in 1 .. i - 1 : put[j] # RotateLine => put[i][Len(put[i])] # put[j][Len(put[j])]
        BY <1>1, <2>2 DEF MessagesRight
      <3> QED
        BY <3>6, <3>7 DEF Last, l
    <2>3. DOMAIN put = 1 .. Len(put)
      BY <2>1
    <2> QED
      BY <2>2, <2>3 DEF EndsWithItsText
  <1>6. ImplHasOneUser
    <2>1. DOMAIN spare = 1 .. Len(spare)
      BY <1>1 DEF LogTyped
    <2>2. IsInjective(spare)
      BY <1>1, <2>1 DEF ImplsRight, IsInjective
    <2>3. Range(spare) \cap InUse = {}
      BY <1>1, <2>1 DEF ImplsRight, Range, InUse
    <2>4. \A t, u \in LogThreads : t # u /\ thread[t].impl # None => thread[t].impl # thread[u].impl
      BY <1>1 DEF ImplsRight
    <2> QED
      BY <2>2, <2>3, <2>4 DEF ImplHasOneUser
  <1>7. RotatedInOrder
    <2>1. files \in Seq(Seq(Seq(Nat)))
      BY <1>1 DEF LogTyped
    <2>2. \A i \in DOMAIN files : files[i] # << >> => Len(files[i]) > 0
      BY <2>1
    <2>3. AreTheEnd(files, rolled) /\ \A i \in DOMAIN files : Allowed(Len(files[i]))
      BY DEF FilesInv, SizesRight
    <2> QED
      BY <2>2, <2>3 DEF RotatedInOrder, Allowed
  <1>8. LevelsInForce
    <2>1. mutex = None => ~Someone("setting levels")
      BY <1>1, LogFacts DEF MutexRight, Someone, Configuring
    <2> QED
      BY <1>1, <2>1 DEF LevelsInForce, LevelsRight
  <1> QED
    BY <1>2, <1>3, <1>4, <1>5, <1>6, <1>7, <1>8 DEF LogSound

\* Lines are written once and in order, with the text of their message at the end, nothing is kept
\* back with nobody to write it, an Impl has one user, files that are rotated hold the last lines,
\* and loggers have the levels in force.
THEOREM LogsAreSound == LogSpec => []LogSound
  <1>1. LogInv /\ FilesInv => LogSound
    BY LogIsSound
  <1> QED
    BY <1>1, LogInvariant, PTL
=============================================================================
