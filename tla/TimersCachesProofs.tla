--------------------------- MODULE TimersCachesProofs ---------------------------
(***************************************************************************)
(* Proofs about what keeps entries in order and takes the first of them:   *)
(* the timers of a selector, whose map keeps one entry for each active     *)
(* timer whatever handlers do, so that the selector sleeps neither over a  *)
(* timer nor over the caller's limit; and the caches and the pool, for all *)
(* keys, sizes, objects and limits of the serials: winners are half of a   *)
(* cache, the least recently used goes, each object is owned once.         *)
(***************************************************************************)
EXTENDS Timers, Caches, FiniteSetTheorems, SequenceTheorems, WellFoundedInduction, TLAPS

(***************************************************************************)
(* Timers                                                                  *)
(***************************************************************************)

-----------------------------------------------------------------------------
(* Sequences: the smallest index, and inserting and removing at one.       *)

\* A set of natural numbers has a smallest one: the entry that insert() and
\* onRemoveTimer() stop at.
LEMMA MinIsLeast ==
  ASSUME NEW S \in SUBSET Nat, S # {}
  PROVE  Min(S) \in S /\ \A k \in S : Min(S) <= k
<1> DEFINE R == OpToRel(<, Nat)
<1>1. \A x, y \in Nat : x < y => <<x, y>> \in R
  <2> TAKE x, y \in Nat
  <2> HAVE x < y
  <2> DEFINE z == <<x, y>>
  <2>1. z \in Nat \X Nat
    BY Zenon
  <2>2. z[1] < z[2]
    OBVIOUS
  <2> QED
    BY <2>1, <2>2, Zenon DEF OpToRel
<1>2. \E x \in S : \A y \in S : <<y, x>> \notin R
  BY NatLessThanWellFounded, WFMin
<1> HIDE DEF R
<1>3. PICK x \in S : \A y \in S : <<y, x>> \notin R
  BY <1>2
<1>4. \A y \in S : ~(y < x)
  BY <1>1, <1>3, Zenon
<1>5. \E z \in S : \A y \in S : z <= y
  BY <1>4
<1> QED
  BY <1>5 DEF Min

\* What is at each place after inserting.
LEMMA InsertAtFacts ==
  ASSUME NEW T, NEW s \in Seq(T), NEW e \in T, NEW p \in 1..Len(s) + 1
  PROVE  /\ InsertAt(s, p, e) \in Seq(T) /\ Len(InsertAt(s, p, e)) = Len(s) + 1
         /\ \A i \in 1..Len(s) + 1 :
              InsertAt(s, p, e)[i] = IF i < p THEN s[i] ELSE IF i = p THEN e ELSE s[i - 1]
<1> DEFINE a == SubSeq(s, 1, p - 1)
           b == SubSeq(s, p, Len(s))
           c == a \o <<e>>
<1>1. a \in Seq(T) /\ Len(a) = p - 1 /\ \A i \in 1..p-1 : a[i] = s[i]
  OBVIOUS
<1>2. b \in Seq(T) /\ Len(b) = Len(s) - p + 1 /\ \A i \in 1..Len(s)-p+1 : b[i] = s[p + i - 1]
  OBVIOUS
<1> HIDE DEF a, b
<1>3. c \in Seq(T) /\ Len(c) = p /\ (\A i \in 1..p-1 : c[i] = s[i]) /\ c[p] = e
  BY <1>1
<1> HIDE DEF c
<1>4. /\ c \o b \in Seq(T) /\ Len(c \o b) = Len(s) + 1
      /\ \A i \in 1..Len(s)+1 : (c \o b)[i] = IF i <= p THEN c[i] ELSE b[i - p]
  <2>1. Len(s) \in Nat /\ p \in Nat /\ Len(c) = p /\ Len(b) = Len(s) - p + 1
    BY <1>2, <1>3
  <2>2. c \in Seq(T) /\ b \in Seq(T)
    BY <1>2, <1>3
  <2>3. /\ c \o b \in Seq(T) /\ Len(c \o b) = Len(c) + Len(b)
        /\ \A i \in 1..Len(c) + Len(b) : (c \o b)[i] = IF i <= Len(c) THEN c[i] ELSE b[i - Len(c)]
    BY <2>2, ConcatProperties
  <2> QED
    BY <2>1, <2>3
<1>5. InsertAt(s, p, e) = c \o b
  BY DEF InsertAt, a, b, c
<1> QED
  BY <1>2, <1>3, <1>4, <1>5

\* What is at each place after removing.
LEMMA RemoveAtFacts ==
  ASSUME NEW T, NEW s \in Seq(T), NEW p \in 1..Len(s)
  PROVE  /\ RemoveAt(s, p) \in Seq(T) /\ Len(RemoveAt(s, p)) = Len(s) - 1
         /\ \A i \in 1..Len(s)-1 : RemoveAt(s, p)[i] = IF i < p THEN s[i] ELSE s[i + 1]
<1> DEFINE a == SubSeq(s, 1, p - 1)
           b == SubSeq(s, p + 1, Len(s))
<1>1. a \in Seq(T) /\ Len(a) = p - 1 /\ \A i \in 1..p-1 : a[i] = s[i]
  OBVIOUS
<1>2. b \in Seq(T) /\ Len(b) = Len(s) - p /\ \A i \in 1..Len(s)-p : b[i] = s[p + i]
  OBVIOUS
<1>3. RemoveAt(s, p) = a \o b
  BY DEF RemoveAt
<1> HIDE DEF a, b
<1>4. a \o b \in Seq(T) /\ Len(a \o b) = Len(a) + Len(b)
  <2>1. a \in Seq(T) /\ b \in Seq(T)
    BY <1>1, <1>2
  <2> QED
    BY <2>1
<1>5. Len(a) + Len(b) = Len(s) - 1
  <2>1. Len(a) = p - 1
    BY <1>1
  <2>3. Len(b) = Len(s) - p
    BY <1>2
  <2>2. Len(s) \in Nat /\ p \in Nat
    OBVIOUS
  <2> QED
    BY <2>1, <2>2, <2>3
<1>6. ASSUME NEW i \in 1..Len(s)-1
      PROVE  (a \o b)[i] = IF i < p THEN s[i] ELSE s[i + 1]
  <2>1. CASE i < p
    BY <2>1, <1>1, <1>2
  <2>2. CASE ~(i < p)
    <3>1. (a \o b)[i] = b[i - (p - 1)]
      BY <2>2, <1>1, <1>2
    <3>2. b[i - (p - 1)] = s[p + (i - (p - 1))]
      BY <2>2, <1>2
    <3> QED
      BY <2>2, <3>1, <3>2
  <2> QED
    BY <2>1, <2>2
<1> QED
  BY <1>3, <1>4, <1>5, <1>6

\* The multiple of i that follows a: start(startTime, interval) does not choose
\* a time that has passed.
LEMMA NextMultiple ==
  ASSUME NEW a \in Nat, NEW i \in Nat \ {0}
  PROVE  (a \div i + 1) * i \in Nat /\ (a \div i + 1) * i > a
  OBVIOUS

-----------------------------------------------------------------------------
(* The multimap.                                                           *)

Entry == [key : Nat, timer : Timer]
HasEntry(map, t) == \E i \in DOMAIN map : map[i].timer = t
InOrder(map) == \A i, j \in DOMAIN map : i < j => map[i].key <= map[j].key
IsUnique(map) == \A i, j \in DOMAIN map : map[i].timer = map[j].timer => i = j

\* The entries of r but that of t are those of map, and the first of them stays
\* the first if its key is not behind k.
Kept(r, map, t, k) ==
  \A i \in DOMAIN r : r[i].timer # t =>
    \E j \in DOMAIN map : r[i] = map[j] /\ (j = 1 /\ map[1].key <= k => i = 1)

\* What the entries are made of.
LEMMA EntryFacts ==
  ASSUME NEW map \in Seq(Entry)
  PROVE  /\ Len(map) \in Nat /\ DOMAIN map = 1..Len(map)
         /\ \A i \in 1..Len(map) : map[i] \in Entry /\ map[i].key \in Nat /\ map[i].timer \in Timer
<1>1. \A e \in Entry : e.key \in Nat /\ e.timer \in Timer
  BY DEF Entry
<1> QED
  BY <1>1

\* insert() keeps the order.
LEMMA Inserted ==
  ASSUME NEW map \in Seq(Entry), NEW t \in Timer, NEW k \in Nat,
         InOrder(map), IsUnique(map), ~HasEntry(map, t)
  PROVE  LET r == Insert(map, k, t) IN
         /\ r \in Seq(Entry) /\ InOrder(r) /\ IsUnique(r)
         /\ \A u \in Timer : HasEntry(r, u) <=> u = t \/ HasEntry(map, u)
         /\ \A i \in DOMAIN r : r[i].timer = t => r[i].key = k
         /\ Kept(r, map, t, k)
<1> DEFINE later == {i \in DOMAIN map : map[i].key > k}
           p == IF later = {} THEN Len(map) + 1 ELSE Min(later)
           e == [key |-> k, timer |-> t]
           r == Insert(map, k, t)
<1>0. /\ Len(map) \in Nat /\ DOMAIN map = 1..Len(map)
      /\ \A i \in 1..Len(map) : map[i] \in Entry /\ map[i].key \in Nat /\ map[i].timer \in Timer
  BY EntryFacts
<1>1. later \in SUBSET Nat
  BY <1>0
<1>2. /\ p \in 1..Len(map) + 1
      /\ \A i \in DOMAIN map : i < p => map[i].key <= k
      /\ p \in DOMAIN map => map[p].key > k
  <2>1. CASE later = {}
    BY <2>1, <1>0
  <2>2. CASE later # {}
    <3>1. p \in later /\ \A i \in later : p <= i
      BY <1>1, <2>2, MinIsLeast
    <3> HIDE DEF p
    <3> QED
      BY <3>1, <1>0
  <2> QED
    BY <2>1, <2>2
<1>3. r = InsertAt(map, p, e)
  BY DEF Insert
<1>4. e \in Entry /\ e.key = k /\ e.timer = t
  BY DEF Entry
<1> HIDE DEF p, e, r
<1>5. /\ r \in Seq(Entry) /\ Len(r) = Len(map) + 1
      /\ \A i \in 1..Len(map) + 1 : r[i] = IF i < p THEN map[i] ELSE IF i = p THEN e ELSE map[i - 1]
  <2>1. /\ InsertAt(map, p, e) \in Seq(Entry) /\ Len(InsertAt(map, p, e)) = Len(map) + 1
        /\ \A i \in 1..Len(map) + 1 :
             InsertAt(map, p, e)[i] = IF i < p THEN map[i] ELSE IF i = p THEN e ELSE map[i - 1]
    BY <1>2, <1>4, InsertAtFacts
  <2> QED
    BY <1>3, <2>1
<1> DEFINE old(i) == IF i < p THEN i ELSE i - 1
<1>6. /\ DOMAIN r = 1..Len(map) + 1 /\ p \in DOMAIN r /\ r[p] = e
      /\ \A i \in DOMAIN r : i # p => old(i) \in DOMAIN map /\ r[i] = map[old(i)]
      /\ \A i, j \in DOMAIN r : i < j /\ i # p /\ j # p => old(i) < old(j)
  BY <1>0, <1>2, <1>5
<1>7. \A i \in DOMAIN r : (i < p => r[i].key <= k) /\ (i > p => r[i].key > k)
  <2>1. \A i \in DOMAIN map : i >= p => map[i].key > k
    BY <1>0, <1>2, SMTT(30) DEF InOrder
  <2>2. \A i \in DOMAIN r : i < p => i \in DOMAIN map /\ r[i] = map[i]
    BY <1>0, <1>2, <1>6
  <2>3. \A i \in DOMAIN r : i > p => i - 1 \in DOMAIN map /\ i - 1 >= p /\ r[i] = map[i - 1]
    BY <1>0, <1>2, <1>6
  <2> QED
    BY <1>2, <2>1, <2>2, <2>3
<1> HIDE DEF old
<1>8. InOrder(r)
  <2> SUFFICES ASSUME NEW i \in DOMAIN r, NEW j \in DOMAIN r, i < j PROVE r[i].key <= r[j].key
    BY DEF InOrder
  <2>0. r[i].key \in Nat /\ r[j].key \in Nat
    BY <1>5, EntryFacts
  <2>1. CASE i = p
    BY <2>0, <2>1, <1>4, <1>6, <1>7
  <2>2. CASE j = p
    <3>1. i < p /\ r[j].key = k
      BY <2>2, <1>4, <1>6
    <3>2. r[i].key <= k
      BY <3>1, <1>7
    <3> QED
      BY <3>1, <3>2
  <2>3. CASE i # p /\ j # p
    BY <2>3, <1>6 DEF InOrder
  <2> QED
    BY <2>1, <2>2, <2>3
<1>9. IsUnique(r)
  <2> SUFFICES ASSUME NEW i \in DOMAIN r, NEW j \in DOMAIN r, r[i].timer = r[j].timer, i < j PROVE FALSE
    BY <1>6 DEF IsUnique
  <2>1. CASE i = p \/ j = p
    BY <2>1, <1>4, <1>6 DEF HasEntry
  <2>2. CASE i # p /\ j # p
    <3>1. old(i) < old(j) /\ old(i) \in DOMAIN map /\ old(j) \in DOMAIN map /\ map[old(i)].timer = map[old(j)].timer
      BY <2>2, <1>6
    <3> QED
      BY <3>1, <1>0 DEF IsUnique
  <2> QED
    BY <2>1, <2>2
<1>10. ASSUME NEW u \in Timer PROVE HasEntry(r, u) <=> u = t \/ HasEntry(map, u)
  <2>1. HasEntry(r, u) => u = t \/ HasEntry(map, u)
    BY <1>4, <1>6 DEF HasEntry
  <2>2. HasEntry(r, t)
    BY <1>4, <1>6 DEF HasEntry
  <2>3. ASSUME NEW j \in DOMAIN map, map[j].timer = u PROVE HasEntry(r, u)
    <3>1. CASE j < p
      BY <3>1, <1>0, <1>2, <1>5, <1>6, <2>3 DEF HasEntry
    <3>2. CASE j >= p
      <4>1. j + 1 \in DOMAIN r /\ r[j + 1] = map[j]
        BY <3>2, <1>0, <1>2, <1>5, <1>6
      <4> QED
        BY <4>1, <2>3 DEF HasEntry
    <3> QED
      BY <3>1, <3>2, <1>0, <1>2
  <2> QED
    BY <2>1, <2>2, <2>3 DEF HasEntry
<1>11. \A i \in DOMAIN r : r[i].timer = t => r[i].key = k
  BY <1>4, <1>6 DEF HasEntry
<1>12. Kept(r, map, t, k)
  <2> SUFFICES ASSUME NEW i \in DOMAIN r, r[i].timer # t
               PROVE  \E j \in DOMAIN map : r[i] = map[j] /\ (j = 1 /\ map[1].key <= k => i = 1)
    BY DEF Kept
  <2>1. i # p
    BY <1>4, <1>6
  <2>2. old(i) \in DOMAIN map /\ r[i] = map[old(i)]
    BY <2>1, <1>6
  <2>3. ASSUME old(i) = 1, map[1].key <= k PROVE i = 1
    <3>1. ~(i > p)
      BY <2>2, <2>3, <1>0, <1>7
    <3> QED
      BY <3>1, <2>1, <2>3, <1>2, <1>6, <1>0 DEF old
  <2> QED
    BY <2>2, <2>3
<1> QED
  BY <1>5, <1>8, <1>9, <1>10, <1>11, <1>12 DEF r

\* onRemoveTimer() takes the entry of the timer, if there is one.
LEMMA Erased ==
  ASSUME NEW map \in Seq(Entry), NEW t \in Timer, NEW k \in Nat,
         InOrder(map), IsUnique(map)
  PROVE  LET r == Erase(map, t) IN
         /\ r \in Seq(Entry) /\ InOrder(r) /\ IsUnique(r)
         /\ \A u \in Timer : HasEntry(r, u) <=> u # t /\ HasEntry(map, u)
         /\ Kept(r, map, t, k)
<1> DEFINE at == {i \in DOMAIN map : map[i].timer = t}
           r == Erase(map, t)
<1>0. /\ Len(map) \in Nat /\ DOMAIN map = 1..Len(map)
      /\ \A i \in 1..Len(map) : map[i] \in Entry /\ map[i].key \in Nat /\ map[i].timer \in Timer
  BY EntryFacts
<1>1. CASE at = {}
  <2>1. r = map
    BY <1>1 DEF Erase
  <2> QED
    BY <1>1, <2>1 DEF HasEntry, Kept
<1>2. CASE at # {}
  <2> DEFINE p == Min(at)
  <2>1. p \in at
    <3>1. at \in SUBSET Nat
      OBVIOUS
    <3> QED
      BY <1>2, <3>1, MinIsLeast
  <2>2. r = RemoveAt(map, p)
    BY <1>2 DEF Erase
  <2>3. p \in 1..Len(map) /\ map[p].timer = t
    BY <2>1
  <2> HIDE DEF p, at, r
  <2>4. /\ r \in Seq(Entry) /\ Len(r) = Len(map) - 1
        /\ \A i \in 1..Len(map)-1 : r[i] = IF i < p THEN map[i] ELSE map[i + 1]
    BY <2>2, <2>3, RemoveAtFacts
  <2> DEFINE old(i) == IF i < p THEN i ELSE i + 1
  <2>5. /\ DOMAIN r = 1..Len(map) - 1
        /\ \A i \in DOMAIN r : old(i) \in DOMAIN map /\ old(i) # p /\ r[i] = map[old(i)] /\ (old(i) = 1 => i = 1)
        /\ \A i, j \in DOMAIN r : i < j => old(i) < old(j)
        /\ \A j \in DOMAIN map : j # p => \E i \in DOMAIN r : r[i] = map[j]
    <3>1. DOMAIN r = 1..Len(map) - 1
      BY <1>0, <2>4
    <3>2. ASSUME NEW j \in DOMAIN map, j # p PROVE \E i \in DOMAIN r : r[i] = map[j]
      <4>1. CASE j < p
        BY <4>1, <3>1, <1>0, <2>3, <2>4
      <4>2. CASE j > p
        <5>1. j - 1 \in DOMAIN r /\ r[j - 1] = map[j]
          BY <4>2, <3>1, <1>0, <2>3, <2>4
        <5> QED
          BY <5>1
      <4> QED
        BY <4>1, <4>2, <3>2, <1>0, <2>3
    <3> QED
      BY <3>1, <3>2, <1>0, <2>3, <2>4
  <2> HIDE DEF old
  <2>6. InOrder(r)
    BY <2>5 DEF InOrder
  <2>7. IsUnique(r)
    <3>0. \A i, j \in DOMAIN r : i = j \/ i < j \/ j < i
      BY <1>0, <2>5
    <3> SUFFICES ASSUME NEW i \in DOMAIN r, NEW j \in DOMAIN r, r[i].timer = r[j].timer, i < j PROVE FALSE
      BY <3>0, <2>5 DEF IsUnique
    <3>1. old(i) < old(j) /\ old(i) \in DOMAIN map /\ old(j) \in DOMAIN map /\ map[old(i)].timer = map[old(j)].timer
      BY <2>5
    <3> QED
      BY <3>1, <1>0 DEF IsUnique
  <2>8. ASSUME NEW u \in Timer PROVE HasEntry(r, u) <=> u # t /\ HasEntry(map, u)
    <3>1. \A j \in DOMAIN map : j # p => map[j].timer # t
      BY <2>3 DEF IsUnique
    <3> QED
      BY <3>1, <2>3, <2>5, SMTT(30) DEF HasEntry
  <2>9. Kept(r, map, t, k)
    BY <2>5 DEF Kept
  <2> QED
    BY <2>4, <2>6, <2>7, <2>8, <2>9 DEF r
<1> QED
  BY <1>1, <1>2

-----------------------------------------------------------------------------
(* The inductive invariant.                                                *)

\* The map is in order and has one entry for each active timer.
MapSound ==
  /\ InOrder(timers) /\ IsUnique(timers)
  /\ \A t \in Timer : HasEntry(timers, t) <=> t \in added /\ active[t]

Updating == pc \in {"update", "handler", "rekey"}

\* A key is the time its timer is due, but for the first entry while its timer
\* is updated.
KeyIsRight(e) == e.key = finished[e.timer]
KeyIsStale(e) == Updating /\ e.timer = current /\ e.key <= now
KeysRight ==
  KeysSettled =>
    \A i \in DOMAIN timers : KeyIsRight(timers[i]) \/ (i = 1 /\ KeyIsStale(timers[i]))

\* The timer that update() moves on has the first entry, which gets a new key.
CurrentLeads ==
  /\ KeysSettled /\ pc \in {"update", "handler"}
  /\ current \in added /\ active[current] /\ ~once[current] /\ finished[current] <= now
  => timers[1].timer = current

\* The time a timer is due is counted from its start, interval by interval.
TicksSound ==
  \A t \in Timer :
    /\ active[t] /\ ~once[t] => finished[t] = begin[t] + ticks[t] * interval[t]
    /\ once[t] => ticks[t] <= 1
    /\ once[t] /\ active[t] => ticks[t] = 0

\* What the local variables of waitUntil() say of the map: its last loop ends
\* when the first timer is due.
WaitSound ==
  /\ now <= clock
  /\ pc = "user" => ~again
  /\ ~again /\ pc # "sleep" => lowest = WaitInfinite
  /\ again /\ pc \in {"begin", "sleep"} => timers # <<>>
  /\ again /\ pc = "begin" => clock >= finished[timers[1].timer]
  /\ again /\ pc = "sleep" => until = finished[timers[1].timer]
  /\ again /\ (pc = "while" \/ Updating) => ready

\* No timer is due when the selector goes to sleep.
NoneDue == pc = "sleep" /\ KeysSettled => \A t \in added : active[t] => now < finished[t]

TimersInv ==
  /\ TypeOK /\ MapSound /\ KeysRight /\ CurrentLeads /\ TicksSound /\ WaitSound
  /\ NoneDue /\ NoTimerLate /\ InTime

\* A sequence of a set's elements.
LEMMA ElementsTyped ==
  ASSUME NEW S, NEW T, NEW s \in Seq(S), \A i \in 1..Len(s) : s[i] \in T
  PROVE  s \in Seq(T)
  OBVIOUS

\* The entries of the map, typed without regard to which timers are added.
LEMMA MapTyped ==
  ASSUME TypeOK
  PROVE  timers \in Seq(Entry)
<1> DEFINE S == [key : Nat, timer : added]
<1>1. S \subseteq Entry
  BY DEF TypeOK, Entry
<1>2. timers \in Seq(S)
  BY DEF TypeOK
<1> HIDE DEF S
<1>3. \A i \in 1..Len(timers) : timers[i] \in Entry
  BY <1>1, <1>2
<1> QED
  BY <1>2, <1>3, ElementsTyped

LEMMA MapTypedAgain ==
  ASSUME NEW map \in Seq(Entry), NEW A, \A t \in Timer : HasEntry(map, t) => t \in A
  PROVE  map \in Seq([key : Nat, timer : A])
<1>1. /\ Len(map) \in Nat /\ DOMAIN map = 1..Len(map)
      /\ \A i \in 1..Len(map) : map[i] \in Entry /\ map[i].key \in Nat /\ map[i].timer \in Timer
  BY EntryFacts
<1> DEFINE S == [key : Nat, timer : A]
<1>2. ASSUME NEW i \in 1..Len(map) PROVE map[i] \in S
  <2>1. map[i].timer \in A
    BY <1>1 DEF HasEntry
  <2> QED
    BY <1>1, <2>1 DEF Entry
<1> HIDE DEF S
<1>3. map \in Seq(S)
  BY <1>2, ElementsTyped
<1> QED
  BY <1>3 DEF S

\* In order, the first key is the smallest; when no timer is updated it is the
\* time at which the next timer is due.
LEMMA FirstIsNext ==
  ASSUME TypeOK, MapSound, KeysRight, KeysSettled, ~Updating, NEW t \in added, active[t]
  PROVE  timers # <<>> /\ finished[timers[1].timer] <= finished[t]
<1>0. timers \in Seq(Entry)
  BY MapTyped
<1>1. /\ Len(timers) \in Nat /\ DOMAIN timers = 1..Len(timers)
      /\ \A i \in 1..Len(timers) : timers[i].key \in Nat /\ timers[i].timer \in Timer
  BY <1>0, EntryFacts
<1>2. PICK i \in DOMAIN timers : timers[i].timer = t
  BY DEF MapSound, HasEntry, TypeOK
<1>3. timers[1].key <= timers[i].key
  BY <1>1, <1>2 DEF MapSound, InOrder
<1>4. \A j \in DOMAIN timers : timers[j].key = finished[timers[j].timer]
  BY DEF KeysRight, KeyIsRight, KeyIsStale
<1> QED
  BY <1>1, <1>2, <1>3, <1>4

-----------------------------------------------------------------------------
(* The methods of a timer preserve the invariant.                          *)

\* Their effect on the map: the entries of the other timers stay.
OthersKept(t, k) ==
  /\ timers' \in Seq(Entry) /\ InOrder(timers') /\ IsUnique(timers')
  /\ \A u \in Timer : u # t => (HasEntry(timers', u) <=> HasEntry(timers, u))
  /\ \A i \in DOMAIN timers' : timers'[i].timer = t => timers'[i].key = k
  /\ Kept(timers', timers, t, k)

\* A timer is taken out, if it is in the map.
LEMMA TakenOut ==
  ASSUME TypeOK, MapSound, NEW t \in Timer, NEW k \in Nat,
         timers' = Erase(timers, t) \/ timers' = Stopped(t)
  PROVE  OthersKept(t, k) /\ ~HasEntry(timers', t)
<1>0. timers \in Seq(Entry)
  BY MapTyped
<1>1. CASE timers' = Erase(timers, t)
  <2> DEFINE m == Erase(timers, t)
  <2>1. /\ m \in Seq(Entry) /\ InOrder(m) /\ IsUnique(m)
        /\ \A u \in Timer : HasEntry(m, u) <=> u # t /\ HasEntry(timers, u)
        /\ Kept(m, timers, t, k)
    BY <1>0, Erased DEF MapSound
  <2> HIDE DEF m
  <2>2. timers' = m
    BY <1>1 DEF m
  <2>3. \A i \in DOMAIN m : m[i].timer # t
    BY <2>1 DEF HasEntry
  <2> QED
    BY <2>1, <2>2, <2>3 DEF OthersKept
<1>2. CASE timers' = timers /\ ~HasEntry(timers, t)
  BY <1>0, <1>2 DEF MapSound, OthersKept, HasEntry, Kept
<1>3. timers' = Stopped(t) => timers' = Erase(timers, t) \/ (timers' = timers /\ ~HasEntry(timers, t))
  BY DEF Stopped, TimerChanged, MapSound
<1> QED
  BY <1>1, <1>2, <1>3

\* A timer is taken out and put in again at its new place.
LEMMA PutIn ==
  ASSUME TypeOK, MapSound, NEW t \in Timer, NEW k \in Nat,
         timers' = TimerChanged(Stopped(t), t, TRUE, k)
  PROVE  OthersKept(t, k) /\ (HasEntry(timers', t) <=> t \in added)
<1>0. timers \in Seq(Entry)
  BY MapTyped
<1>1. CASE t \notin added
  <2>1. timers' = timers /\ ~HasEntry(timers, t)
    BY <1>1 DEF Stopped, TimerChanged, MapSound
  <2> QED
    BY <1>0, <1>1, <2>1 DEF MapSound, OthersKept, HasEntry, Kept
<1>2. CASE t \in added
  <2> DEFINE m == Stopped(t)
  <2>1. /\ m \in Seq(Entry) /\ InOrder(m) /\ IsUnique(m) /\ ~HasEntry(m, t)
        /\ \A u \in Timer : u # t => (HasEntry(m, u) <=> HasEntry(timers, u))
        /\ Kept(m, timers, t, k)
    <3>1. CASE active[t]
      <4>1. m = Erase(timers, t)
        BY <1>2, <3>1 DEF Stopped, TimerChanged
      <4> HIDE DEF m
      <4> QED
        BY <1>0, <4>1, Erased DEF MapSound
    <3>2. CASE ~active[t]
      <4>1. m = timers
        BY <3>2 DEF Stopped
      <4> HIDE DEF m
      <4> QED
        BY <1>0, <3>2, <4>1 DEF MapSound, Kept
    <3> QED
      BY <3>1, <3>2
  <2>2. timers' = Insert(m, k, t)
    BY <1>2 DEF TimerChanged
  <2> HIDE DEF m
  <2>3. /\ timers' \in Seq(Entry) /\ InOrder(timers') /\ IsUnique(timers')
        /\ \A u \in Timer : HasEntry(timers', u) <=> u = t \/ HasEntry(m, u)
        /\ \A i \in DOMAIN timers' : timers'[i].timer = t => timers'[i].key = k
        /\ Kept(timers', m, t, k)
    <3> DEFINE r == Insert(m, k, t)
    <3>1. /\ r \in Seq(Entry) /\ InOrder(r) /\ IsUnique(r)
          /\ \A u \in Timer : HasEntry(r, u) <=> u = t \/ HasEntry(m, u)
          /\ \A i \in DOMAIN r : r[i].timer = t => r[i].key = k
          /\ Kept(r, m, t, k)
      BY <2>1, Inserted
    <3>2. timers' = r
      BY <2>2
    <3> HIDE DEF r
    <3> QED
      BY <3>1, <3>2
  <2>4. Kept(timers', timers, t, k)
    <3> SUFFICES ASSUME NEW i \in DOMAIN timers', timers'[i].timer # t
                 PROVE  \E j \in DOMAIN timers : timers'[i] = timers[j] /\ (j = 1 /\ timers[1].key <= k => i = 1)
      BY DEF Kept
    <3>1. PICK h \in DOMAIN m : timers'[i] = m[h] /\ (h = 1 /\ m[1].key <= k => i = 1)
      BY <2>3 DEF Kept
    <3>2. PICK j \in DOMAIN timers : m[h] = timers[j] /\ (j = 1 /\ timers[1].key <= k => h = 1)
      BY <2>1, <3>1 DEF Kept
    <3> QED
      BY <3>1, <3>2
  <2> QED
    BY <1>2, <2>1, <2>3, <2>4 DEF OthersKept
<1> QED
  BY <1>1, <1>2

\* If the others are kept, the keys stay right, and the timer that is updated
\* has the first entry still, unless it is itself the one that changed.
LEMMA KeysStay ==
  ASSUME TypeOK, TypeOK', MapSound, KeysRight, CurrentLeads, MapSound',
         NEW t \in Timer, NEW k \in Nat, OthersKept(t, k),
         pc \in {"user", "handler"}, UNCHANGED <<pc, now, current>>,
         KeysSettled' => KeysSettled /\ (pc = "handler" => now <= k),
         HasEntry(timers', t) => finished'[t] = k,
         \A u \in Timer : u # t => /\ finished'[u] = finished[u] /\ active'[u] = active[u]
                                   /\ once'[u] = once[u] /\ (u \in added' <=> u \in added),
         KeysSettled' /\ pc = "handler" /\ t \in added' /\ active'[t] /\ ~once'[t] => now < finished'[t]
  PROVE  KeysRight' /\ CurrentLeads'
<1>0. timers \in Seq(Entry) /\ timers' \in Seq(Entry)
  BY MapTyped DEF OthersKept
<1>1. /\ Len(timers) \in Nat /\ DOMAIN timers = 1..Len(timers)
      /\ \A i \in 1..Len(timers) : timers[i].key \in Nat /\ timers[i].timer \in Timer
  BY <1>0, EntryFacts
<1>2. /\ Len(timers') \in Nat /\ DOMAIN timers' = 1..Len(timers')
      /\ \A i \in 1..Len(timers') : timers'[i].key \in Nat /\ timers'[i].timer \in Timer
  BY <1>0, EntryFacts
<1>3. now \in Nat /\ \A u \in Timer : finished[u] \in Nat /\ finished'[u] \in Nat
  BY DEF TypeOK
<1>4. ASSUME KeysSettled', NEW i \in DOMAIN timers'
      PROVE  KeyIsRight(timers[i])' \/ (i = 1 /\ KeyIsStale(timers[i])')
  <2>1. CASE timers'[i].timer = t
    BY <2>1, <1>2, <1>4 DEF OthersKept, HasEntry, KeyIsRight
  <2>2. CASE timers'[i].timer # t
    <3>1. PICK j \in DOMAIN timers : timers'[i] = timers[j] /\ (j = 1 /\ timers[1].key <= k => i = 1)
      BY <2>2, <1>4 DEF OthersKept, Kept
    <3>2. KeyIsRight(timers[j]) \/ (j = 1 /\ KeyIsStale(timers[j]))
      BY <1>4 DEF KeysRight
    <3>3. CASE KeyIsRight(timers[j])
      BY <2>2, <3>1, <3>3, <1>1, <1>2 DEF KeyIsRight
    <3>4. CASE j = 1 /\ KeyIsStale(timers[j])
      <4>1. pc = "handler" /\ timers[1].timer = current /\ timers[1].key <= now
        BY <3>4 DEF KeyIsStale, Updating
      <4>2. timers[1].key <= k
        BY <3>4, <4>1, <1>1, <1>3, <1>4
      <4> QED
        BY <3>1, <3>4, <4>1, <4>2 DEF KeyIsStale, Updating
    <3> QED
      BY <3>2, <3>3, <3>4
  <2> QED
    BY <2>1, <2>2
<1>5. KeysRight'
  BY <1>4 DEF KeysRight
<1>6. CurrentLeads'
  <2> SUFFICES ASSUME KeysSettled', pc = "handler", current \in added', active'[current], ~once'[current],
                      finished'[current] <= now
               PROVE  timers'[1].timer = current
    BY DEF CurrentLeads
  <2>1. current \in Timer
    BY DEF TypeOK
  <2>2. current # t
    BY <1>3
  <2>3. current \in added /\ active[current] /\ timers[1].timer = current
    BY <2>1, <2>2 DEF CurrentLeads
  <2>4. PICK i \in DOMAIN timers' : timers'[i].timer = current
    BY <2>1 DEF MapSound, HasEntry
  <2>5. PICK j \in DOMAIN timers : timers'[i] = timers[j] /\ (j = 1 /\ timers[1].key <= k => i = 1)
    BY <2>2, <2>4 DEF OthersKept, Kept
  <2>6. j = 1
    <3>1. 1 \in DOMAIN timers
      BY <1>1, <2>5
    <3> QED
      BY <3>1, <2>3, <2>4, <2>5 DEF MapSound, IsUnique
  <2>7. timers[1].key <= k
    <3>1. timers[1].key <= now
      <4>1. KeyIsRight(timers[1]) \/ KeyIsStale(timers[1])
        BY <2>5, <2>6 DEF KeysRight
      <4>2. finished[current] <= now
        BY <2>1, <2>2
      <4> QED
        BY <4>1, <4>2, <2>3 DEF KeyIsRight, KeyIsStale
    <3> QED
      BY <3>1, <2>5, <2>6, <1>1, <1>3
  <2> QED
    BY <2>4, <2>5, <2>6, <2>7
<1> QED
  BY <1>5, <1>6

\* What is left to show of a method: waitUntil() does not notice it.
LEMMA MethodKeeps ==
  ASSUME TimersInv, Method, TypeOK', MapSound', KeysRight', CurrentLeads', TicksSound'
  PROVE  TimersInv'
<1>1. /\ pc \in {"user", "handler"} /\ pc' = pc /\ again' = again /\ now' = now /\ clock' = clock
      /\ lowest' = lowest /\ ready' = ready
  BY DEF Method, ofWait
<1>2. WaitSound'
  BY <1>1 DEF TimersInv, WaitSound, Updating
<1> QED
  BY <1>1, <1>2 DEF TimersInv, NoneDue, NoTimerLate, InTime

\* start(), after() and at(): nothing is due at once, but for at() with the
\* present time.
LEMMA ActivateKeeps ==
  ASSUME TimersInv, Method, NEW t \in Timer, NEW i \in Intervals \cup {0}, NEW d \in Nat, NEW o \in BOOLEAN,
         Activate(t, i, d, o), now <= d, o \/ now < d
  PROVE  TimersInv'
<1>0. TypeOK /\ MapSound /\ KeysRight /\ CurrentLeads /\ TicksSound
  BY DEF TimersInv
<1>1. /\ pc \in {"user", "handler"} /\ pc' = pc /\ now' = now /\ current' = current /\ added' = added
      /\ thrown' = thrown /\ overtaken' = overtaken
      /\ active' = [active EXCEPT ![t] = TRUE] /\ interval' = [interval EXCEPT ![t] = i]
      /\ finished' = [finished EXCEPT ![t] = d] /\ once' = [once EXCEPT ![t] = o]
      /\ begin' = [begin EXCEPT ![t] = d] /\ ticks' = [ticks EXCEPT ![t] = 0]
  BY DEF Method, Activate, ofWait
<1>2. OthersKept(t, d) /\ (HasEntry(timers', t) <=> t \in added)
  BY <1>0, PutIn DEF Activate
<1>3. /\ \A u \in Timer : u # t => /\ finished'[u] = finished[u] /\ active'[u] = active[u]
                                   /\ once'[u] = once[u] /\ begin'[u] = begin[u]
                                   /\ ticks'[u] = ticks[u] /\ interval'[u] = interval[u]
      /\ finished'[t] = d /\ active'[t] /\ once'[t] = o /\ begin'[t] = d /\ ticks'[t] = 0 /\ interval'[t] = i
  BY <1>0, <1>1 DEF TypeOK
<1>4. MapSound'
  <2>1. InOrder(timers)' /\ IsUnique(timers)'
    BY <1>2 DEF OthersKept, InOrder, IsUnique
  <2>2. ASSUME NEW u \in Timer PROVE HasEntry(timers', u) <=> u \in added' /\ active'[u]
    BY <1>0, <1>1, <1>2, <1>3 DEF OthersKept, MapSound
  <2> QED
    BY <2>1, <2>2 DEF MapSound, HasEntry
<1>5. TypeOK'
  <2>1. timers' \in Seq([key : Nat, timer : added'])
    BY <1>2, <1>4, MapTypedAgain DEF OthersKept, MapSound, HasEntry
  <2>2. calls' \in 0..MaxCalls
    BY <1>0, TimersAssumption DEF Method, TypeOK
  <2> QED
    BY <1>0, <1>1, <2>1, <2>2 DEF TypeOK, Method, ofWait
<1>6. KeysRight' /\ CurrentLeads'
  <2>1. KeysSettled' => KeysSettled /\ (pc = "handler" => now <= d)
    BY <1>1 DEF KeysSettled
  <2>2. \A u \in Timer : u # t => /\ finished'[u] = finished[u] /\ active'[u] = active[u]
                                  /\ once'[u] = once[u] /\ (u \in added' <=> u \in added)
    BY <1>1, <1>3
  <2>3. finished'[t] = d /\ (~once'[t] => now < finished'[t])
    BY <1>3
  <2> QED
    BY <1>0, <1>1, <1>2, <1>4, <1>5, <2>1, <2>2, <2>3, KeysStay
<1>7. TicksSound'
  <2> SUFFICES ASSUME NEW u \in Timer
               PROVE  /\ active'[u] /\ ~once'[u] => finished'[u] = begin'[u] + ticks'[u] * interval'[u]
                      /\ once'[u] => ticks'[u] <= 1
                      /\ once'[u] /\ active'[u] => ticks'[u] = 0
    BY DEF TicksSound
  <2>1. CASE u = t
    <3>1. i \in Nat
      BY TimersAssumption
    <3> QED
      BY <2>1, <3>1, <1>3
  <2>2. CASE u # t
    BY <2>2, <1>0, <1>3 DEF TicksSound
  <2> QED
    BY <2>1, <2>2
<1> QED
  BY <1>4, <1>5, <1>6, <1>7, MethodKeeps

\* A timer that is not active any more has no entry.
LEMMA DeactivateKeeps ==
  ASSUME TimersInv, Method, NEW t \in Timer, NEW d \in Nat,
         active' = [active EXCEPT ![t] = FALSE], finished' = [finished EXCEPT ![t] = d],
         timers' = Stopped(t), UNCHANGED <<added, interval, begin, overtaken>>,
         \/ UNCHANGED <<once, ticks>>
         \/ once' = [once EXCEPT ![t] = TRUE] /\ ticks' = [ticks EXCEPT ![t] = 0]
  PROVE  TimersInv'
<1>0. TypeOK /\ MapSound /\ KeysRight /\ CurrentLeads /\ TicksSound
  BY DEF TimersInv
<1>1. /\ pc \in {"user", "handler"} /\ pc' = pc /\ now' = now /\ current' = current /\ thrown' = thrown
      /\ overtaken' = overtaken /\ added' = added
      /\ now \in Nat /\ now <= now
  BY <1>0 DEF Method, ofWait, TypeOK
<1>2. OthersKept(t, now) /\ ~HasEntry(timers', t)
  BY <1>0, <1>1, TakenOut
<1>3. /\ \A u \in Timer : u # t => /\ finished'[u] = finished[u] /\ active'[u] = active[u]
                                   /\ once'[u] = once[u] /\ ticks'[u] = ticks[u]
      /\ finished'[t] = d /\ ~active'[t]
      /\ once'[t] => once[t] \/ ticks'[t] = 0
      /\ once'[t] => ticks'[t] <= 1
      /\ once' \in [Timer -> BOOLEAN] /\ ticks' \in [Timer -> Nat]
  <2>1. CASE UNCHANGED <<once, ticks>>
    BY <2>1, <1>0 DEF TypeOK, TicksSound
  <2>2. CASE once' = [once EXCEPT ![t] = TRUE] /\ ticks' = [ticks EXCEPT ![t] = 0]
    BY <2>2, <1>0 DEF TypeOK, TicksSound
  <2> QED
    BY <2>1, <2>2
<1>4. MapSound'
  <2>1. InOrder(timers)' /\ IsUnique(timers)'
    BY <1>2 DEF OthersKept, InOrder, IsUnique
  <2>2. ASSUME NEW u \in Timer PROVE HasEntry(timers', u) <=> u \in added' /\ active'[u]
    BY <1>0, <1>1, <1>2, <1>3 DEF OthersKept, MapSound
  <2> QED
    BY <2>1, <2>2 DEF MapSound, HasEntry
<1>5. TypeOK'
  <2>1. timers' \in Seq([key : Nat, timer : added'])
    BY <1>2, <1>4, MapTypedAgain DEF OthersKept, MapSound, HasEntry
  <2>2. calls' \in 0..MaxCalls
    BY <1>0, TimersAssumption DEF Method, TypeOK
  <2> QED
    BY <1>0, <1>1, <1>3, <2>1, <2>2 DEF TypeOK, Method, ofWait
<1>6. KeysRight' /\ CurrentLeads'
  <2>1. KeysSettled' => KeysSettled /\ (pc = "handler" => now <= now)
    BY <1>1 DEF KeysSettled
  <2>2. \A u \in Timer : u # t => /\ finished'[u] = finished[u] /\ active'[u] = active[u]
                                  /\ once'[u] = once[u] /\ (u \in added' <=> u \in added)
    BY <1>1, <1>3
  <2>3. ~active'[t]
    BY <1>3
  <2> QED
    BY <1>0, <1>1, <1>2, <1>4, <1>5, <2>1, <2>2, <2>3, KeysStay
<1>7. TicksSound'
  <2> SUFFICES ASSUME NEW u \in Timer
               PROVE  /\ active'[u] /\ ~once'[u] => finished'[u] = begin'[u] + ticks'[u] * interval'[u]
                      /\ once'[u] => ticks'[u] <= 1
                      /\ once'[u] /\ active'[u] => ticks'[u] = 0
    BY DEF TicksSound
  <2>1. CASE u = t
    BY <2>1, <1>3
  <2>2. CASE u # t
    BY <2>2, <1>0, <1>3 DEF TicksSound
  <2> QED
    BY <2>1, <2>2
<1> QED
  BY <1>4, <1>5, <1>6, <1>7, MethodKeeps

\* add() and remove(), by a handler or the user.
LEMMA SelectorSetKeeps ==
  ASSUME TimersInv, NEW t \in Timer, Add(t) \/ RemoveTimer(t)
  PROVE  TimersInv'
<1>0. TypeOK /\ MapSound /\ KeysRight /\ CurrentLeads /\ TicksSound
  BY DEF TimersInv
<1>1. /\ pc \in {"user", "handler"} /\ pc' = pc /\ now' = now /\ current' = current /\ thrown' = thrown
      /\ Method /\ UNCHANGED ofTimers
      /\ active' = active /\ finished' = finished /\ once' = once
      /\ now \in Nat /\ finished[t] \in Nat
  BY <1>0 DEF Add, RemoveTimer, Method, ofWait, ofTimers, TypeOK
<1>2. TicksSound'
  BY <1>0, <1>1 DEF TicksSound, ofTimers
<1>3. CASE Add(t)
  <2>1. ~HasEntry(timers, t) /\ timers \in Seq(Entry)
    BY <1>0, <1>3, MapTyped DEF Add, MapSound
  <2>2. OthersKept(t, finished[t]) /\ (HasEntry(timers', t) <=> active[t])
    <3>1. CASE active[t]
      <4> DEFINE r == Insert(timers, finished[t], t)
      <4>1. /\ r \in Seq(Entry) /\ InOrder(r) /\ IsUnique(r)
            /\ \A u \in Timer : HasEntry(r, u) <=> u = t \/ HasEntry(timers, u)
            /\ \A i \in DOMAIN r : r[i].timer = t => r[i].key = finished[t]
            /\ Kept(r, timers, t, finished[t])
        BY <1>0, <1>1, <2>1, Inserted DEF MapSound
      <4>2. timers' = r
        BY <1>3, <3>1 DEF Add
      <4> HIDE DEF r
      <4> QED
        BY <3>1, <4>1, <4>2 DEF OthersKept
    <3>2. CASE ~active[t]
      <4>1. timers' = timers
        BY <1>3, <3>2 DEF Add
      <4> QED
        BY <1>0, <2>1, <3>2, <4>1 DEF OthersKept, Kept, HasEntry, MapSound
    <3> QED
      BY <3>1, <3>2
  <2>3. MapSound'
    <3>1. InOrder(timers)' /\ IsUnique(timers)'
      BY <2>2 DEF OthersKept, InOrder, IsUnique
    <3>2. ASSUME NEW u \in Timer PROVE HasEntry(timers', u) <=> u \in added' /\ active'[u]
      BY <1>0, <1>1, <1>3, <2>2 DEF OthersKept, MapSound, Add
    <3> QED
      BY <3>1, <3>2 DEF MapSound, HasEntry
  <2>4. TypeOK'
    <3>1. timers' \in Seq([key : Nat, timer : added'])
      BY <2>2, <2>3, MapTypedAgain DEF OthersKept, MapSound, HasEntry
    <3>2. calls' \in 0..MaxCalls
      BY <1>0, <1>1, TimersAssumption DEF Method, TypeOK
    <3>3. overtaken' \in BOOLEAN
      BY <1>3 DEF Add
    <3> QED
      BY <1>0, <1>1, <1>3, <3>1, <3>2, <3>3 DEF TypeOK, Method, ofWait, ofTimers, Add
  <2>5. KeysSettled' => KeysSettled /\ (pc = "handler" /\ active[t] => now < finished[t])
    BY <1>0, <1>1, <1>3 DEF Add, KeysSettled, TypeOK
  <2>6. \A u \in Timer : u # t => (u \in added' <=> u \in added)
    BY <1>3 DEF Add
  <2>7. KeysRight' /\ CurrentLeads'
    <3>1. CASE active[t]
      BY <1>0, <1>1, <2>2, <2>3, <2>4, <2>5, <2>6, <3>1, KeysStay
    <3>2. CASE ~active[t]
      <4>1. timers' = timers
        BY <1>3, <3>2 DEF Add
      <4> QED
        BY <1>0, <1>1, <2>5, <2>6, <3>2, <4>1 DEF KeysRight, CurrentLeads, KeyIsRight, KeyIsStale, Updating, TypeOK
    <3> QED
      BY <3>1, <3>2
  <2> QED
    BY <1>1, <1>2, <2>3, <2>4, <2>7, MethodKeeps
<1>4. CASE RemoveTimer(t)
  <2>2. OthersKept(t, now) /\ ~HasEntry(timers', t)
    BY <1>0, <1>1, <1>4, TakenOut DEF RemoveTimer
  <2>3. MapSound'
    <3>1. InOrder(timers)' /\ IsUnique(timers)'
      BY <2>2 DEF OthersKept, InOrder, IsUnique
    <3>2. ASSUME NEW u \in Timer PROVE HasEntry(timers', u) <=> u \in added' /\ active'[u]
      BY <1>0, <1>1, <1>4, <2>2 DEF OthersKept, MapSound, RemoveTimer
    <3> QED
      BY <3>1, <3>2 DEF MapSound, HasEntry
  <2>4. TypeOK'
    <3>1. timers' \in Seq([key : Nat, timer : added'])
      BY <2>2, <2>3, MapTypedAgain DEF OthersKept, MapSound, HasEntry
    <3>2. calls' \in 0..MaxCalls
      BY <1>0, <1>1, TimersAssumption DEF Method, TypeOK
    <3> QED
      BY <1>0, <1>1, <1>4, <3>1, <3>2 DEF TypeOK, Method, ofWait, ofTimers, RemoveTimer
  <2>6. t \notin added' /\ \A u \in Timer : u # t => (u \in added' <=> u \in added)
    BY <1>4 DEF RemoveTimer
  <2>7. KeysRight' /\ CurrentLeads'
    BY <1>0, <1>1, <1>4, <2>2, <2>3, <2>4, <2>6, KeysStay DEF RemoveTimer, KeysSettled
  <2> QED
    BY <1>1, <1>2, <2>3, <2>4, <2>7, MethodKeeps
<1> QED
  BY <1>3, <1>4

\* The methods, with the times that they choose.
LEMMA CallKeeps ==
  ASSUME TimersInv, NEW t \in Timer, Call(t)
  PROVE  TimersInv'
<1>0. /\ TypeOK /\ clock \in Nat /\ now \in Nat /\ now <= clock /\ interval[t] \in Intervals \cup {0}
      /\ finished[t] \in Nat
  BY DEF TimersInv, WaitSound, TypeOK
<1>1. ASSUME NEW i \in Intervals, Start(t, i) \/ After(t, i) PROVE TimersInv'
  <2>1. i \in Nat \ {0}
    BY TimersAssumption
  <2> DEFINE d == clock + i
  <2>2. d \in Nat /\ now < d /\ now <= d
    BY <1>0, <2>1
  <2>3. PICK o \in BOOLEAN : Method /\ Activate(t, i, d, o)
    BY <1>1 DEF Start, After
  <2> HIDE DEF d
  <2> QED
    BY <2>2, <2>3, ActivateKeeps
<1>2. ASSUME NEW i \in Intervals, NEW s \in Moments, StartAt(t, s, i) PROVE TimersInv'
  <2>1. i \in Nat \ {0} /\ s \in Nat
    BY TimersAssumption
  <2> DEFINE d == IF s > clock THEN s ELSE s + ((clock - s) \div i + 1) * i
  <2>2. d \in Nat /\ clock < d
    <3>1. CASE s > clock
      BY <3>1, <2>1
    <3>2. CASE ~(s > clock)
      <4>1. clock - s \in Nat
        BY <3>2, <2>1, <1>0
      <4> DEFINE m == ((clock - s) \div i + 1) * i
      <4>2. m \in Nat /\ m > clock - s
        BY <4>1, <2>1, NextMultiple
      <4>3. d = s + m
        BY <3>2
      <4> HIDE DEF m, d
      <4> QED
        BY <4>2, <4>3, <2>1, <1>0
    <3> QED
      BY <3>1, <3>2
  <2>3. Method /\ Activate(t, i, d, FALSE)
    BY <1>2 DEF StartAt
  <2> HIDE DEF d
  <2>4. now <= d /\ now < d
    BY <2>2, <1>0
  <2> QED
    BY <2>2, <2>3, <2>4, ActivateKeeps
<1>3. ASSUME NEW d \in Moments, At(t, d) PROVE TimersInv'
  <2>1. d \in Nat
    BY TimersAssumption
  <2>2. CASE d >= clock
    <3>1. Method /\ Activate(t, interval[t], d, TRUE)
      <4>1. ~(d < clock)
        BY <2>1, <2>2, <1>0
      <4> QED
        BY <1>3, <4>1, Zenon DEF At
    <3>2. now <= d
      BY <2>1, <2>2, <1>0
    <3> QED
      BY <3>1, <3>2, <2>1, <1>0, ActivateKeeps
  <2>3. CASE ~(d >= clock)
    <3> DEFINE f == IF active[t] THEN 0 ELSE finished[t]
    <3>1. /\ Method /\ active' = [active EXCEPT ![t] = FALSE]
          /\ timers' = Stopped(t) /\ UNCHANGED <<added, interval, begin, overtaken>>
          /\ once' = [once EXCEPT ![t] = TRUE] /\ ticks' = [ticks EXCEPT ![t] = 0]
      BY <1>3, <2>1, <2>3, <1>0 DEF At
    <3>2. finished' = [finished EXCEPT ![t] = f]
      BY <1>3, <2>1, <2>3, <1>0 DEF At
    <3>3. f \in Nat
      BY <1>0
    <3> HIDE DEF f
    <3> QED
      BY <3>1, <3>2, <3>3, DeactivateKeeps
  <2> QED
    BY <2>2, <2>3
<1>4. CASE Stop(t)
  BY <1>4, DeactivateKeeps DEF Stop
<1>5. CASE Add(t) \/ RemoveTimer(t)
  BY <1>5, SelectorSetKeeps
<1> QED
  BY <1>1, <1>2, <1>3, <1>4, <1>5 DEF Call

-----------------------------------------------------------------------------
(* The steps of waitUntil() and of the clock preserve the invariant.       *)

\* Nothing but where waitUntil() is, and its variables, changes.
MapStays == UNCHANGED <<added, ofTimers, timers, calls, history>>

LEMMA MapStaysKeeps ==
  ASSUME TimersInv, MapStays
  PROVE  MapSound' /\ TicksSound'
  BY DEF TimersInv, MapStays, ofTimers, MapSound, TicksSound, InOrder, IsUnique, HasEntry

\* The types that such a step keeps.
LEMMA MapStaysTyped ==
  ASSUME TypeOK, MapStays,
         clock' \in 0..MaxTime, pc' \in {"user", "begin", "while", "update", "handler", "rekey", "sleep"},
         current' \in Timer \cup {NoTimer}, pc' \in {"update", "handler"} => current' \in Timer,
         now' \in 0..MaxTime, ready' \in BOOLEAN, again' \in BOOLEAN,
         {lowest', limit', until'} \subseteq Nat \cup {WaitInfinite}
  PROVE  TypeOK'
  BY DEF TypeOK, MapStays, ofTimers, history

\* waitUntil() is called.
LEMMA WaitUntilKeeps ==
  ASSUME TimersInv, NEW t \in Limits \cup {WaitInfinite}, WaitUntil(t)
  PROVE  TimersInv'
<1>0. TypeOK /\ KeysRight /\ WaitSound
  BY DEF TimersInv
<1>1. MapStays /\ pc = "user" /\ pc' = "begin"
  BY DEF WaitUntil, MapStays
<1>2. TypeOK'
  <2>1. t \in Nat \cup {WaitInfinite}
    BY TimersAssumption
  <2> QED
    BY <1>0, <1>1, <2>1, MapStaysTyped DEF WaitUntil, TypeOK
<1>3. KeysRight'
  BY <1>0, <1>1 DEF WaitUntil, KeysRight, KeyIsRight, KeyIsStale, Updating, KeysSettled, ofTimers, history
<1>4. WaitSound'
  BY <1>0, <1>1 DEF WaitUntil, WaitSound, Updating, ofTimers
<1> QED
  BY <1>1, <1>2, <1>3, <1>4, MapStaysKeeps DEF TimersInv, CurrentLeads, NoneDue, NoTimerLate, InTime

\* waitUntil() is left when no timer is updated, or by an exception.
LEMMA LeaveKeeps ==
  ASSUME TimersInv, Leave, UNCHANGED overtaken, thrown' \in BOOLEAN, thrown' \/ (~Updating /\ thrown' = thrown)
  PROVE  TimersInv'
<1>0. TypeOK /\ MapSound /\ KeysRight /\ TicksSound /\ WaitSound
  BY DEF TimersInv
<1>1. TypeOK'
  <2>1. 0 \in 0..MaxTime
    BY TimersAssumption
  <2> QED
    BY <1>0, <2>1 DEF Leave, TypeOK, ofTimers
<1>2. MapSound' /\ TicksSound'
  BY <1>0 DEF Leave, ofTimers, MapSound, TicksSound, InOrder, IsUnique, HasEntry
<1>3. KeysRight'
  BY <1>0 DEF Leave, KeysRight, KeyIsRight, KeyIsStale, Updating, KeysSettled, ofTimers
<1>4. WaitSound'
  BY <1>0 DEF Leave, WaitSound, Updating, TypeOK, WaitInfinite
<1> QED
  BY <1>1, <1>2, <1>3, <1>4 DEF Leave, TimersInv, CurrentLeads, NoneDue, NoTimerLate, InTime

\* updateTimer() looks at the clock.
LEMMA UpdateTimerKeeps ==
  ASSUME TimersInv, UpdateTimer
  PROVE  TimersInv'
<1>0. TypeOK /\ MapSound /\ KeysRight /\ WaitSound
  BY DEF TimersInv
<1>1. MapStays /\ pc = "begin" /\ pc' = "while" /\ clock' = clock /\ again' = again /\ lowest' = lowest
  BY DEF UpdateTimer, MapStays
<1>2. timers \in Seq(Entry) /\ clock \in Nat
  <2>1. timers \in Seq(Entry)
    BY <1>0, MapTyped
  <2>2. clock \in Nat
    BY <1>0, TimersAssumption DEF TypeOK
  <2> QED
    BY <2>1, <2>2
<1>3. TypeOK'
  <2>1. ready' \in BOOLEAN /\ now' \in 0..MaxTime
    <3>1. CASE timers = <<>> /\ ready' = FALSE /\ UNCHANGED now
      BY <1>0, <3>1 DEF TypeOK
    <3>2. CASE now' = clock /\ ready' = (clock >= finished[timers[1].timer])
      <4>1. ready' \in BOOLEAN
        BY <3>2
      <4> QED
        BY <1>0, <3>2, <4>1 DEF TypeOK
    <3> QED
      BY <3>1, <3>2 DEF UpdateTimer
  <2> QED
    BY <1>0, <1>1, <2>1, MapStaysTyped DEF UpdateTimer, TypeOK
<1>4. KeysRight'
  BY <1>0, <1>1 DEF MapStays, KeysRight, KeyIsRight, KeyIsStale, Updating, KeysSettled, ofTimers, history
<1>5. WaitSound'
  <2>1. now' <= clock
    BY <1>0, <1>2 DEF UpdateTimer, WaitSound
  <2>2. again => ready'
    BY <1>0, <1>1 DEF UpdateTimer, WaitSound
  <2> QED
    BY <1>0, <1>1, <2>1, <2>2 DEF WaitSound, Updating
<1> QED
  BY <1>1, <1>3, <1>4, <1>5, MapStaysKeeps DEF TimersInv, CurrentLeads, NoneDue, NoTimerLate, InTime

\* The first timer is due: it is active, and it has the first entry.
LEMMA TimerIsDueKeeps ==
  ASSUME TimersInv, TimerIsDue
  PROVE  TimersInv'
<1>0. TypeOK /\ MapSound /\ KeysRight /\ WaitSound
  BY DEF TimersInv
<1>1. /\ MapStays /\ pc = "while" /\ pc' \in {"update", "rekey"} /\ now' = now /\ current' = timers[1].timer
      /\ timers # <<>>
  BY DEF TimerIsDue, MapStays
<1>2. timers \in Seq(Entry)
  BY <1>0, MapTyped
<1>3. /\ Len(timers) \in Nat /\ DOMAIN timers = 1..Len(timers) /\ timers[1].timer \in Timer
  BY <1>1, <1>2, EntryFacts
<1>4. TypeOK'
  BY <1>0, <1>1, <1>3, MapStaysTyped DEF TimerIsDue, TypeOK
<1>5. KeysRight'
  BY <1>0, <1>1 DEF MapStays, KeysRight, KeyIsRight, KeyIsStale, Updating, KeysSettled, ofTimers, history
<1>6. CurrentLeads'
  BY <1>1 DEF MapStays, CurrentLeads
<1>7. WaitSound'
  BY <1>0, <1>1 DEF TimerIsDue, WaitSound, Updating
<1> QED
  BY <1>1, <1>4, <1>5, <1>6, <1>7, MapStaysKeeps DEF TimersInv, NoneDue, NoTimerLate, InTime

\* update() moves its timer on, whose entry is the first and keeps its key.
LEMMA UpdateKeeps ==
  ASSUME TimersInv, Update
  PROVE  TimersInv'
<1> DEFINE t == current
           d == finished[t] + interval[t]
<1>0. TypeOK /\ MapSound /\ KeysRight /\ CurrentLeads /\ TicksSound /\ WaitSound
  BY DEF TimersInv
<1>1. /\ pc = "update" /\ pc' = "handler" /\ active[t] /\ finished[t] <= now /\ t \in Timer
      /\ UNCHANGED <<clock, added, interval, once, begin, again, current, now, ready, lowest, limit,
                     until, calls, history>>
      /\ finished[t] \in Nat /\ interval[t] \in Nat /\ now \in Nat /\ once[t] \in BOOLEAN
  <2>1. pc = "update" /\ t \in Timer
    BY <1>0 DEF Update, UpdateTo, TypeOK
  <2>2. finished[t] \in Nat /\ now \in Nat /\ once[t] \in BOOLEAN /\ interval[t] \in Intervals \cup {0}
    BY <1>0, <2>1 DEF TypeOK
  <2>3. interval[t] \in Nat
    <3>1. Intervals \subseteq Nat /\ 0 \in Nat
      BY TimersAssumption
    <3>2. \A i \in Intervals \cup {0} : i \in Nat
      BY <3>1
    <3> QED
      BY <2>2, <3>2
  <2>4. active[t] /\ now >= finished[t] /\ pc' = "handler"
    BY DEF Update, UpdateTo
  <2>5. UNCHANGED <<clock, added, interval, once, begin, again, current, now, ready, lowest, limit,
                    until, calls, history>>
    BY DEF Update, UpdateTo
  <2> QED
    BY <2>1, <2>2, <2>3, <2>4, <2>5
<1>2. /\ d \in Nat
      /\ ticks' = [ticks EXCEPT ![t] = @ + 1]
      /\ active' = [active EXCEPT ![t] = ~once[t]]
      /\ finished' = [finished EXCEPT ![t] = IF once[t] THEN 0 ELSE d]
      /\ timers' = IF once[t] THEN TimerChanged(timers, t, FALSE, 0) ELSE timers
  BY <1>0, <1>1 DEF Update, UpdateTo
<1> HIDE DEF d
<1>3. /\ \A u \in Timer : u # t => /\ finished'[u] = finished[u] /\ active'[u] = active[u]
                                   /\ ticks'[u] = ticks[u]
      /\ finished'[t] = (IF once[t] THEN 0 ELSE d) /\ active'[t] = ~once[t] /\ ticks'[t] = ticks[t] + 1
      /\ finished' \in [Timer -> Nat] /\ active' \in [Timer -> BOOLEAN] /\ ticks' \in [Timer -> Nat]
  <2>1. finished \in [Timer -> Nat] /\ active \in [Timer -> BOOLEAN] /\ ticks \in [Timer -> Nat]
    BY <1>0 DEF TypeOK
  <2>2. (IF once[t] THEN 0 ELSE d) \in Nat /\ (~once[t]) \in BOOLEAN /\ ticks[t] + 1 \in Nat
    BY <1>1, <1>2, <2>1
  <2> QED
    BY <1>1, <1>2, <2>1, <2>2
<1>4. timers \in Seq(Entry)
  BY <1>0, MapTyped
<1>5. TicksSound'
  <2> SUFFICES ASSUME NEW u \in Timer
               PROVE  /\ active'[u] /\ ~once'[u] => finished'[u] = begin'[u] + ticks'[u] * interval'[u]
                      /\ once'[u] => ticks'[u] <= 1
                      /\ once'[u] /\ active'[u] => ticks'[u] = 0
    BY DEF TicksSound
  <2>1. CASE u = t
    <3>1. CASE once[t]
      <4>1. ticks[t] = 0 /\ once' = once
        BY <3>1, <1>0, <1>1 DEF TicksSound
      <4>2. ticks'[t] = 1 /\ ~active'[t]
        <5>1. ticks'[t] = ticks[t] + 1 /\ active'[t] = ~once[t]
          BY <1>3
        <5>2. ~active'[t]
          BY <3>1, <5>1, Zenon
        <5> QED
          BY <4>1, <5>1, <5>2
      <4> QED
        BY <2>1, <3>1, <4>1, <4>2
    <3>2. CASE ~once[t]
      <4>1. finished[t] = begin[t] + ticks[t] * interval[t]
        BY <3>2, <1>0, <1>1 DEF TicksSound
      <4>2. begin[t] \in Nat /\ ticks[t] \in Nat /\ interval[t] \in Nat
        BY <1>0, <1>1 DEF TypeOK
      <4>3. (ticks[t] + 1) * interval[t] = ticks[t] * interval[t] + interval[t]
        BY <4>2
      <4>4. ticks[t] * interval[t] \in Nat
        BY <4>2
      <4>5. d = begin[t] + (ticks[t] + 1) * interval[t]
        BY <4>1, <4>2, <4>3, <4>4 DEF d
      <4> QED
        BY <2>1, <3>2, <4>5, <1>1, <1>3
    <3> QED
      BY <3>1, <3>2
  <2>2. CASE u # t
    BY <2>2, <1>0, <1>1, <1>3 DEF TicksSound
  <2> QED
    BY <2>1, <2>2
<1>6. WaitSound'
  BY <1>0, <1>1 DEF WaitSound, Updating
<1>7. CASE once[t]
  <2>1. OthersKept(t, now) /\ ~HasEntry(timers', t)
    <3>1. timers' = Erase(timers, t) \/ timers' = Stopped(t)
      BY <1>1, <1>2, <1>7 DEF Stopped
    <3> QED
      BY <3>1, <1>0, <1>1, TakenOut
  <2>2. MapSound'
    <3>1. InOrder(timers)' /\ IsUnique(timers)'
      BY <2>1 DEF OthersKept, InOrder, IsUnique
    <3>2. ASSUME NEW u \in Timer PROVE HasEntry(timers', u) <=> u \in added' /\ active'[u]
      BY <1>0, <1>1, <1>3, <1>7, <2>1 DEF OthersKept, MapSound
    <3> QED
      BY <3>1, <3>2 DEF MapSound, HasEntry
  <2>3. TypeOK'
    <3>1. timers' \in Seq([key : Nat, timer : added'])
      BY <2>1, <2>2, MapTypedAgain DEF OthersKept, MapSound, HasEntry
    <3> QED
      BY <1>0, <1>1, <1>3, <3>1 DEF TypeOK, history
  <2>4. KeysRight'
    <3> SUFFICES ASSUME KeysSettled', NEW i \in DOMAIN timers'
                 PROVE  KeyIsRight(timers[i])'
      BY DEF KeysRight
    <3>1. KeysSettled
      BY <1>1 DEF KeysSettled, history
    <3>2. timers'[i].timer # t /\ timers'[i].timer \in Timer
      BY <2>1, EntryFacts DEF OthersKept, HasEntry
    <3>3. PICK j \in DOMAIN timers : timers'[i] = timers[j]
      BY <2>1, <3>2 DEF OthersKept, Kept
    <3>4. KeyIsRight(timers[j])
      BY <1>0, <3>1, <3>2, <3>3 DEF KeysRight, KeyIsStale
    <3> QED
      BY <1>3, <3>2, <3>3, <3>4 DEF KeyIsRight
  <2> QED
    BY <1>1, <1>3, <1>5, <1>6, <1>7, <2>2, <2>3, <2>4
    DEF TimersInv, CurrentLeads, NoneDue, NoTimerLate, InTime
<1>8. CASE ~once[t]
  <2>1. timers' = timers /\ active'[t] /\ finished'[t] = d
    BY <1>2, <1>3, <1>8
  <2>2. MapSound'
    <3>1. \A u \in Timer : active'[u] <=> active[u]
      BY <1>1, <1>3, <2>1
    <3> QED
      BY <1>0, <1>1, <2>1, <3>1 DEF MapSound, HasEntry, InOrder, IsUnique
  <2>3. TypeOK'
    BY <1>0, <1>1, <1>3, <2>1 DEF TypeOK, history
  <2>4. KeysRight'
    <3> SUFFICES ASSUME KeysSettled', NEW i \in DOMAIN timers
                 PROVE  KeyIsRight(timers[i])' \/ (i = 1 /\ KeyIsStale(timers[i])')
      BY <2>1 DEF KeysRight
    <3>1. KeysSettled
      BY <1>1 DEF KeysSettled, history
    <3>2. /\ DOMAIN timers = 1..Len(timers) /\ Len(timers) \in Nat
          /\ timers[i].timer \in Timer
      BY <1>4, EntryFacts
    <3>3. KeyIsRight(timers[i]) \/ (i = 1 /\ KeyIsStale(timers[i]))
      BY <1>0, <3>1 DEF KeysRight
    <3>4. CASE timers[i].timer = t
      <4>1. t \in added
        BY <1>0, <1>1, <3>4 DEF MapSound, HasEntry
      <4>2. timers[1].timer = t
        BY <1>0, <1>1, <1>8, <3>1, <4>1 DEF CurrentLeads
      <4>3. i = 1
        BY <1>0, <3>2, <3>4, <4>2 DEF MapSound, IsUnique
      <4>4. timers[i].key <= now
        BY <1>1, <3>3, <3>4 DEF KeyIsRight, KeyIsStale
      <4> QED
        BY <1>1, <2>1, <3>4, <4>3, <4>4 DEF KeyIsStale, Updating
    <3>5. CASE timers[i].timer # t
      BY <1>3, <2>1, <3>2, <3>3, <3>5 DEF KeyIsRight, KeyIsStale
    <3> QED
      BY <3>4, <3>5
  <2>5. CurrentLeads'
    <3>1. KeysSettled' => KeysSettled
      BY <1>1 DEF KeysSettled, history
    <3> QED
      BY <1>0, <1>1, <1>8, <2>1, <3>1 DEF CurrentLeads
  <2> QED
    BY <1>1, <1>5, <1>6, <2>2, <2>3, <2>4, <2>5 DEF TimersInv, NoneDue, NoTimerLate, InTime
<1> QED
  BY <1>1, <1>7, <1>8

\* A step that goes on with the map as it was.
LEMMA GoOnKeeps ==
  ASSUME TimersInv, HandlerReturns \/ UpdateReturns
  PROVE  TimersInv'
<1>0. TypeOK /\ KeysRight /\ CurrentLeads /\ WaitSound
  BY DEF TimersInv
<1>1. /\ MapStays /\ UNCHANGED <<clock, again, current, now, ready, lowest, limit, until>>
      /\ \/ pc = "handler" /\ pc' = "update"
         \/ pc = "update" /\ pc' = "rekey"
  BY DEF HandlerReturns, UpdateReturns, GoOn, MapStays
<1>2. TypeOK'
  BY <1>0, <1>1, MapStaysTyped DEF TypeOK
<1>3. KeysRight'
  BY <1>0, <1>1 DEF MapStays, KeysRight, KeyIsRight, KeyIsStale, Updating, KeysSettled, ofTimers, history
<1>4. CurrentLeads'
  BY <1>0, <1>1 DEF MapStays, CurrentLeads, KeysSettled, ofTimers, history
<1>5. WaitSound'
  BY <1>0, <1>1 DEF WaitSound, Updating
<1> QED
  BY <1>1, <1>2, <1>3, <1>4, <1>5, MapStaysKeeps DEF TimersInv, NoneDue, NoTimerLate, InTime

\* The first entry gets its new key: all keys are right again.
LEMMA RekeyKeeps ==
  ASSUME TimersInv, Rekey
  PROVE  TimersInv'
<1>0. TypeOK /\ MapSound /\ KeysRight /\ TicksSound /\ WaitSound
  BY DEF TimersInv
<1>1. /\ pc = "rekey" /\ pc' = "while"
      /\ UNCHANGED <<clock, added, ofTimers, again, current, now, ready, lowest, limit, until, calls, history>>
  BY DEF Rekey, GoOn
<1>2. TicksSound' /\ WaitSound'
  BY <1>0, <1>1 DEF TicksSound, ofTimers, WaitSound, Updating
<1>3. /\ timers' \in Seq(Entry) /\ InOrder(timers') /\ IsUnique(timers')
      /\ \A u \in Timer : HasEntry(timers', u) <=> HasEntry(timers, u)
      /\ KeysSettled => \A i \in DOMAIN timers' : KeyIsRight(timers'[i])
  <2>0. timers \in Seq(Entry)
    BY <1>0, MapTyped
  <2>1. CASE timers = <<>>
    <3>1. timers' = timers /\ DOMAIN timers = {}
      BY <2>1 DEF Rekey
    <3> QED
      BY <1>0, <2>0, <3>1 DEF MapSound, HasEntry
  <2>2. CASE timers # <<>>
    <3> DEFINE m == Tail(timers)
               t == timers[1].timer
               r == Insert(m, finished[t], t)
    <3>1. /\ Len(timers) \in Nat /\ DOMAIN timers = 1..Len(timers) /\ 1 \in DOMAIN timers
          /\ \A i \in 1..Len(timers) : timers[i] \in Entry /\ timers[i].key \in Nat /\ timers[i].timer \in Timer
      BY <2>0, <2>2, EntryFacts
    <3>2. /\ m \in Seq(Entry) /\ DOMAIN m = 1..Len(timers)-1
          /\ \A i \in DOMAIN m : i + 1 \in DOMAIN timers /\ m[i] = timers[i + 1]
          /\ \A j \in DOMAIN timers : j # 1 => j - 1 \in DOMAIN m /\ timers[j] = m[j - 1]
      BY <2>0, <2>2, <3>1
    <3>3. timers' = r /\ t \in Timer /\ finished[t] \in Nat
      BY <1>0, <2>2, <3>1 DEF Rekey, TypeOK
    <3> HIDE DEF m
    <3>4. InOrder(m) /\ IsUnique(m)
      <4>1. \A i, j \in DOMAIN m : i < j => i + 1 < j + 1
        BY <3>1, <3>2
      <4>2. \A i, j \in DOMAIN m : i + 1 = j + 1 => i = j
        BY <3>1, <3>2
      <4> QED
        BY <1>0, <3>2, <4>1, <4>2 DEF MapSound, InOrder, IsUnique
    <3>5. ~HasEntry(m, t)
      BY <1>0, <3>1, <3>2 DEF MapSound, IsUnique, HasEntry
    <3>6. \A u \in Timer : u # t => (HasEntry(m, u) <=> HasEntry(timers, u))
      BY <3>1, <3>2 DEF HasEntry
    <3>7. /\ r \in Seq(Entry) /\ InOrder(r) /\ IsUnique(r)
          /\ \A u \in Timer : HasEntry(r, u) <=> u = t \/ HasEntry(m, u)
          /\ \A i \in DOMAIN r : r[i].timer = t => r[i].key = finished[t]
          /\ Kept(r, m, t, finished[t])
      <4> DEFINE k == finished[t]
      <4>1. m \in Seq(Entry) /\ t \in Timer /\ k \in Nat /\ InOrder(m) /\ IsUnique(m) /\ ~HasEntry(m, t)
        BY <3>2, <3>3, <3>4, <3>5
      <4> HIDE DEF t, k
      <4>2. LET q == Insert(m, k, t) IN
            /\ q \in Seq(Entry) /\ InOrder(q) /\ IsUnique(q)
            /\ \A u \in Timer : HasEntry(q, u) <=> u = t \/ HasEntry(m, u)
            /\ \A i \in DOMAIN q : q[i].timer = t => q[i].key = k
            /\ Kept(q, m, t, k)
        BY <4>1, Inserted
      <4> QED
        BY <4>2 DEF k
    <3>8. HasEntry(timers, t)
      BY <3>1 DEF HasEntry
    <3>9. ASSUME KeysSettled, NEW i \in DOMAIN r PROVE KeyIsRight(r[i])
      <4>1. CASE r[i].timer = t
        BY <3>7, <4>1 DEF KeyIsRight
      <4>2. CASE r[i].timer # t
        <5>1. PICK j \in DOMAIN m : r[i] = m[j]
          BY <3>7, <4>2 DEF Kept
        <5>2. j + 1 \in DOMAIN timers /\ j + 1 # 1 /\ r[i] = timers[j + 1]
          BY <3>1, <3>2, <5>1
        <5> QED
          BY <1>0, <3>9, <5>2 DEF KeysRight
      <4> QED
        BY <4>1, <4>2
    <3> HIDE DEF r, t
    <3> QED
      BY <3>3, <3>6, <3>7, <3>8, <3>9
  <2> QED
    BY <2>1, <2>2
<1>4. MapSound'
  BY <1>0, <1>1, <1>3 DEF MapSound, ofTimers, HasEntry, InOrder, IsUnique
<1>5. TypeOK'
  <2>1. timers' \in Seq([key : Nat, timer : added'])
    BY <1>3, <1>4, MapTypedAgain DEF MapSound, HasEntry
  <2> QED
    BY <1>0, <1>1, <2>1 DEF TypeOK, ofTimers, history
<1>6. KeysRight'
  BY <1>1, <1>3 DEF KeysRight, KeyIsRight, KeysSettled, ofTimers, history
<1> QED
  BY <1>1, <1>2, <1>4, <1>5, <1>6 DEF TimersInv, CurrentLeads, NoneDue, NoTimerLate, InTime

\* updateTimer() returns, and the selector goes to sleep or waitUntil() is left.
LEMMA UpdatedKeeps ==
  ASSUME TimersInv, Updated
  PROVE  TimersInv'
<1>0. TypeOK /\ MapSound /\ KeysRight /\ WaitSound
  BY DEF TimersInv
<1>1. CASE ready
  <2>1. Leave /\ UNCHANGED history /\ ~Updating
    BY <1>1 DEF Updated, Updating
  <2> QED
    BY <1>0, <2>1, LeaveKeeps DEF TypeOK, history
<1>2. CASE ~ready
  <2>1. /\ MapStays /\ pc = "while" /\ pc' = "sleep"
        /\ UNCHANGED <<clock, current, now, ready, limit>>
        /\ timers # <<>> => now < finished[timers[1].timer]
        /\ lowest' = NextTimeout
        /\ again' = (again \/ ~NoTimerBefore)
        /\ until' = IF again' THEN NextTimeout ELSE limit
    BY <1>2 DEF Updated, MapStays
  <2>2. ~again /\ lowest = WaitInfinite
    BY <1>0, <1>2, <2>1 DEF WaitSound
  <2>3. timers \in Seq(Entry)
    BY <1>0, MapTyped
  <2>4. timers # <<>> => finished[timers[1].timer] \in Nat
    <3>1. timers # <<>> => timers[1].timer \in Timer
      BY <2>3, EntryFacts
    <3> QED
      BY <1>0, <3>1 DEF TypeOK
  <2>5. /\ timers = <<>> => NextTimeout = -1
        /\ timers # <<>> => NextTimeout = finished[timers[1].timer]
        /\ limit \in Nat \cup {-1}
    BY <1>0, <2>2 DEF NextTimeout, TypeOK, WaitInfinite
  <2>6. /\ again' => timers # <<>> /\ until' = finished[timers[1].timer]
        /\ again' /\ limit >= 0 => until' <= limit
        /\ ~again' => until' = limit /\ (timers # <<>> => limit >= 0 /\ limit < finished[timers[1].timer])
    <3>1. timers = <<>> => NoTimerBefore
      BY <2>5 DEF NoTimerBefore
    <3>2. timers # <<>> /\ NoTimerBefore => limit >= 0 /\ limit < finished[timers[1].timer]
      BY <2>4, <2>5 DEF NoTimerBefore
    <3>3. timers # <<>> /\ ~NoTimerBefore /\ limit >= 0 => finished[timers[1].timer] <= limit
      BY <2>4, <2>5 DEF NoTimerBefore
    <3>4. again' <=> ~NoTimerBefore
      BY <2>1, <2>2, Zenon
    <3>5. CASE NoTimerBefore
      <4>1. ~again' /\ until' = limit
        BY <2>1, <3>4, <3>5
      <4> QED
        BY <3>2, <3>5, <4>1
    <3>6. CASE ~NoTimerBefore
      <4>1. again' /\ timers # <<>> /\ until' = finished[timers[1].timer]
        BY <2>1, <2>5, <3>1, <3>4, <3>6
      <4> QED
        BY <3>3, <3>6, <4>1
    <3> QED
      BY <3>5, <3>6
  <2>7. TypeOK'
    <3>1. {lowest', limit', until'} \subseteq Nat \cup {WaitInfinite}
      BY <2>1, <2>4, <2>5, <2>6 DEF WaitInfinite
    <3>2. again' \in BOOLEAN
      BY <2>1
    <3> QED
      BY <1>0, <2>1, <3>1, <3>2, MapStaysTyped DEF TypeOK
  <2>8. KeysRight'
    BY <1>0, <2>1 DEF MapStays, KeysRight, KeyIsRight, KeyIsStale, Updating, KeysSettled, ofTimers, history
  <2>9. WaitSound'
    BY <1>0, <2>1, <2>6 DEF WaitSound, Updating, MapStays, ofTimers
  <2>10. ASSUME KeysSettled', NEW t \in added', active'[t]
         PROVE  now' < finished'[t] /\ until' >= 0 /\ until' <= finished'[t]
    <3>1. t \in added /\ active[t] /\ KeysSettled /\ finished' = finished /\ now' = now
      BY <2>1, <2>10 DEF MapStays, ofTimers, history, KeysSettled
    <3>2. timers # <<>> /\ finished[timers[1].timer] <= finished[t]
      BY <1>0, <2>1, <3>1, FirstIsNext DEF Updating
    <3>3. finished[t] \in Nat /\ now \in Nat
      BY <1>0, <3>1 DEF TypeOK
    <3>4. now < finished[t]
      BY <2>1, <2>4, <3>2, <3>3
    <3>5. until' >= 0 /\ until' <= finished[t]
      <4>1. CASE again'
        BY <2>4, <2>6, <3>2, <3>3, <4>1
      <4>2. CASE ~again'
        BY <2>4, <2>5, <2>6, <3>2, <3>3, <4>2
      <4> QED
        BY <4>1, <4>2
    <3> QED
      BY <3>1, <3>4, <3>5
  <2>11. InTime'
    <3>1. CASE again'
      BY <2>1, <2>4, <2>6, <3>1 DEF InTime
    <3>2. CASE ~again'
      BY <2>1, <2>5, <2>6, <3>2 DEF InTime
    <3> QED
      BY <3>1, <3>2
  <2> QED
    BY <2>1, <2>7, <2>8, <2>9, <2>10, <2>11, MapStaysKeeps DEF TimersInv, CurrentLeads, NoneDue, NoTimerLate
<1> QED
  BY <1>1, <1>2

\* The time of the poll has come: the loop of waitUntil() goes on, and its
\* timer is due, or waitUntil() is left.
LEMMA PollTimeoutKeeps ==
  ASSUME TimersInv, PollTimeout
  PROVE  TimersInv'
<1>0. TypeOK /\ KeysRight /\ WaitSound
  BY DEF TimersInv
<1>1. CASE again /\ GoOn("sleep", "begin") /\ UNCHANGED timers
  <2>1. /\ MapStays /\ pc = "sleep" /\ pc' = "begin" /\ again /\ clock >= until
        /\ UNCHANGED <<clock, again, current, now, ready, lowest, limit, until>>
    BY <1>1 DEF PollTimeout, GoOn, MapStays
  <2>2. TypeOK'
    BY <1>0, <2>1, MapStaysTyped DEF TypeOK
  <2>3. KeysRight'
    BY <1>0, <2>1 DEF MapStays, KeysRight, KeyIsRight, KeyIsStale, Updating, KeysSettled, ofTimers, history
  <2>4. WaitSound'
    BY <1>0, <2>1 DEF WaitSound, Updating, MapStays, ofTimers
  <2> QED
    BY <2>1, <2>2, <2>3, <2>4, MapStaysKeeps DEF TimersInv, CurrentLeads, NoneDue, NoTimerLate, InTime
<1>2. CASE Leave /\ UNCHANGED history
  BY <1>0, <1>2, LeaveKeeps DEF PollTimeout, Updating, TypeOK, history
<1> QED
  BY <1>1, <1>2 DEF PollTimeout

\* Time passes.
LEMMA TickKeeps ==
  ASSUME TimersInv, Tick
  PROVE  TimersInv'
<1>0. TypeOK /\ WaitSound
  BY DEF TimersInv
<1>1. /\ UNCHANGED <<added, ofTimers, timers, ofWait, calls, history>>
      /\ clock' = clock + 1 /\ clock < MaxTime /\ clock \in 0..MaxTime
  BY <1>0 DEF Tick, TypeOK
<1>2. clock' \in 0..MaxTime /\ (\A n \in Nat : n <= clock => n <= clock') /\ MapStays
  BY <1>1, TimersAssumption DEF MapStays
<1>3. TypeOK'
  BY <1>0, <1>1, <1>2, MapStaysTyped DEF ofWait, TypeOK
<1>4. WaitSound'
  <2>1. again /\ pc = "begin" => clock' >= finished[timers[1].timer]
    <3>1. ASSUME again, pc = "begin" PROVE clock' >= finished[timers[1].timer]
      <4>1. timers \in Seq(Entry) /\ timers # <<>>
        BY <1>0, <3>1, MapTyped DEF WaitSound
      <4>2. finished[timers[1].timer] \in Nat
        <5>1. timers[1].timer \in Timer
          BY <4>1, EntryFacts
        <5> QED
          BY <1>0, <5>1 DEF TypeOK
      <4> QED
        BY <1>0, <1>1, <3>1, <4>2 DEF WaitSound
    <3> QED
      BY <3>1
  <2> QED
    BY <1>0, <1>1, <1>2, <2>1 DEF WaitSound, ofWait, ofTimers, Updating, TypeOK
<1> QED
  BY <1>1, <1>2, <1>3, <1>4, MapStaysKeeps
  DEF TimersInv, KeysRight, KeyIsRight, KeyIsStale, CurrentLeads, NoneDue, NoTimerLate, InTime, Updating,
      KeysSettled, ofWait, ofTimers, history

-----------------------------------------------------------------------------
(* The theorems.                                                           *)

\* Every step keeps the invariant.
LEMMA NextKeeps ==
  ASSUME TimersInv, [Next]_vars
  PROVE  TimersInv'
<1>0. TypeOK
  BY DEF TimersInv
<1>1. ASSUME NEW t \in Timer, Call(t) PROVE TimersInv'
  BY <1>1, CallKeeps
<1>2. ASSUME NEW t \in Limits \cup {WaitInfinite}, WaitUntil(t) PROVE TimersInv'
  BY <1>2, WaitUntilKeeps
<1>3. CASE Step
  BY <1>3, UpdateTimerKeeps, TimerIsDueKeeps, UpdateKeeps, GoOnKeeps, RekeyKeeps, UpdatedKeeps, PollTimeoutKeeps
  DEF Step
<1>4. CASE HandlerThrows
  BY <1>4, LeaveKeeps DEF HandlerThrows
<1>5. CASE PollReady
  BY <1>0, <1>5, LeaveKeeps DEF PollReady, Updating, TypeOK, history
<1>6. CASE Tick
  BY <1>6, TickKeeps
<1>7. CASE UNCHANGED vars
  BY <1>7 DEF vars, ofTimers, ofWait, history, TimersInv, TypeOK, MapSound, InOrder, IsUnique, HasEntry, KeysRight,
              KeyIsRight, KeyIsStale, Updating, CurrentLeads, TicksSound, WaitSound, NoneDue, NoTimerLate, InTime,
              KeysSettled
<1> QED
  BY <1>1, <1>2, <1>3, <1>4, <1>5, <1>6, <1>7 DEF Next

\* Timers and selectors begin in a state of the invariant.
LEMMA InitHolds ==
  ASSUME Init
  PROVE  TimersInv
<1>1. TypeOK
  <2>1. /\ active \in [Timer -> BOOLEAN] /\ once \in [Timer -> BOOLEAN]
        /\ interval \in [Timer -> Intervals \cup {0}] /\ finished \in [Timer -> Nat]
        /\ begin \in [Timer -> Nat] /\ ticks \in [Timer -> Nat]
    BY DEF Init
  <2>2. timers \in Seq([key : Nat, timer : added])
    BY DEF Init
  <2>3. 0 \in 0..MaxTime /\ 0 \in 0..MaxCalls
    BY TimersAssumption
  <2> QED
    BY <2>1, <2>2, <2>3 DEF Init, TypeOK, WaitInfinite
<1>2. DOMAIN timers = {}
  BY DEF Init
<1> QED
  BY <1>1, <1>2
  DEF Init, TimersInv, MapSound, InOrder, IsUnique, HasEntry, KeysRight, CurrentLeads, TicksSound, WaitSound,
      NoneDue, NoTimerLate, InTime, Updating

\* The invariant holds always.
THEOREM TimersInvariant == Spec => []TimersInv
<1>1. Init => TimersInv
  BY InitHolds
<1>2. TimersInv /\ [Next]_vars => TimersInv'
  BY NextKeeps
<1> QED
  BY <1>1, <1>2, PTL DEF Spec

\* A timer that the invariant has once in the map is there once.
LEMMA MapSoundMatches ==
  ASSUME TypeOK, MapSound
  PROVE  MapMatches
<1> SUFFICES ASSUME NEW t \in Timer
             PROVE  Cardinality({i \in DOMAIN timers : timers[i].timer = t})
                      = IF t \in added /\ active[t] THEN 1 ELSE 0
  BY DEF MapMatches
<1> DEFINE S == {i \in DOMAIN timers : timers[i].timer = t}
<1>1. CASE t \in added /\ active[t]
  <2>1. PICK i \in DOMAIN timers : timers[i].timer = t
    BY <1>1 DEF MapSound, HasEntry
  <2>2. S = {i}
    BY <2>1 DEF MapSound, IsUnique
  <2> QED
    BY <1>1, <2>2, FS_Singleton
<1>2. CASE ~(t \in added /\ active[t])
  <2>1. S = {}
    BY <1>2 DEF MapSound, HasEntry
  <2> QED
    BY <1>2, <2>1, FS_EmptySet
<1> QED
  BY <1>1, <1>2

\* The map has exactly one entry for each active timer of the selector, and no
\* tick is lost or told twice, whatever handlers do with the timer that is
\* updated: Timer::update() and SelectorBase::updateTimer().
THEOREM TimersAreSound == Spec => []TimersSound
<1>1. TimersInv => TimersSound
  BY MapSoundMatches DEF TimersInv, TimersSound, TicksSound, NoneDue, NoTickLost, OnceOnly, TypeOK
<1> QED
  BY <1>1, TimersInvariant, PTL

\* The selector sleeps neither over a timer, unless a handler has thrown or has
\* added a timer that was due, nor over the caller's limit:
\* SelectorBase::waitUntil().
THEOREM SleepsAreInTime == Spec => []SleepsInTime
<1>1. TimersInv => SleepsInTime
  BY DEF TimersInv, SleepsInTime
<1> QED
  BY <1>1, TimersInvariant, PTL

(***************************************************************************)
(* Caches                                                                  *)
(***************************************************************************)

-----------------------------------------------------------------------------
(* What a cache is, and its oldest and newest elements.                    *)

\* What a cache is: its elements have serials below the next one.
Maps(V) == UNION {[S -> V] : S \in SUBSET Keys}
Entries == [winner : BOOLEAN, serial : Nat]
CacheRecords == [data : Maps(Entries), max : Nat, serial : Nat]
Fits(c) ==
  /\ c \in CacheRecords /\ c.serial <= SerialMax /\ IsFiniteSet(DOMAIN c.data)
  /\ \A k \in DOMAIN c.data : c.data[k].serial < c.serial

LEMMA MapsAre ==
  ASSUME NEW V, NEW d
  PROVE  d \in Maps(V) <=> DOMAIN d \subseteq Keys /\ d \in [DOMAIN d -> V]
  BY DEF Maps

LEMMA FitsMeans ==
  ASSUME NEW c, Fits(c)
  PROVE  /\ c \in CacheRecords /\ c.max \in Nat /\ c.serial \in Nat /\ DOMAIN c.data \subseteq Keys
         /\ c.data \in [DOMAIN c.data -> Entries] /\ IsFiniteSet(DOMAIN c.data)
         /\ \A k \in DOMAIN c.data : /\ c.data[k] \in Entries /\ c.data[k].winner \in BOOLEAN
                                     /\ c.data[k].serial \in Nat /\ c.data[k].serial < c.serial
         /\ WinnersOf(c) \subseteq DOMAIN c.data /\ IsFiniteSet(WinnersOf(c))
         /\ Cardinality(WinnersOf(c)) \in Nat /\ Size(c) \in Nat /\ Cardinality(WinnersOf(c)) <= Size(c)
         /\ (Cardinality(WinnersOf(c)) = Size(c) => WinnersOf(c) = DOMAIN c.data)
  <1>1. c \in CacheRecords /\ c.max \in Nat /\ c.serial \in Nat /\ c.data \in Maps(Entries) /\ IsFiniteSet(DOMAIN c.data)
    BY DEF Fits, CacheRecords
  <1>2. DOMAIN c.data \subseteq Keys /\ c.data \in [DOMAIN c.data -> Entries]
    BY <1>1, MapsAre
  <1>3. WinnersOf(c) \subseteq DOMAIN c.data
    BY DEF WinnersOf
  <1>4. IsFiniteSet(WinnersOf(c)) /\ Cardinality(WinnersOf(c)) <= Size(c)
        /\ (Cardinality(WinnersOf(c)) = Size(c) => WinnersOf(c) = DOMAIN c.data)
    BY <1>1, <1>3, FS_Subset DEF Size
  <1>5. Cardinality(WinnersOf(c)) \in Nat /\ Size(c) \in Nat
    BY <1>1, <1>4, FS_CardinalityType DEF Size
  <1>6. \A k \in DOMAIN c.data : /\ c.data[k] \in Entries /\ c.data[k].winner \in BOOLEAN
                                 /\ c.data[k].serial \in Nat /\ c.data[k].serial < c.serial
    BY <1>2 DEF Fits, Entries
  <1> QED
    BY <1>1, <1>2, <1>3, <1>4, <1>5, <1>6

\* A cache that is made of one that fits.
LEMMA FitsIf ==
  ASSUME NEW c, NEW d, c = [data |-> d, max |-> c.max, serial |-> c.serial], c.max \in Nat, c.serial \in Nat,
         c.serial <= SerialMax, DOMAIN d \subseteq Keys, IsFiniteSet(DOMAIN d), d \in [DOMAIN d -> Entries],
         \A k \in DOMAIN d : d[k].serial < c.serial
  PROVE  Fits(c)
  <1>1. c.data = d
    OBVIOUS
  <1>2. d \in Maps(Entries)
    BY MapsAre
  <1> QED
    BY <1>1, <1>2 DEF Fits, CacheRecords

\* The first of the elements of a kind by serial, if there is one of this kind.
LEMMA OldestIs ==
  ASSUME NEW c, Fits(c), DOMAIN c.data # {}, NEW w \in BOOLEAN
  PROVE  /\ GetOldest(c.data, w) \in DOMAIN c.data
         /\ (\E k \in DOMAIN c.data : c.data[k].winner = w) => c.data[GetOldest(c.data, w)].winner = w
  <1> DEFINE d == c.data
  <1> DEFINE part == {k \in DOMAIN d : d[k].winner = w}
  <1>1. DOMAIN d \in SUBSET Nat /\ DOMAIN d # {} /\ \A k \in DOMAIN d : d[k].serial \in Nat
    BY FitsMeans, CacheAssumption
  <1> HIDE DEF d
  <1>2. CASE part = {}
    <2>1. GetOldest(d, w) = Min(DOMAIN d)
      BY <1>2 DEF GetOldest
    <2> QED
      BY <1>1, <1>2, <2>1, MinIsLeast DEF d
  <1>3. CASE part # {}
    <2> DEFINE serials == {d[k].serial : k \in part}
    <2> DEFINE first == {k \in part : \A j \in part : d[k].serial <= d[j].serial}
    <2>1. serials \in SUBSET Nat /\ serials # {}
      BY <1>1, <1>3
    <2>2. \E m \in serials : \A s \in serials : m <= s
      BY <2>1, MinIsLeast
    <2>3. first # {}
      BY <2>2
    <2>4. first \in SUBSET Nat
      BY <1>1
    <2>5. Min(first) \in first
      BY <2>3, <2>4, MinIsLeast
    <2>6. GetOldest(d, w) = Min(first)
      BY <1>3 DEF GetOldest
    <2> QED
      BY <2>5, <2>6 DEF d
  <1> QED
    BY <1>2, <1>3

LEMMA NewestIs ==
  ASSUME NEW c, Fits(c), DOMAIN c.data # {}, NEW w \in BOOLEAN
  PROVE  /\ GetNewest(c.data, w) \in DOMAIN c.data
         /\ (\E k \in DOMAIN c.data : c.data[k].winner = w) => c.data[GetNewest(c.data, w)].winner = w
  <1> DEFINE d == c.data
  <1> DEFINE s == c.serial
  <1> DEFINE part == {k \in DOMAIN d : d[k].winner = w}
  <1>1. /\ DOMAIN d \in SUBSET Nat /\ DOMAIN d # {} /\ s \in Nat
        /\ \A k \in DOMAIN d : d[k].serial \in Nat /\ d[k].serial < s
    BY FitsMeans, CacheAssumption
  <1> HIDE DEF d, s
  <1>2. CASE part = {}
    <2>1. GetNewest(d, w) = Min(DOMAIN d)
      BY <1>2 DEF GetNewest
    <2> QED
      BY <1>1, <1>2, <2>1, MinIsLeast DEF d
  <1>3. CASE part # {}
    <2> DEFINE rest == {s - d[k].serial : k \in part}
    <2> DEFINE first == {k \in part : \A j \in part : d[k].serial >= d[j].serial}
    <2>1. rest \in SUBSET Nat /\ rest # {}
      BY <1>1, <1>3
    <2>2. PICK m \in rest : \A r \in rest : m <= r
      BY <2>1, MinIsLeast
    <2>3. first # {}
      <3>1. PICK k \in part : m = s - d[k].serial
        BY <2>2
      <3>2. \A j \in part : s - d[k].serial <= s - d[j].serial
        BY <2>2, <3>1
      <3>3. \A j \in part : d[k].serial >= d[j].serial
        BY <1>1, <3>2
      <3> QED
        BY <3>3
    <2>4. first \in SUBSET Nat
      BY <1>1
    <2>5. Min(first) \in first
      BY <2>3, <2>4, MinIsLeast
    <2>6. GetNewest(d, w) = Min(first)
      BY <1>3 DEF GetNewest
    <2> QED
      BY <2>5, <2>6 DEF d
  <1> QED
    BY <1>2, <1>3

\* The counter goes up, and all serials stay below it.
LEMMA CountedFits ==
  ASSUME NEW c, Fits(c)
  PROVE  /\ Fits(Counted(c)) /\ Counted(c).max = c.max /\ DOMAIN Counted(c).data = DOMAIN c.data
         /\ WinnersOf(Counted(c)) = WinnersOf(c) /\ Counted(c).serial - 1 \in Nat
  <1> DEFINE n == Counted(c)
  <1> DEFINE d == c.data
  <1>1. /\ c = [data |-> d, max |-> c.max, serial |-> c.serial] /\ c.max \in Nat /\ c.serial \in Nat
        /\ c.serial <= SerialMax /\ SerialMax \in Nat /\ SerialMax >= 2
        /\ DOMAIN d \subseteq Keys /\ IsFiniteSet(DOMAIN d) /\ d \in [DOMAIN d -> Entries]
        /\ \A k \in DOMAIN d : d[k] \in Entries /\ d[k].serial \in Nat /\ d[k].serial < c.serial
    BY FitsMeans, CacheAssumption DEF Fits, CacheRecords
  <1> HIDE DEF d
  <1>2. CASE c.serial = SerialMax
    <2> DEFINE e == [k \in DOMAIN d |-> [d[k] EXCEPT !.serial = 0]]
    <2>1. n = [data |-> e, max |-> c.max, serial |-> 2]
      BY <1>1, <1>2 DEF Counted, d
    <2>2. \A k \in DOMAIN d : e[k] \in Entries /\ e[k].serial = 0 /\ e[k].winner = d[k].winner
      BY <1>1 DEF Entries
    <2>3. DOMAIN e = DOMAIN d /\ e \in [DOMAIN e -> Entries]
      BY <2>2
    <2> HIDE DEF e, n
    <2>4. n.data = e /\ n.max = c.max /\ n.serial = 2 /\ n = [data |-> e, max |-> n.max, serial |-> n.serial]
      BY <2>1
    <2>5. WinnersOf(n) = WinnersOf(c)
      BY <2>2, <2>3, <2>4 DEF WinnersOf, d
    <2>6. \A k \in DOMAIN e : e[k].serial < n.serial
      BY <2>2, <2>3, <2>4
    <2>7. Fits(n)
      BY <1>1, <2>3, <2>4, <2>6, FitsIf
    <2> QED
      BY <2>3, <2>4, <2>5, <2>7 DEF d, n
  <1>3. CASE c.serial # SerialMax
    <2>1. n = [data |-> d, max |-> c.max, serial |-> c.serial + 1]
      BY <1>1, <1>3 DEF Counted, d
    <2> HIDE DEF n
    <2>2. n.data = d /\ n.max = c.max /\ n.serial = c.serial + 1 /\ n = [data |-> d, max |-> n.max, serial |-> n.serial]
      BY <2>1
    <2>3. \A k \in DOMAIN d : d[k].serial < n.serial
      BY <1>1, <2>2
    <2>4. Fits(n)
      BY <1>1, <1>3, <2>2, <2>3, FitsIf
    <2>5. WinnersOf(n) = WinnersOf(c)
      BY <2>2 DEF WinnersOf, d
    <2> QED
      BY <1>1, <2>2, <2>4, <2>5 DEF d, n
  <1> QED
    BY <1>2, <1>3

\* One element gets other marks; its serial is below the next one.
Marked(c, k, w, s) == [c EXCEPT !.data = With(@, k, [winner |-> w, serial |-> s])]

LEMMA MarkedFits ==
  ASSUME NEW c, Fits(c), NEW k \in Keys, NEW w \in BOOLEAN, NEW s \in Nat, s < c.serial
  PROVE  LET e == Marked(c, k, w, s) IN
         /\ Fits(e) /\ e.max = c.max /\ e.serial = c.serial /\ DOMAIN e.data = DOMAIN c.data \cup {k}
         /\ e.data[k].winner = w /\ e.data[k].serial = s
         /\ WinnersOf(e) = IF w THEN WinnersOf(c) \cup {k} ELSE WinnersOf(c) \ {k}
  <1> DEFINE d == c.data
  <1> DEFINE x == [winner |-> w, serial |-> s]
  <1> DEFINE f == With(d, k, x)
  <1> DEFINE e == Marked(c, k, w, s)
  <1>1. /\ c = [data |-> d, max |-> c.max, serial |-> c.serial] /\ c.max \in Nat /\ c.serial \in Nat
        /\ c.serial <= SerialMax /\ DOMAIN d \subseteq Keys /\ IsFiniteSet(DOMAIN d)
        /\ \A j \in DOMAIN d : d[j] \in Entries /\ d[j].winner \in BOOLEAN /\ d[j].serial < c.serial
    BY FitsMeans DEF Fits, CacheRecords
  <1>2. x \in Entries /\ x.winner = w /\ x.serial = s
    BY DEF Entries
  <1>3. WinnersOf(c) = {j \in DOMAIN d : d[j].winner}
    BY DEF WinnersOf
  <1> HIDE DEF d, x
  <1>4. e = [data |-> f, max |-> c.max, serial |-> c.serial]
    BY <1>1 DEF d, x, Marked
  <1> HIDE DEF e
  <1>5. DOMAIN f = DOMAIN d \cup {k} /\ f[k] = x /\ \A j \in DOMAIN d : j # k => f[j] = d[j]
    BY DEF With
  <1>6. f \in [DOMAIN f -> Entries]
    BY <1>1, <1>2 DEF With
  <1>7. IsFiniteSet(DOMAIN f)
    BY <1>1, <1>5, FS_AddElement
  <1> HIDE DEF f
  <1>8. e.data = f /\ e.max = c.max /\ e.serial = c.serial /\ e = [data |-> f, max |-> e.max, serial |-> e.serial]
    <2> DEFINE r == [data |-> f, max |-> c.max, serial |-> c.serial]
    <2>1. r.data = f /\ r.max = c.max /\ r.serial = c.serial
      OBVIOUS
    <2>2. e = r
      BY <1>4
    <2> QED
      BY <2>1, <2>2, Zenon
  <1>9. \A j \in DOMAIN f : f[j].serial < e.serial
    BY <1>1, <1>2, <1>5, <1>8
  <1>10. Fits(e)
    BY <1>1, <1>5, <1>6, <1>7, <1>8, <1>9, FitsIf
  <1>11. WinnersOf(e) = {j \in DOMAIN f : f[j].winner}
    BY <1>8 DEF WinnersOf
  <1>12. WinnersOf(e) = IF w THEN WinnersOf(c) \cup {k} ELSE WinnersOf(c) \ {k}
    BY <1>1, <1>2, <1>3, <1>5, <1>11
  <1> QED
    BY <1>2, <1>5, <1>8, <1>10, <1>12 DEF d, e

LEMMA WinnerFits ==
  ASSUME NEW c, Fits(c), NEW k \in Keys, NEW s \in Nat, s < c.serial
  PROVE  LET e == Marked(c, k, TRUE, s) IN
         Fits(e) /\ e.max = c.max /\ DOMAIN e.data = DOMAIN c.data \cup {k} /\ WinnersOf(e) = WinnersOf(c) \cup {k}
  <1> DEFINE w == TRUE
  <1>1. w \in BOOLEAN
    OBVIOUS
  <1>4. w
    OBVIOUS
  <1> HIDE DEF w
  <1> DEFINE e == Marked(c, k, w, s)
  <1>2. /\ Fits(e) /\ e.max = c.max /\ DOMAIN e.data = DOMAIN c.data \cup {k}
        /\ WinnersOf(e) = IF w THEN WinnersOf(c) \cup {k} ELSE WinnersOf(c) \ {k}
    BY <1>1, MarkedFits
  <1>3. WinnersOf(e) = WinnersOf(c) \cup {k}
    BY <1>2, <1>4
  <1> QED
    BY <1>2, <1>3 DEF w

LEMMA LooserFits ==
  ASSUME NEW c, Fits(c), NEW k \in Keys, NEW s \in Nat, s < c.serial
  PROVE  LET e == Marked(c, k, FALSE, s) IN
         Fits(e) /\ e.max = c.max /\ DOMAIN e.data = DOMAIN c.data \cup {k} /\ WinnersOf(e) = WinnersOf(c) \ {k}
  <1> DEFINE w == FALSE
  <1>1. w \in BOOLEAN
    OBVIOUS
  <1>4. ~w
    OBVIOUS
  <1> HIDE DEF w
  <1> DEFINE e == Marked(c, k, w, s)
  <1>2. /\ Fits(e) /\ e.max = c.max /\ DOMAIN e.data = DOMAIN c.data \cup {k}
        /\ WinnersOf(e) = IF w THEN WinnersOf(c) \cup {k} ELSE WinnersOf(c) \ {k}
    BY <1>1, MarkedFits
  <1>3. WinnersOf(e) = WinnersOf(c) \ {k}
    BY <1>2, <1>4
  <1> QED
    BY <1>2, <1>3 DEF w

\* To change a mark of an element that is there is to put it there again.
LEMMA MarkedIs ==
  ASSUME NEW c, Fits(c), NEW k \in DOMAIN c.data, NEW w
  PROVE  [c EXCEPT !.data[k].winner = w] = Marked(c, k, w, c.data[k].serial)
  <1> DEFINE d == c.data
  <1> DEFINE x == [winner |-> w, serial |-> d[k].serial]
  <1>1. d \in [DOMAIN d -> Entries] /\ k \in DOMAIN d /\ d[k] \in Entries
        /\ c = [data |-> d, max |-> c.max, serial |-> c.serial]
    BY FitsMeans DEF CacheRecords
  <1>2. [c EXCEPT !.data[k].winner = w] = [c EXCEPT !.data = [d EXCEPT ![k] = [d[k] EXCEPT !.winner = w]]]
    BY <1>1
  <1> HIDE DEF d
  <1>3. [d[k] EXCEPT !.winner = w] = x
    BY <1>1 DEF Entries
  <1> HIDE DEF x
  <1>4. [d EXCEPT ![k] = x] = With(d, k, x)
    BY <1>1 DEF With
  <1> QED
    BY <1>2, <1>3, <1>4 DEF d, x, Marked

LEMMA MarkedSerialIs ==
  ASSUME NEW c, Fits(c), NEW k \in DOMAIN c.data, NEW s
  PROVE  [c EXCEPT !.data[k].serial = s] = Marked(c, k, c.data[k].winner, s)
  <1> DEFINE d == c.data
  <1> DEFINE x == [winner |-> d[k].winner, serial |-> s]
  <1>1. d \in [DOMAIN d -> Entries] /\ k \in DOMAIN d /\ d[k] \in Entries
        /\ c = [data |-> d, max |-> c.max, serial |-> c.serial]
    BY FitsMeans DEF CacheRecords
  <1>2. [c EXCEPT !.data[k].serial = s] = [c EXCEPT !.data = [d EXCEPT ![k] = [d[k] EXCEPT !.serial = s]]]
    BY <1>1
  <1> HIDE DEF d
  <1>3. [d[k] EXCEPT !.serial = s] = x
    BY <1>1 DEF Entries
  <1> HIDE DEF x
  <1>4. [d EXCEPT ![k] = x] = With(d, k, x)
    BY <1>1 DEF With
  <1> QED
    BY <1>2, <1>3, <1>4 DEF d, x, Marked

LEMMA DroppedFits ==
  ASSUME NEW c, Fits(c), NEW k \in DOMAIN c.data, NEW e, e = [c EXCEPT !.data = Without(@, k)]
  PROVE  /\ Fits(e) /\ e.max = c.max /\ e.serial = c.serial /\ DOMAIN e.data = DOMAIN c.data \ {k}
         /\ WinnersOf(e) = WinnersOf(c) \ {k}
  <1> DEFINE d == c.data
  <1> DEFINE f == Without(d, k)
  <1>1. /\ c = [data |-> d, max |-> c.max, serial |-> c.serial] /\ c.max \in Nat /\ c.serial \in Nat
        /\ c.serial <= SerialMax /\ DOMAIN d \subseteq Keys /\ IsFiniteSet(DOMAIN d)
        /\ \A j \in DOMAIN d : d[j] \in Entries /\ d[j].serial < c.serial
    BY FitsMeans DEF Fits, CacheRecords
  <1>2. WinnersOf(c) = {j \in DOMAIN d : d[j].winner}
    BY DEF WinnersOf
  <1> HIDE DEF d
  <1>3. e = [data |-> f, max |-> c.max, serial |-> c.serial]
    BY <1>1 DEF d
  <1>4. DOMAIN f = DOMAIN d \ {k} /\ \A j \in DOMAIN f : f[j] = d[j]
    BY DEF Without
  <1>5. f \in [DOMAIN f -> Entries]
    BY <1>1 DEF Without
  <1>6. IsFiniteSet(DOMAIN f)
    BY <1>1, <1>4, FS_RemoveElement
  <1> HIDE DEF f
  <1>7. e.data = f /\ e.max = c.max /\ e.serial = c.serial /\ e = [data |-> f, max |-> e.max, serial |-> e.serial]
    <2> DEFINE r == [data |-> f, max |-> c.max, serial |-> c.serial]
    <2>1. r.data = f /\ r.max = c.max /\ r.serial = c.serial
      OBVIOUS
    <2>2. e = r
      BY <1>3
    <2> QED
      BY <2>1, <2>2, Zenon
  <1>8. \A j \in DOMAIN f : f[j].serial < e.serial
    BY <1>1, <1>4, <1>7
  <1>9. Fits(e)
    BY <1>1, <1>4, <1>5, <1>6, <1>7, <1>8, FitsIf
  <1>10. WinnersOf(e) = WinnersOf(c) \ {k}
    BY <1>2, <1>4, <1>7 DEF WinnersOf
  <1> QED
    BY <1>4, <1>7, <1>9, <1>10 DEF d

LEMMA RenewedFits ==
  ASSUME NEW c, Fits(c), NEW k \in DOMAIN c.data
  PROVE  /\ Fits(Renewed(c, k)) /\ Renewed(c, k).max = c.max /\ DOMAIN Renewed(c, k).data = DOMAIN c.data
         /\ WinnersOf(Renewed(c, k)) = WinnersOf(c)
  <1> DEFINE n == Counted(c)
  <1> DEFINE s == n.serial - 1
  <1>1. /\ Fits(n) /\ n.max = c.max /\ DOMAIN n.data = DOMAIN c.data /\ WinnersOf(n) = WinnersOf(c) /\ s \in Nat
    BY CountedFits
  <1>2. Renewed(c, k) = [n EXCEPT !.data[k].serial = s]
    BY DEF Renewed
  <1> HIDE DEF n
  <1>3. k \in Keys /\ k \in DOMAIN n.data /\ n.data[k].winner \in BOOLEAN /\ s < n.serial
        /\ (n.data[k].winner <=> k \in WinnersOf(n))
    <2>1. DOMAIN n.data \subseteq Keys /\ n.serial \in Nat /\ \A j \in DOMAIN n.data : n.data[j].winner \in BOOLEAN
      BY <1>1, FitsMeans
    <2>2. k \in DOMAIN n.data /\ (n.data[k].winner <=> k \in WinnersOf(n))
      BY <1>1 DEF WinnersOf
    <2>3. s < n.serial
      BY <2>1
    <2> QED
      BY <2>1, <2>2, <2>3
  <1> DEFINE e == [n EXCEPT !.data[k].serial = s]
  <1> DEFINE w == n.data[k].winner
  <1>4. e = Marked(n, k, w, s)
    BY <1>1, <1>3, MarkedSerialIs
  <1> HIDE DEF e, w, s
  <1>5. w \in BOOLEAN /\ (w <=> k \in WinnersOf(n))
    BY <1>3 DEF w
  <1>6. /\ Fits(e) /\ e.max = n.max /\ DOMAIN e.data = DOMAIN n.data \cup {k}
        /\ WinnersOf(e) = IF w THEN WinnersOf(n) \cup {k} ELSE WinnersOf(n) \ {k}
    BY <1>1, <1>3, <1>4, <1>5, MarkedFits
  <1> QED
    BY <1>1, <1>2, <1>3, <1>5, <1>6 DEF e

\* How many winners there are.
Win(c) == Cardinality(WinnersOf(c))

LEMMA CountsAre ==
  ASSUME NEW c, Fits(c)
  PROVE  /\ Win(c) \in Nat /\ Size(c) \in Nat /\ Win(c) <= Size(c)
         /\ (Win(c) = Size(c) <=> WinnersOf(c) = DOMAIN c.data)
         /\ (Size(c) = 0 <=> DOMAIN c.data = {}) /\ (Win(c) = 0 <=> WinnersOf(c) = {})
  BY FitsMeans, FS_EmptySet DEF Win, Size

LEMMA DropLooserFits ==
  ASSUME NEW c, Fits(c), Size(c) > 0
  PROVE  LET e == DropLooser(c)
         IN /\ Fits(e) /\ e.max = c.max /\ DOMAIN e.data \subseteq DOMAIN c.data /\ Size(e) = Size(c) - 1
            /\ Win(e) = IF Win(c) = Size(c) THEN Win(c) - 1 ELSE Win(c)
            /\ (Win(c) # Size(c) => WinnersOf(e) = WinnersOf(c))
  <1> DEFINE k == GetOldest(c.data, FALSE)
  <1> DEFINE e == DropLooser(c)
  <1>1. DOMAIN c.data # {}
    BY CountsAre
  <1>2. k \in DOMAIN c.data /\ ((\E j \in DOMAIN c.data : c.data[j].winner = FALSE) => c.data[k].winner = FALSE)
    <2> DEFINE w == FALSE
    <2>1. w \in BOOLEAN
      OBVIOUS
    <2> HIDE DEF w
    <2>2. /\ GetOldest(c.data, w) \in DOMAIN c.data
          /\ (\E j \in DOMAIN c.data : c.data[j].winner = w) => c.data[GetOldest(c.data, w)].winner = w
      BY <1>1, <2>1, OldestIs
    <2> QED
      BY <2>2 DEF w
  <1>3. e = [c EXCEPT !.data = Without(@, k)]
    BY DEF DropLooser
  <1> HIDE DEF k, e
  <1>4. /\ Fits(e) /\ e.max = c.max /\ DOMAIN e.data = DOMAIN c.data \ {k}
        /\ WinnersOf(e) = WinnersOf(c) \ {k}
    <2>1. k \in DOMAIN c.data
      BY <1>2
    <2> QED
      BY <2>1, <1>3, DroppedFits
  <1>5. Size(e) = Size(c) - 1
    <2>1. IsFiniteSet(DOMAIN c.data)
      BY FitsMeans
    <2> QED
      BY <1>2, <1>4, <2>1, FS_RemoveElement DEF Size
  <1>6. CASE Win(c) = Size(c)
    <2>1. k \in WinnersOf(c) /\ IsFiniteSet(WinnersOf(c))
      BY <1>2, <1>6, CountsAre, FitsMeans
    <2>2. Win(e) = Win(c) - 1
      BY <1>4, <2>1, FS_RemoveElement DEF Win
    <2> QED
      BY <1>4, <1>5, <1>6, <2>2 DEF e
  <1>7. CASE Win(c) # Size(c)
    <2>1. \E j \in DOMAIN c.data : j \notin WinnersOf(c)
      BY <1>7, CountsAre, FitsMeans
    <2>2. \E j \in DOMAIN c.data : c.data[j].winner = FALSE
      BY <2>1, FitsMeans DEF WinnersOf
    <2>3. k \notin WinnersOf(c)
      BY <1>2, <2>2 DEF WinnersOf
    <2>4. WinnersOf(e) = WinnersOf(c)
      BY <1>4, <2>3
    <2> QED
      BY <1>4, <1>5, <1>7, <2>4 DEF e, Win
  <1> QED
    BY <1>6, <1>7

LEMMA MakeLooserFits ==
  ASSUME NEW c, Fits(c), Size(c) > 0
  PROVE  LET e == MakeLooser(c)
         IN /\ Fits(e) /\ e.max = c.max /\ DOMAIN e.data = DOMAIN c.data /\ Size(e) = Size(c)
            /\ Win(e) = IF Win(c) = 0 THEN 0 ELSE Win(c) - 1
  <1> DEFINE k == GetOldest(c.data, TRUE)
  <1> DEFINE f == [c EXCEPT !.data[k].winner = FALSE]
  <1> DEFINE e == Renewed(f, k)
  <1>1. DOMAIN c.data # {}
    BY CountsAre
  <1>2. k \in DOMAIN c.data /\ ((\E j \in DOMAIN c.data : c.data[j].winner = TRUE) => c.data[k].winner = TRUE)
    <2> DEFINE w == TRUE
    <2>1. w \in BOOLEAN
      OBVIOUS
    <2> HIDE DEF w
    <2>2. /\ GetOldest(c.data, w) \in DOMAIN c.data
          /\ (\E j \in DOMAIN c.data : c.data[j].winner = w) => c.data[GetOldest(c.data, w)].winner = w
      BY <1>1, <2>1, OldestIs
    <2> QED
      BY <2>2 DEF w
  <1>3. MakeLooser(c) = e
    BY DEF MakeLooser
  <1> HIDE DEF k
  <1> DEFINE s == c.data[k].serial
  <1>4. f = Marked(c, k, FALSE, s)
    BY <1>2, MarkedIs
  <1>5. k \in Keys /\ s \in Nat /\ s < c.serial
    BY <1>2, FitsMeans
  <1> HIDE DEF f, s
  <1>6. /\ Fits(f) /\ f.max = c.max /\ DOMAIN f.data = DOMAIN c.data \cup {k} /\ WinnersOf(f) = WinnersOf(c) \ {k}
    BY <1>4, <1>5, LooserFits
  <1>7. k \in DOMAIN f.data /\ DOMAIN f.data = DOMAIN c.data
    BY <1>2, <1>6
  <1> HIDE DEF e
  <1>8. Fits(e) /\ e.max = c.max /\ DOMAIN e.data = DOMAIN c.data /\ WinnersOf(e) = WinnersOf(c) \ {k}
    BY <1>6, <1>7, RenewedFits DEF e
  <1>9. Size(e) = Size(c)
    BY <1>8 DEF Size
  <1>10. CASE Win(c) = 0
    <2>1. WinnersOf(e) = WinnersOf(c)
      BY <1>8, <1>10, CountsAre
    <2> QED
      BY <1>3, <1>8, <1>9, <1>10, <2>1 DEF Win
  <1>11. CASE Win(c) # 0
    <2>1. WinnersOf(c) # {} /\ IsFiniteSet(WinnersOf(c))
      BY <1>11, CountsAre, FitsMeans
    <2>2. \E j \in DOMAIN c.data : c.data[j].winner = TRUE
      BY <2>1, FitsMeans DEF WinnersOf
    <2>3. k \in WinnersOf(c)
      BY <1>2, <2>2 DEF WinnersOf
    <2>4. Win(e) = Win(c) - 1
      BY <1>8, <2>1, <2>3, FS_RemoveElement DEF Win
    <2> QED
      BY <1>3, <1>8, <1>9, <1>11, <2>4
  <1> QED
    BY <1>10, <1>11

LEMMA NewestWinsFits ==
  ASSUME NEW c, Fits(c), Size(c) > 0
  PROVE  LET e == NewestWins(c)
         IN /\ Fits(e) /\ e.max = c.max /\ DOMAIN e.data = DOMAIN c.data /\ Size(e) = Size(c)
            /\ Win(e) = IF Win(c) = Size(c) THEN Win(c) ELSE Win(c) + 1
            /\ WinnersOf(e) = WinnersOf(c) \cup {GetNewest(c.data, FALSE)}
            /\ e = [c EXCEPT !.data[GetNewest(c.data, FALSE)].winner = TRUE]
  <1> DEFINE k == GetNewest(c.data, FALSE)
  <1> DEFINE e == NewestWins(c)
  <1>1. DOMAIN c.data # {}
    BY CountsAre
  <1>2. k \in DOMAIN c.data /\ ((\E j \in DOMAIN c.data : c.data[j].winner = FALSE) => c.data[k].winner = FALSE)
    <2> DEFINE w == FALSE
    <2>1. w \in BOOLEAN
      OBVIOUS
    <2> HIDE DEF w
    <2>2. /\ GetNewest(c.data, w) \in DOMAIN c.data
          /\ (\E j \in DOMAIN c.data : c.data[j].winner = w) => c.data[GetNewest(c.data, w)].winner = w
      BY <1>1, <2>1, NewestIs
    <2> QED
      BY <2>2 DEF w
  <1>3. e = [c EXCEPT !.data[k].winner = TRUE]
    BY DEF NewestWins
  <1> DEFINE s == c.data[k].serial
  <1> HIDE DEF k, e
  <1>4. e = Marked(c, k, TRUE, s)
    BY <1>2, <1>3, MarkedIs
  <1>5. k \in Keys /\ s \in Nat /\ s < c.serial
    BY <1>2, FitsMeans
  <1> HIDE DEF s
  <1>6. /\ Fits(e) /\ e.max = c.max /\ DOMAIN e.data = DOMAIN c.data \cup {k} /\ WinnersOf(e) = WinnersOf(c) \cup {k}
    BY <1>4, <1>5, WinnerFits
  <1>7. DOMAIN e.data = DOMAIN c.data /\ Size(e) = Size(c)
    BY <1>2, <1>6 DEF Size
  <1>8. Win(e) = IF Win(c) = Size(c) THEN Win(c) ELSE Win(c) + 1
    <2>1. CASE Win(c) = Size(c)
      <3>1. WinnersOf(e) = WinnersOf(c)
        BY <1>2, <1>6, <2>1, CountsAre
      <3> QED
        BY <2>1, <3>1 DEF Win
    <2>2. CASE Win(c) # Size(c)
      <3>1. \E j \in DOMAIN c.data : j \notin WinnersOf(c)
        BY <2>2, CountsAre, FitsMeans
      <3>2. \E j \in DOMAIN c.data : c.data[j].winner = FALSE
        BY <3>1, FitsMeans DEF WinnersOf
      <3>3. k \notin WinnersOf(c) /\ IsFiniteSet(WinnersOf(c))
        BY <1>2, <3>2, FitsMeans DEF WinnersOf
      <3>4. Win(e) = Win(c) + 1
        BY <1>6, <3>3, FS_AddElement DEF Win
      <3> QED
        BY <2>2, <3>4
    <2> QED
      BY <2>1, <2>2
  <1> QED
    BY <1>3, <1>6, <1>7, <1>8 DEF e, k

LEMMA HitFits ==
  ASSUME NEW c, Fits(c), NEW k \in DOMAIN c.data
  PROVE  LET e == Hit(c, k)
         IN Fits(e) /\ e.max = c.max /\ DOMAIN e.data = DOMAIN c.data /\ Size(e) = Size(c) /\ Win(e) = Win(c)
  <1> DEFINE n == Renewed(c, k)
  <1> DEFINE f == [n EXCEPT !.data[k].winner = TRUE]
  <1>1. Fits(n) /\ n.max = c.max /\ DOMAIN n.data = DOMAIN c.data /\ WinnersOf(n) = WinnersOf(c)
    BY RenewedFits
  <1>2. Hit(c, k) = IF n.data[k].winner THEN n ELSE MakeLooser(f)
    BY DEF Hit
  <1> HIDE DEF n
  <1>3. CASE n.data[k].winner
    BY <1>1, <1>2, <1>3 DEF Size, Win
  <1>4. CASE ~n.data[k].winner
    <2> DEFINE s == n.data[k].serial
    <2>1. k \in DOMAIN n.data /\ k \in Keys /\ s \in Nat /\ s < n.serial /\ k \notin WinnersOf(n) /\ IsFiniteSet(WinnersOf(n))
      BY <1>1, <1>4, FitsMeans DEF WinnersOf
    <2>2. f = Marked(n, k, TRUE, s)
      BY <1>1, <2>1, MarkedIs
    <2> HIDE DEF f, s
    <2>3. /\ Fits(f) /\ f.max = n.max /\ DOMAIN f.data = DOMAIN n.data \cup {k} /\ WinnersOf(f) = WinnersOf(n) \cup {k}
      BY <1>1, <2>1, <2>2, WinnerFits
    <2>4. DOMAIN f.data = DOMAIN c.data /\ f.max = c.max /\ Size(f) = Size(c)
      BY <1>1, <2>1, <2>3 DEF Size
    <2>5. Win(f) = Win(c) + 1 /\ Win(c) \in Nat /\ Size(f) \in Nat /\ Win(f) <= Size(f)
      <3>1. Win(f) = Win(c) + 1
        <4>1. IsFiniteSet(WinnersOf(c)) /\ k \notin WinnersOf(c) /\ WinnersOf(f) = WinnersOf(c) \cup {k}
          BY <1>1, <2>1, <2>3
        <4> QED
          BY <4>1, FS_AddElement DEF Win
      <3> QED
        BY <2>3, <3>1, CountsAre
    <2> DEFINE e == MakeLooser(f)
    <2>6. /\ Fits(e) /\ e.max = f.max /\ DOMAIN e.data = DOMAIN f.data /\ Size(e) = Size(f)
          /\ Win(e) = IF Win(f) = 0 THEN 0 ELSE Win(f) - 1
      BY <2>3, <2>5, MakeLooserFits
    <2>7. Hit(c, k) = e
      BY <1>2, <1>4
    <2> HIDE DEF e
    <2> QED
      BY <2>4, <2>5, <2>6, <2>7
  <1> QED
    BY <1>3, <1>4

LEMMA InsertFits ==
  ASSUME NEW c, Fits(c), NEW k \in Keys, k \notin DOMAIN c.data, NEW w \in BOOLEAN
  PROVE  LET e == NewElement(c, k, w)
         IN /\ Fits(e) /\ e.max = c.max /\ DOMAIN e.data = DOMAIN c.data \cup {k} /\ Size(e) = Size(c) + 1
            /\ Win(e) = IF w THEN Win(c) + 1 ELSE Win(c)
  <1> DEFINE n == Counted(c)
  <1> DEFINE s == n.serial - 1
  <1> DEFINE e == NewElement(c, k, w)
  <1>1. /\ Fits(n) /\ n.max = c.max /\ DOMAIN n.data = DOMAIN c.data /\ WinnersOf(n) = WinnersOf(c) /\ s \in Nat
    BY CountedFits
  <1>2. e = Marked(n, k, w, s)
    BY DEF NewElement, Marked
  <1> HIDE DEF n, e
  <1>3. s < n.serial
    BY <1>1, FitsMeans
  <1> HIDE DEF s
  <1>4. /\ Fits(e) /\ e.max = n.max /\ DOMAIN e.data = DOMAIN n.data \cup {k}
        /\ WinnersOf(e) = IF w THEN WinnersOf(n) \cup {k} ELSE WinnersOf(n) \ {k}
    BY <1>1, <1>2, <1>3, MarkedFits
  <1>5. Size(e) = Size(c) + 1
    <2>1. IsFiniteSet(DOMAIN c.data)
      BY FitsMeans
    <2> QED
      BY <1>1, <1>4, <2>1, FS_AddElement DEF Size
  <1>6. k \notin WinnersOf(c) /\ IsFiniteSet(WinnersOf(c))
    BY FitsMeans
  <1>7. Win(e) = IF w THEN Win(c) + 1 ELSE Win(c)
    <2>1. CASE w
      BY <1>1, <1>4, <1>6, <2>1, FS_AddElement DEF Win
    <2>2. CASE ~w
      <3>1. WinnersOf(e) = WinnersOf(c)
        BY <1>1, <1>4, <1>6, <2>2
      <3> QED
        BY <2>2, <3>1 DEF Win
    <2> QED
      BY <2>1, <2>2
  <1> QED
    BY <1>1, <1>4, <1>5, <1>7 DEF e

-----------------------------------------------------------------------------
(* The loops.                                                              *)

\* What holds at 0 and is handed on from number to number holds up to n.
LEMMA UpTo ==
  ASSUME NEW n \in Nat, NEW S, 0 \in S, \A i \in 1 .. n : i - 1 \in S => i \in S
  PROVE  \A i \in 0 .. n : i \in S
  <1> DEFINE T == {i \in 0 .. n : i \notin S}
  <1> SUFFICES ASSUME T # {} PROVE FALSE
    OBVIOUS
  <1>1. T \in SUBSET Nat
    OBVIOUS
  <1>2. PICK m \in T : \A i \in T : m <= i
    BY <1>1, MinIsLeast
  <1>3. m # 0 /\ m - 1 \in 0 .. n /\ m - 1 \notin T
    BY <1>2
  <1> QED
    BY <1>3

LEMMA DropLooserTimes ==
  ASSUME NEW c, NEW n \in Nat
  PROVE  \E h : /\ h[0] = c /\ \A i \in 1 .. n : h[i] = DropLooser(h[i - 1])
                /\ Times(DropLooser, c, n) = h[n]
  <1> DEFINE Is(g, m) == g = [i \in 0 .. m |-> IF i = 0 THEN c ELSE DropLooser(g[i - 1])]
  <1> DEFINE S == {m \in 0 .. n : \E g : Is(g, m)}
  <1>1. 0 \in S
    <2> DEFINE g == [i \in 0 .. 0 |-> c]
    <2>1. Is(g, 0)
      OBVIOUS
    <2> HIDE DEF g, Is
    <2>2. \E q : Is(q, 0)
      BY <2>1, Zenon
    <2> QED
      BY <2>2
  <1>2. ASSUME NEW m \in 1 .. n, m - 1 \in S
        PROVE  m \in S
    <2>1. PICK p : Is(p, m - 1)
      BY <1>2
    <2> DEFINE g == [i \in 0 .. m |-> IF i = m THEN DropLooser(p[m - 1]) ELSE p[i]]
    <2>2. \A i \in 0 .. m : g[i] = IF i = 0 THEN c ELSE DropLooser(g[i - 1])
      <3>1. \A i \in 0 .. m - 1 : p[i] = IF i = 0 THEN c ELSE DropLooser(p[i - 1])
        BY <2>1
      <3>2. \A i \in 0 .. m : i # m => i \in 0 .. m - 1 /\ g[i] = p[i]
        OBVIOUS
      <3>3. \A i \in 0 .. m : i # 0 => i - 1 \in 0 .. m - 1 /\ g[i - 1] = p[i - 1]
        OBVIOUS
      <3>4. m # 0 /\ g[m] = DropLooser(p[m - 1])
        OBVIOUS
      <3> HIDE DEF g
      <3> QED
        BY <3>1, <3>2, <3>3, <3>4
    <2>3. Is(g, m)
      BY <2>2
    <2> HIDE DEF g, Is
    <2>4. \E q : Is(q, m)
      BY <2>3, Zenon
    <2> QED
      BY <2>4
  <1>3. \E g : Is(g, n)
    <2> HIDE DEF S
    <2>1. \A i \in 0 .. n : i \in S
      BY <1>1, <1>2, UpTo
    <2>2. n \in S
      BY <2>1
    <2> HIDE DEF Is
    <2> QED
      BY <2>2 DEF S
  <1> DEFINE h == CHOOSE g : Is(g, n)
  <1>4. Is(h, n)
    BY <1>3
  <1>5. Times(DropLooser, c, n) = h[n]
    BY DEF Times
  <1> HIDE DEF h
  <1>6. h[0] = c /\ \A i \in 1 .. n : h[i] = DropLooser(h[i - 1])
    BY <1>4
  <1> QED
    BY <1>5, <1>6

\* The loosers go first, then the winners.
LEMMA DropLoosers ==
  ASSUME NEW c, NEW n \in Nat, Fits(c), n <= Size(c)
  PROVE  LET e == Times(DropLooser, c, n) IN
         /\ Fits(e) /\ e.max = c.max /\ DOMAIN e.data \subseteq DOMAIN c.data /\ Size(e) = Size(c) - n
         /\ Win(e) <= Win(c) /\ (Win(e) # Size(e) => Win(e) = Win(c))
  <1>1. PICK h : /\ h[0] = c /\ \A i \in 1 .. n : h[i] = DropLooser(h[i - 1])
                 /\ Times(DropLooser, c, n) = h[n]
    BY DropLooserTimes
  <1> DEFINE Holds(e, i) ==
         /\ Fits(e) /\ e.max = c.max /\ DOMAIN e.data \subseteq DOMAIN c.data /\ Size(e) = Size(c) - i
         /\ Win(e) <= Win(c) /\ (Win(e) # Size(e) => Win(e) = Win(c))
  <1> DEFINE S == {i \in 0 .. n : Holds(h[i], i)}
  <1>2. 0 \in S
    BY <1>1, CountsAre
  <1>3. ASSUME NEW i \in 1 .. n, i - 1 \in S
        PROVE  i \in S
    <2> DEFINE d == h[i - 1]
    <2> DEFINE e == h[i]
    <2>1. Holds(d, i - 1) /\ e = DropLooser(d) /\ i \in Nat
      BY <1>1, <1>3
    <2> HIDE DEF d, e
    <2>2. /\ Fits(d) /\ Size(d) > 0 /\ Win(d) \in Nat /\ Size(d) \in Nat /\ Win(d) <= Size(d)
          /\ Win(c) \in Nat /\ Size(c) \in Nat
      BY <2>1, CountsAre
    <2>3. /\ Fits(e) /\ e.max = d.max /\ DOMAIN e.data \subseteq DOMAIN d.data /\ Size(e) = Size(d) - 1
          /\ Win(e) = IF Win(d) = Size(d) THEN Win(d) - 1 ELSE Win(d)
      BY <2>1, <2>2, DropLooserFits
    <2>9. Holds(e, i)
      BY <2>1, <2>2, <2>3
    <2> QED
      BY <2>9 DEF e
  <1>4. Holds(h[n], n)
    <2> HIDE DEF S
    <2>1. \A i \in 0 .. n : i \in S
      BY <1>2, <1>3, UpTo
    <2>2. n \in S
      BY <2>1
    <2> HIDE DEF Holds
    <2> QED
      BY <2>2 DEF S
  <1> QED
    BY <1>1, <1>4

LEMMA MakeLooserTimes ==
  ASSUME NEW c, NEW n \in Nat
  PROVE  \E h : /\ h[0] = c /\ \A i \in 1 .. n : h[i] = MakeLooser(h[i - 1])
                /\ Times(MakeLooser, c, n) = h[n]
  <1> DEFINE Is(g, m) == g = [i \in 0 .. m |-> IF i = 0 THEN c ELSE MakeLooser(g[i - 1])]
  <1> DEFINE S == {m \in 0 .. n : \E g : Is(g, m)}
  <1>1. 0 \in S
    <2> DEFINE g == [i \in 0 .. 0 |-> c]
    <2>1. Is(g, 0)
      OBVIOUS
    <2> HIDE DEF g, Is
    <2>2. \E q : Is(q, 0)
      BY <2>1, Zenon
    <2> QED
      BY <2>2
  <1>2. ASSUME NEW m \in 1 .. n, m - 1 \in S
        PROVE  m \in S
    <2>1. PICK p : Is(p, m - 1)
      BY <1>2
    <2> DEFINE g == [i \in 0 .. m |-> IF i = m THEN MakeLooser(p[m - 1]) ELSE p[i]]
    <2>2. \A i \in 0 .. m : g[i] = IF i = 0 THEN c ELSE MakeLooser(g[i - 1])
      <3>1. \A i \in 0 .. m - 1 : p[i] = IF i = 0 THEN c ELSE MakeLooser(p[i - 1])
        BY <2>1
      <3>2. \A i \in 0 .. m : i # m => i \in 0 .. m - 1 /\ g[i] = p[i]
        OBVIOUS
      <3>3. \A i \in 0 .. m : i # 0 => i - 1 \in 0 .. m - 1 /\ g[i - 1] = p[i - 1]
        OBVIOUS
      <3>4. m # 0 /\ g[m] = MakeLooser(p[m - 1])
        OBVIOUS
      <3> HIDE DEF g
      <3> QED
        BY <3>1, <3>2, <3>3, <3>4
    <2>3. Is(g, m)
      BY <2>2
    <2> HIDE DEF g, Is
    <2>4. \E q : Is(q, m)
      BY <2>3, Zenon
    <2> QED
      BY <2>4
  <1>3. \E g : Is(g, n)
    <2> HIDE DEF S
    <2>1. \A i \in 0 .. n : i \in S
      BY <1>1, <1>2, UpTo
    <2>2. n \in S
      BY <2>1
    <2> HIDE DEF Is
    <2> QED
      BY <2>2 DEF S
  <1> DEFINE h == CHOOSE g : Is(g, n)
  <1>4. Is(h, n)
    BY <1>3
  <1>5. Times(MakeLooser, c, n) = h[n]
    BY DEF Times
  <1> HIDE DEF h
  <1>6. h[0] = c /\ \A i \in 1 .. n : h[i] = MakeLooser(h[i - 1])
    BY <1>4
  <1> QED
    BY <1>5, <1>6

\* Every turn takes one winner.
LEMMA MakeLoosers ==
  ASSUME NEW c, NEW n \in Nat, Fits(c), n <= Win(c)
  PROVE  LET e == Times(MakeLooser, c, n) IN
         /\ Fits(e) /\ e.max = c.max /\ DOMAIN e.data = DOMAIN c.data /\ Size(e) = Size(c)
         /\ Win(e) = Win(c) - n
  <1>1. PICK h : /\ h[0] = c /\ \A i \in 1 .. n : h[i] = MakeLooser(h[i - 1])
                 /\ Times(MakeLooser, c, n) = h[n]
    BY MakeLooserTimes
  <1> DEFINE Holds(e, i) ==
         /\ Fits(e) /\ e.max = c.max /\ DOMAIN e.data = DOMAIN c.data /\ Size(e) = Size(c)
         /\ Win(e) = Win(c) - i
  <1> DEFINE S == {i \in 0 .. n : Holds(h[i], i)}
  <1>2. 0 \in S
    BY <1>1, CountsAre
  <1>3. ASSUME NEW i \in 1 .. n, i - 1 \in S
        PROVE  i \in S
    <2> DEFINE d == h[i - 1]
    <2> DEFINE e == h[i]
    <2>1. Holds(d, i - 1) /\ e = MakeLooser(d) /\ i \in Nat
      BY <1>1, <1>3
    <2> HIDE DEF d, e
    <2>2. /\ Fits(d) /\ Size(d) > 0 /\ Win(d) \in Nat /\ Size(d) \in Nat /\ Win(d) <= Size(d)
          /\ Win(c) \in Nat /\ Size(c) \in Nat
      BY <2>1, CountsAre
    <2>3. /\ Fits(e) /\ e.max = d.max /\ DOMAIN e.data = DOMAIN d.data /\ Size(e) = Size(d)
          /\ Win(e) = IF Win(d) = 0 THEN 0 ELSE Win(d) - 1
      BY <2>1, <2>2, MakeLooserFits
    <2>9. Holds(e, i)
      BY <2>1, <2>2, <2>3
    <2> QED
      BY <2>9 DEF e
  <1>4. Holds(h[n], n)
    <2> HIDE DEF S
    <2>1. \A i \in 0 .. n : i \in S
      BY <1>2, <1>3, UpTo
    <2>2. n \in S
      BY <2>1
    <2> HIDE DEF Holds
    <2> QED
      BY <2>2 DEF S
  <1> QED
    BY <1>1, <1>4

LEMMA NewestWinsTimes ==
  ASSUME NEW c, NEW n \in Nat
  PROVE  \E h : /\ h[0] = c /\ \A i \in 1 .. n : h[i] = NewestWins(h[i - 1])
                /\ Times(NewestWins, c, n) = h[n]
  <1> DEFINE Is(g, m) == g = [i \in 0 .. m |-> IF i = 0 THEN c ELSE NewestWins(g[i - 1])]
  <1> DEFINE S == {m \in 0 .. n : \E g : Is(g, m)}
  <1>1. 0 \in S
    <2> DEFINE g == [i \in 0 .. 0 |-> c]
    <2>1. Is(g, 0)
      OBVIOUS
    <2> HIDE DEF g, Is
    <2>2. \E q : Is(q, 0)
      BY <2>1, Zenon
    <2> QED
      BY <2>2
  <1>2. ASSUME NEW m \in 1 .. n, m - 1 \in S
        PROVE  m \in S
    <2>1. PICK p : Is(p, m - 1)
      BY <1>2
    <2> DEFINE g == [i \in 0 .. m |-> IF i = m THEN NewestWins(p[m - 1]) ELSE p[i]]
    <2>2. \A i \in 0 .. m : g[i] = IF i = 0 THEN c ELSE NewestWins(g[i - 1])
      <3>1. \A i \in 0 .. m - 1 : p[i] = IF i = 0 THEN c ELSE NewestWins(p[i - 1])
        BY <2>1
      <3>2. \A i \in 0 .. m : i # m => i \in 0 .. m - 1 /\ g[i] = p[i]
        OBVIOUS
      <3>3. \A i \in 0 .. m : i # 0 => i - 1 \in 0 .. m - 1 /\ g[i - 1] = p[i - 1]
        OBVIOUS
      <3>4. m # 0 /\ g[m] = NewestWins(p[m - 1])
        OBVIOUS
      <3> HIDE DEF g
      <3> QED
        BY <3>1, <3>2, <3>3, <3>4
    <2>3. Is(g, m)
      BY <2>2
    <2> HIDE DEF g, Is
    <2>4. \E q : Is(q, m)
      BY <2>3, Zenon
    <2> QED
      BY <2>4
  <1>3. \E g : Is(g, n)
    <2> HIDE DEF S
    <2>1. \A i \in 0 .. n : i \in S
      BY <1>1, <1>2, UpTo
    <2>2. n \in S
      BY <2>1
    <2> HIDE DEF Is
    <2> QED
      BY <2>2 DEF S
  <1> DEFINE h == CHOOSE g : Is(g, n)
  <1>4. Is(h, n)
    BY <1>3
  <1>5. Times(NewestWins, c, n) = h[n]
    BY DEF Times
  <1> HIDE DEF h
  <1>6. h[0] = c /\ \A i \in 1 .. n : h[i] = NewestWins(h[i - 1])
    BY <1>4
  <1> QED
    BY <1>5, <1>6

\* Every turn makes one winner, as long as there are loosers.
LEMMA MakeWinners ==
  ASSUME NEW c, NEW n \in Nat, Fits(c), Size(c) > 0
  PROVE  LET e == Times(NewestWins, c, n) IN
         /\ Fits(e) /\ e.max = c.max /\ DOMAIN e.data = DOMAIN c.data /\ Size(e) = Size(c)
         /\ Win(e) <= Win(c) + n /\ (Win(e) # Size(e) => Win(e) = Win(c) + n)
  <1>1. PICK h : /\ h[0] = c /\ \A i \in 1 .. n : h[i] = NewestWins(h[i - 1])
                 /\ Times(NewestWins, c, n) = h[n]
    BY NewestWinsTimes
  <1> DEFINE Holds(e, i) ==
         /\ Fits(e) /\ e.max = c.max /\ DOMAIN e.data = DOMAIN c.data /\ Size(e) = Size(c)
         /\ Win(e) <= Win(c) + i /\ (Win(e) # Size(e) => Win(e) = Win(c) + i)
  <1> DEFINE S == {i \in 0 .. n : Holds(h[i], i)}
  <1>2. 0 \in S
    BY <1>1, CountsAre
  <1>3. ASSUME NEW i \in 1 .. n, i - 1 \in S
        PROVE  i \in S
    <2> DEFINE d == h[i - 1]
    <2> DEFINE e == h[i]
    <2>1. Holds(d, i - 1) /\ e = NewestWins(d) /\ i \in Nat
      BY <1>1, <1>3
    <2> HIDE DEF d, e
    <2>2. /\ Fits(d) /\ Size(d) > 0 /\ Win(d) \in Nat /\ Size(d) \in Nat /\ Win(d) <= Size(d)
          /\ Win(c) \in Nat /\ Size(c) \in Nat
      BY <2>1, CountsAre
    <2>3. /\ Fits(e) /\ e.max = d.max /\ DOMAIN e.data = DOMAIN d.data /\ Size(e) = Size(d)
          /\ Win(e) = IF Win(d) = Size(d) THEN Win(d) ELSE Win(d) + 1
      BY <2>1, <2>2, NewestWinsFits
    <2>9. Holds(e, i)
      BY <2>1, <2>2, <2>3
    <2> QED
      BY <2>9 DEF e
  <1>4. Holds(h[n], n)
    <2> HIDE DEF S
    <2>1. \A i \in 0 .. n : i \in S
      BY <1>2, <1>3, UpTo
    <2>2. n \in S
      BY <2>1
    <2> HIDE DEF Holds
    <2> QED
      BY <2>2 DEF S
  <1> QED
    BY <1>1, <1>4

-----------------------------------------------------------------------------
(* Cache.                                                                  *)

\* Half of the places are for winners, and used before the others are.
Shares(c, b) ==
  /\ b \in BOOLEAN /\ Size(c) <= c.max
  /\ \E h \in Nat : c.max = 2 * h /\ Win(c) <= h /\ (~b /\ Win(c) # Size(c) => Win(c) = h)

CacheInv == Fits(cache) /\ Shares(cache, bare)

\* No winner goes unless nothing is put in.
Spared == DOMAIN cache'.data \subseteq DOMAIN cache.data \/ WinnersOf(cache) \subseteq DOMAIN cache'.data

LEMMA CacheKnown ==
  ASSUME CacheInv
  PROVE  /\ Fits(cache) /\ cache.max \in Nat /\ bare \in BOOLEAN /\ Size(cache) <= cache.max
         /\ Win(cache) \in Nat /\ Size(cache) \in Nat /\ Win(cache) <= Size(cache)
         /\ \E h \in Nat : cache.max = 2 * h /\ Win(cache) <= h /\ (~bare /\ Win(cache) # Size(cache) => Win(cache) = h)
         /\ WinnersOf(cache) \subseteq DOMAIN cache.data /\ DOMAIN cache.data \subseteq Keys
  BY CountsAre, FitsMeans DEF CacheInv, Shares

LEMMA CacheThen ==
  ASSUME NEW c, cache' = c, NEW h \in Nat, NEW b \in BOOLEAN, bare' = b, Fits(c), c.max = 2 * h,
         Size(c) <= c.max, Win(c) <= h, ~b /\ Win(c) # Size(c) => Win(c) = h
  PROVE  CacheInv'
  <1>1. Shares(c, b)
    BY DEF Shares
  <1>2. Fits(cache') /\ Shares(cache', bare')
    BY <1>1
  <1> QED
    BY <1>2 DEF CacheInv

LEMMA CachePutKeeps ==
  ASSUME CacheInv, NEW k \in Keys, CachePut(k)
  PROVE  CacheInv' /\ Spared
  <1>1. /\ Fits(cache) /\ cache.max \in Nat /\ bare \in BOOLEAN /\ Size(cache) <= cache.max
        /\ Win(cache) \in Nat /\ Size(cache) \in Nat /\ Win(cache) <= Size(cache)
        /\ WinnersOf(cache) \subseteq DOMAIN cache.data /\ bare' = bare /\ cache.max > 0
    BY CacheKnown DEF CachePut
  <1>2. PICK h \in Nat : cache.max = 2 * h /\ Win(cache) <= h /\ (~bare /\ Win(cache) # Size(cache) => Win(cache) = h)
    BY CacheKnown
  <1>3. CASE k \in DOMAIN cache.data
    <2> DEFINE e == Hit(cache, k)
    <2>1. Fits(e) /\ e.max = cache.max /\ DOMAIN e.data = DOMAIN cache.data /\ Size(e) = Size(cache) /\ Win(e) = Win(cache)
      BY <1>1, <1>3, HitFits
    <2>2. cache' = e
      BY <1>3 DEF CachePut
    <2> HIDE DEF e
    <2>3. CacheInv'
      BY <1>1, <1>2, <2>1, <2>2, CacheThen
    <2> QED
      BY <2>1, <2>2, <2>3 DEF Spared
  <1>4. CASE k \notin DOMAIN cache.data /\ Size(cache) < cache.max
    <2> DEFINE w == 2 * Size(cache) < cache.max
    <2> DEFINE e == NewElement(cache, k, w)
    <2>1. w \in BOOLEAN /\ (w <=> 2 * Size(cache) < cache.max)
      OBVIOUS
    <2>2. cache' = e
      BY <1>4 DEF CachePut
    <2> HIDE DEF w
    <2>3. /\ Fits(e) /\ e.max = cache.max /\ DOMAIN e.data = DOMAIN cache.data \cup {k} /\ Size(e) = Size(cache) + 1
          /\ Win(e) = IF w THEN Win(cache) + 1 ELSE Win(cache)
      BY <1>1, <1>4, <2>1, InsertFits
    <2> HIDE DEF e
    <2>4. Win(e) <= h /\ (~bare /\ Win(e) # Size(e) => Win(e) = h) /\ Size(e) <= e.max
      BY <1>1, <1>2, <1>4, <2>1, <2>3
    <2>5. CacheInv'
      BY <1>1, <1>2, <2>2, <2>3, <2>4, CacheThen
    <2> QED
      BY <1>1, <2>2, <2>3, <2>5 DEF Spared
  <1>5. CASE k \notin DOMAIN cache.data /\ ~(Size(cache) < cache.max)
    <2> DEFINE d == DropLooser(cache)
    <2> DEFINE e == NewElement(d, k, FALSE)
    <2>1. Size(cache) = cache.max /\ Win(cache) # Size(cache)
      BY <1>1, <1>2, <1>5
    <2>2. cache' = e
      BY <1>5 DEF CachePut
    <2>3. /\ Fits(d) /\ d.max = cache.max /\ DOMAIN d.data \subseteq DOMAIN cache.data /\ Size(d) = Size(cache) - 1
          /\ Win(d) = Win(cache) /\ WinnersOf(d) = WinnersOf(cache)
      BY <1>1, <2>1, DropLooserFits
    <2> HIDE DEF d
    <2>4. /\ Fits(e) /\ e.max = d.max /\ DOMAIN e.data = DOMAIN d.data \cup {k} /\ Size(e) = Size(d) + 1
          /\ Win(e) = Win(d)
      BY <1>5, <2>3, InsertFits
    <2> HIDE DEF e
    <2>5. WinnersOf(cache) \subseteq DOMAIN e.data
      BY <2>3, <2>4, FitsMeans
    <2>6. CacheInv'
      BY <1>1, <1>2, <2>1, <2>2, <2>3, <2>4, CacheThen
    <2> QED
      BY <2>2, <2>5, <2>6 DEF Spared
  <1> QED
    BY <1>3, <1>4, <1>5

LEMMA CachePutTopKeeps ==
  ASSUME CacheInv, NEW k \in Keys, CachePutTop(k)
  PROVE  CacheInv' /\ Spared
  <1> DEFINE c == IF 2 * Size(cache) >= cache.max THEN MakeLooser(cache) ELSE cache
  <1>1. /\ Fits(cache) /\ cache.max \in Nat /\ bare \in BOOLEAN /\ Size(cache) <= cache.max
        /\ Win(cache) \in Nat /\ Size(cache) \in Nat /\ Win(cache) <= Size(cache)
        /\ WinnersOf(cache) \subseteq DOMAIN cache.data /\ cache.max > 0
    BY CacheKnown DEF CachePutTop
  <1>2. PICK h \in Nat : cache.max = 2 * h /\ Win(cache) <= h /\ (~bare /\ Win(cache) # Size(cache) => Win(cache) = h)
    BY CacheKnown
  <1>3. /\ cache' = IF Size(cache) < cache.max
                    THEN IF k \in DOMAIN cache.data THEN Counted(c) ELSE NewElement(c, k, TRUE)
                    ELSE IF k \in DOMAIN cache.data THEN Hit(cache, k)
                    ELSE NewElement(MakeLooser(DropLooser(cache)), k, TRUE)
        /\ bare' = (bare \/ (k \in DOMAIN cache.data /\ Size(cache) < cache.max))
    BY DEF CachePutTop
  <1>4. /\ Fits(c) /\ c.max = cache.max /\ DOMAIN c.data = DOMAIN cache.data /\ Size(c) = Size(cache)
        /\ Win(c) = IF 2 * Size(cache) >= cache.max THEN (IF Win(cache) = 0 THEN 0 ELSE Win(cache) - 1) ELSE Win(cache)
    <2>1. CASE 2 * Size(cache) >= cache.max
      <3>1. Size(cache) > 0
        BY <1>1, <2>1
      <3>2. LET e == MakeLooser(cache)
            IN /\ Fits(e) /\ e.max = cache.max /\ DOMAIN e.data = DOMAIN cache.data /\ Size(e) = Size(cache)
               /\ Win(e) = IF Win(cache) = 0 THEN 0 ELSE Win(cache) - 1
        BY <1>1, <3>1, MakeLooserFits
      <3> QED
        BY <2>1, <3>2
    <2>2. CASE ~(2 * Size(cache) >= cache.max)
      BY <1>1, <2>2
    <2> QED
      BY <2>1, <2>2
  <1> HIDE DEF c
  <1>5. CASE Size(cache) < cache.max /\ k \in DOMAIN cache.data
    <2> DEFINE e == Counted(c)
    <2>1. cache' = e /\ bare' = TRUE
      BY <1>3, <1>5
    <2>2. Fits(e) /\ e.max = c.max /\ DOMAIN e.data = DOMAIN c.data /\ WinnersOf(e) = WinnersOf(c)
      BY <1>4, CountedFits
    <2> HIDE DEF e
    <2>3. Size(e) = Size(cache) /\ Win(e) = Win(c)
      BY <1>4, <2>2 DEF Size, Win
    <2>4. Win(e) <= h /\ Size(e) <= e.max /\ e.max = 2 * h
      BY <1>1, <1>2, <1>4, <2>2, <2>3
    <2>5. CacheInv'
      BY <2>1, <2>2, <2>4, CacheThen
    <2> QED
      BY <1>4, <2>1, <2>2, <2>5 DEF Spared
  <1>6. CASE Size(cache) < cache.max /\ k \notin DOMAIN cache.data
    <2> DEFINE e == NewElement(c, k, TRUE)
    <2>1. cache' = e /\ bare' = bare
      BY <1>1, <1>3, <1>6
    <2>2. /\ Fits(e) /\ e.max = c.max /\ DOMAIN e.data = DOMAIN c.data \cup {k} /\ Size(e) = Size(c) + 1
          /\ Win(e) = Win(c) + 1
      BY <1>4, <1>6, InsertFits
    <2> HIDE DEF e
    <2>3. Win(e) <= h /\ (~bare /\ Win(e) # Size(e) => Win(e) = h) /\ Size(e) <= e.max /\ e.max = 2 * h
      BY <1>1, <1>2, <1>4, <1>6, <2>2
    <2>4. CacheInv'
      BY <1>1, <2>1, <2>2, <2>3, CacheThen
    <2> QED
      BY <1>1, <1>4, <2>1, <2>2, <2>4 DEF Spared
  <1>7. CASE ~(Size(cache) < cache.max) /\ k \in DOMAIN cache.data
    <2> DEFINE e == Hit(cache, k)
    <2>1. Fits(e) /\ e.max = cache.max /\ DOMAIN e.data = DOMAIN cache.data /\ Size(e) = Size(cache) /\ Win(e) = Win(cache)
      BY <1>1, <1>7, HitFits
    <2>2. cache' = e /\ bare' = bare
      BY <1>1, <1>3, <1>7
    <2> HIDE DEF e
    <2>3. CacheInv'
      BY <1>1, <1>2, <2>1, <2>2, CacheThen
    <2> QED
      BY <2>1, <2>2, <2>3 DEF Spared
  <1>8. CASE ~(Size(cache) < cache.max) /\ k \notin DOMAIN cache.data
    <2> DEFINE d == DropLooser(cache)
    <2> DEFINE m == MakeLooser(d)
    <2> DEFINE e == NewElement(m, k, TRUE)
    <2>1. Size(cache) = cache.max /\ Win(cache) # Size(cache) /\ h >= 1
      BY <1>1, <1>2, <1>8
    <2>2. cache' = e /\ bare' = bare
      BY <1>1, <1>3, <1>8
    <2>3. /\ Fits(d) /\ d.max = cache.max /\ DOMAIN d.data \subseteq DOMAIN cache.data /\ Size(d) = Size(cache) - 1
          /\ Win(d) = Win(cache) /\ WinnersOf(d) = WinnersOf(cache)
      BY <1>1, <2>1, DropLooserFits
    <2> HIDE DEF d
    <2>4. /\ Fits(m) /\ m.max = d.max /\ DOMAIN m.data = DOMAIN d.data /\ Size(m) = Size(d)
          /\ Win(m) = IF Win(d) = 0 THEN 0 ELSE Win(d) - 1
      BY <1>1, <1>2, <2>1, <2>3, MakeLooserFits
    <2> HIDE DEF m
    <2>5. /\ Fits(e) /\ e.max = m.max /\ DOMAIN e.data = DOMAIN m.data \cup {k} /\ Size(e) = Size(m) + 1
          /\ Win(e) = Win(m) + 1
      BY <1>8, <2>3, <2>4, InsertFits
    <2> HIDE DEF e
    <2>6. WinnersOf(cache) \subseteq DOMAIN e.data
      BY <2>3, <2>4, <2>5, FitsMeans
    <2>7. Win(e) <= h /\ (~bare /\ Win(e) # Size(e) => Win(e) = h) /\ Size(e) <= e.max /\ e.max = 2 * h
      BY <1>1, <1>2, <2>1, <2>3, <2>4, <2>5
    <2>8. CacheInv'
      BY <1>1, <2>2, <2>5, <2>7, CacheThen
    <2> QED
      BY <2>2, <2>6, <2>8 DEF Spared
  <1> QED
    BY <1>5, <1>6, <1>7, <1>8

LEMMA CacheGetKeeps ==
  ASSUME CacheInv, NEW k \in Keys, CacheGet(k)
  PROVE  CacheInv' /\ Spared
  <1> DEFINE e == Hit(cache, k)
  <1>1. k \in DOMAIN cache.data /\ cache' = e /\ bare' = bare
    BY DEF CacheGet
  <1>2. Fits(e) /\ e.max = cache.max /\ DOMAIN e.data = DOMAIN cache.data /\ Size(e) = Size(cache) /\ Win(e) = Win(cache)
    BY <1>1, CacheKnown, HitFits
  <1> HIDE DEF e
  <1>3. CacheInv'
    <2>1. PICK h \in Nat : cache.max = 2 * h /\ Win(cache) <= h /\ (~bare /\ Win(cache) # Size(cache) => Win(cache) = h)
      BY CacheKnown
    <2>2. Size(cache) <= cache.max /\ bare \in BOOLEAN
      BY CacheKnown
    <2> QED
      BY <1>1, <1>2, <2>1, <2>2, CacheThen
  <1> QED
    BY <1>1, <1>2, <1>3 DEF Spared

LEMMA CacheEraseKeeps ==
  ASSUME CacheInv, NEW k \in Keys, CacheErase(k)
  PROVE  CacheInv' /\ Spared
  <1> DEFINE j == GetNewest(cache.data, FALSE)
  <1> DEFINE c == IF cache.data[k].winner THEN NewestWins(cache) ELSE cache
  <1> DEFINE e == [c EXCEPT !.data = Without(@, k)]
  <1>1. /\ Fits(cache) /\ cache.max \in Nat /\ bare \in BOOLEAN /\ Size(cache) <= cache.max
        /\ Win(cache) \in Nat /\ Size(cache) \in Nat /\ Win(cache) <= Size(cache)
        /\ k \in DOMAIN cache.data /\ bare' = bare
    BY CacheKnown DEF CacheErase
  <1>2. PICK h \in Nat : cache.max = 2 * h /\ Win(cache) <= h /\ (~bare /\ Win(cache) # Size(cache) => Win(cache) = h)
    BY CacheKnown
  <1>3. cache' = e
    <2> DEFINE d == IF cache.data[k].winner THEN [cache.data EXCEPT ![j].winner = TRUE] ELSE cache.data
    <2>1. cache' = [cache EXCEPT !.data = Without(d, k)]
      BY DEF CacheErase
    <2>2. cache = [data |-> cache.data, max |-> cache.max, serial |-> cache.serial]
      BY <1>1, FitsMeans DEF CacheRecords
    <2>3. c = [cache EXCEPT !.data = d]
      <3>1. CASE cache.data[k].winner
        BY <3>1 DEF NewestWins
      <3>2. CASE ~cache.data[k].winner
        BY <2>2, <3>2
      <3> QED
        BY <3>1, <3>2
    <2> HIDE DEF c, d
    <2> QED
      BY <2>1, <2>2, <2>3
  <1>4. /\ Fits(c) /\ c.max = cache.max /\ DOMAIN c.data = DOMAIN cache.data /\ Size(c) = Size(cache)
        /\ k \in WinnersOf(cache) => /\ WinnersOf(cache) \subseteq WinnersOf(c)
                                     /\ Win(c) = IF Win(cache) = Size(cache) THEN Win(cache) ELSE Win(cache) + 1
        /\ k \notin WinnersOf(cache) => c = cache
    <2>1. CASE cache.data[k].winner
      <3>1. Size(cache) > 0 /\ k \in WinnersOf(cache)
        BY <1>1, <2>1, CountsAre DEF WinnersOf
      <3>2. LET n == NewestWins(cache)
            IN /\ Fits(n) /\ n.max = cache.max /\ DOMAIN n.data = DOMAIN cache.data /\ Size(n) = Size(cache)
               /\ Win(n) = IF Win(cache) = Size(cache) THEN Win(cache) ELSE Win(cache) + 1
               /\ WinnersOf(n) = WinnersOf(cache) \cup {j}
        BY <1>1, <3>1, NewestWinsFits
      <3> QED
        BY <2>1, <3>1, <3>2
    <2>2. CASE ~cache.data[k].winner
      BY <1>1, <2>2 DEF WinnersOf
    <2> QED
      BY <2>1, <2>2
  <1> HIDE DEF c
  <1>5. Fits(e) /\ e.max = c.max /\ DOMAIN e.data = DOMAIN c.data \ {k} /\ WinnersOf(e) = WinnersOf(c) \ {k}
    <2>1. k \in DOMAIN c.data /\ Fits(c)
      BY <1>1, <1>4
    <2>2. e = [c EXCEPT !.data = Without(@, k)]
      OBVIOUS
    <2> HIDE DEF e
    <2> QED
      BY <2>1, <2>2, DroppedFits
  <1> HIDE DEF e
  <1>6. Size(e) = Size(c) - 1
    <2>1. IsFiniteSet(DOMAIN c.data) /\ k \in DOMAIN c.data
      BY <1>1, <1>4, FitsMeans
    <2> QED
      BY <1>5, <2>1, FS_RemoveElement DEF Size
  <1>7. Win(e) <= h /\ (~bare /\ Win(e) # Size(e) => Win(e) = h)
    <2>1. CASE k \in WinnersOf(cache)
      <3>1. k \in WinnersOf(c) /\ IsFiniteSet(WinnersOf(c))
        BY <1>4, <2>1, FitsMeans
      <3>2. Win(e) = Win(c) - 1
        BY <1>5, <3>1, FS_RemoveElement DEF Win
      <3> QED
        BY <1>1, <1>2, <1>4, <1>6, <2>1, <3>2
    <2>2. CASE k \notin WinnersOf(cache)
      <3>1. WinnersOf(e) = WinnersOf(cache)
        BY <1>4, <1>5, <2>2
      <3>2. Win(e) = Win(cache)
        BY <3>1 DEF Win
      <3>3. Win(cache) # Size(cache)
        BY <1>1, <2>2, CountsAre
      <3> QED
        BY <1>1, <1>2, <3>2, <3>3
    <2> QED
      BY <2>1, <2>2
  <1>8. CacheInv'
    <2>1. Size(e) <= e.max /\ e.max = 2 * h
      BY <1>1, <1>2, <1>4, <1>5, <1>6
    <2> QED
      BY <1>1, <1>3, <1>5, <1>7, <2>1, CacheThen
  <1> QED
    BY <1>3, <1>4, <1>5, <1>8 DEF Spared

LEMMA CacheClearKeeps ==
  ASSUME CacheInv, CacheClear
  PROVE  CacheInv' /\ Spared
  <1> DEFINE d == <<>>
  <1> DEFINE e == [data |-> d, max |-> cache.max, serial |-> cache.serial]
  <1>1. /\ Fits(cache) /\ cache.max \in Nat /\ cache.serial \in Nat /\ cache.serial <= SerialMax /\ bare \in BOOLEAN
        /\ cache = [data |-> cache.data, max |-> cache.max, serial |-> cache.serial]
    BY CacheKnown, FitsMeans DEF Fits, CacheRecords
  <1>2. PICK h \in Nat : cache.max = 2 * h /\ Win(cache) <= h
    BY CacheKnown
  <1>3. cache' = e /\ bare' = bare
    BY <1>1 DEF CacheClear
  <1>4. DOMAIN d = {} /\ d \in [DOMAIN d -> Entries]
    OBVIOUS
  <1> HIDE DEF d
  <1>5. e.data = d /\ e.max = cache.max /\ e.serial = cache.serial /\ e = [data |-> d, max |-> e.max, serial |-> e.serial]
    OBVIOUS
  <1> HIDE DEF e
  <1>6. Fits(e)
    BY <1>1, <1>4, <1>5, FS_EmptySet, FitsIf
  <1>7. Size(e) = 0 /\ Win(e) = 0
    BY <1>4, <1>5, FS_EmptySet DEF Size, Win, WinnersOf
  <1>8. CacheInv'
    BY <1>1, <1>2, <1>3, <1>5, <1>6, <1>7, CacheThen
  <1> QED
    BY <1>3, <1>4, <1>5, <1>8 DEF Spared

LEMMA MaxFits ==
  ASSUME NEW c, Fits(c), NEW m \in Nat, NEW e, e = [c EXCEPT !.max = m]
  PROVE  Fits(e) /\ e.max = m /\ e.data = c.data /\ Size(e) = Size(c) /\ Win(e) = Win(c)
  <1> DEFINE d == c.data
  <1> DEFINE s == c.serial
  <1>1. /\ c = [data |-> d, max |-> c.max, serial |-> s] /\ s \in Nat
        /\ s <= SerialMax /\ DOMAIN d \subseteq Keys /\ IsFiniteSet(DOMAIN d) /\ d \in [DOMAIN d -> Entries]
        /\ \A j \in DOMAIN d : d[j].serial < s
    BY FitsMeans DEF Fits, CacheRecords
  <1>2. e = [data |-> d, max |-> m, serial |-> s]
    BY <1>1
  <1> HIDE DEF d, s
  <1>3. e.data = d /\ e.max = m /\ e.serial = s /\ e = [data |-> d, max |-> e.max, serial |-> e.serial]
    <2> DEFINE r == [data |-> d, max |-> m, serial |-> s]
    <2>1. r.data = d /\ r.max = m /\ r.serial = s
      OBVIOUS
    <2>2. e = r
      BY <1>2
    <2> QED
      BY <2>1, <2>2, Zenon
  <1>4. Fits(e)
    BY <1>1, <1>3, FitsIf
  <1>5. e.data = c.data
    BY <1>3 DEF d
  <1> QED
    BY <1>3, <1>4, <1>5 DEF Size, Win, WinnersOf

LEMMA EvenIs ==
  ASSUME NEW n \in Nat
  PROVE  \E h \in Nat : Even(n) = 2 * h /\ Even(n) \div 2 = h
  <1> DEFINE h == (n + 1) \div 2
  <1>1. h \in Nat /\ Even(n) = 2 * h /\ Even(n) \div 2 = h
    BY DEF Even
  <1> QED
    BY <1>1

LEMMA CacheSetMaxKeeps ==
  ASSUME CacheInv, NEW n \in Sizes, CacheSetMax(n)
  PROVE  CacheInv' /\ Spared
  <1> DEFINE m == Even(n)
  <1> DEFINE w == Cardinality(WinnersOf(cache))
  <1> DEFINE small == Times(DropLooser, cache, Excess(Size(cache), m))
  <1> DEFINE missing == Excess(m \div 2, w)
  <1> DEFINE more == IF Size(cache) = 0 THEN cache ELSE Times(NewestWins, cache, missing)
  <1> DEFINE less == Times(MakeLooser, small, Excess(Cardinality(WinnersOf(small)), m \div 2))
  <1>1. /\ Fits(cache) /\ cache.max \in Nat /\ bare \in BOOLEAN /\ Size(cache) <= cache.max
        /\ Win(cache) \in Nat /\ Size(cache) \in Nat /\ Win(cache) <= Size(cache)
        /\ bare' = bare /\ n \in Nat
    BY CacheKnown, CacheAssumption DEF CacheSetMax
  <1>2. PICK h \in Nat : cache.max = 2 * h /\ Win(cache) <= h /\ (~bare /\ Win(cache) # Size(cache) => Win(cache) = h)
    BY CacheKnown
  <1>3. cache' = IF m > cache.max THEN [more EXCEPT !.max = m] ELSE [less EXCEPT !.max = m]
    BY DEF CacheSetMax
  <1>4. w = Win(cache)
    BY DEF Win
  <1>5. PICK g \in Nat : m = 2 * g /\ m \div 2 = g
    BY <1>1, EvenIs
  <1> HIDE DEF m, w
  <1>6. CASE m > cache.max
    <2> DEFINE e == [more EXCEPT !.max = m]
    <2>1. missing = g - Win(cache) /\ missing \in Nat /\ h < g
      BY <1>1, <1>2, <1>4, <1>5, <1>6 DEF Excess
    <2> HIDE DEF missing
    <2>2. /\ Fits(more) /\ DOMAIN more.data = DOMAIN cache.data /\ Size(more) = Size(cache)
          /\ Win(more) <= g /\ (Win(more) # Size(more) => Win(more) = g)
      <3>1. CASE Size(cache) = 0
        BY <1>1, <2>1, <3>1
      <3>2. CASE Size(cache) # 0
        <4>1. LET e2 == Times(NewestWins, cache, missing) IN
              /\ Fits(e2) /\ e2.max = cache.max /\ DOMAIN e2.data = DOMAIN cache.data /\ Size(e2) = Size(cache)
              /\ Win(e2) <= Win(cache) + missing /\ (Win(e2) # Size(e2) => Win(e2) = Win(cache) + missing)
          BY <1>1, <2>1, <3>2, MakeWinners
        <4>2. Win(cache) + missing = g
          BY <1>1, <2>1
        <4> QED
          BY <3>2, <4>1, <4>2
      <3> QED
        BY <3>1, <3>2
    <2> HIDE DEF more
    <2>3. cache' = e
      BY <1>3, <1>6
    <2>4. Fits(e) /\ e.max = m /\ e.data = more.data /\ Size(e) = Size(more) /\ Win(e) = Win(more)
      BY <1>5, <2>2, MaxFits
    <2> HIDE DEF e
    <2>5. CacheInv'
      BY <1>1, <1>5, <1>6, <2>2, <2>3, <2>4, CacheThen
    <2> QED
      BY <2>2, <2>3, <2>4, <2>5 DEF Spared
  <1>7. CASE ~(m > cache.max)
    <2> DEFINE drops == Excess(Size(cache), m)
    <2>1. drops \in Nat /\ drops <= Size(cache) /\ Size(cache) - drops <= m
          /\ (Size(cache) - drops = m \/ drops = 0) /\ g <= h
      BY <1>1, <1>2, <1>5, <1>7 DEF Excess
    <2>2. small = Times(DropLooser, cache, drops)
      OBVIOUS
    <2> HIDE DEF drops, small
    <2>3. /\ Fits(small) /\ small.max = cache.max /\ DOMAIN small.data \subseteq DOMAIN cache.data
          /\ Size(small) = Size(cache) - drops
          /\ Win(small) <= Win(cache) /\ (Win(small) # Size(small) => Win(small) = Win(cache))
      BY <1>1, <2>1, <2>2, DropLoosers
    <2>4. Win(small) \in Nat /\ Size(small) \in Nat /\ Win(small) <= Size(small)
      BY <2>3, CountsAre
    <2> DEFINE turns == Excess(Win(small), g)
    <2>5. turns \in Nat /\ turns <= Win(small) /\ (Win(small) <= g => turns = 0) /\ (Win(small) > g => Win(small) - turns = g)
      BY <1>5, <2>4 DEF Excess
    <2>6. less = Times(MakeLooser, small, turns)
      BY <1>5 DEF Win
    <2> HIDE DEF turns, less
    <2>7. /\ Fits(less) /\ less.max = small.max /\ DOMAIN less.data = DOMAIN small.data /\ Size(less) = Size(small)
          /\ Win(less) = Win(small) - turns
      BY <2>3, <2>5, <2>6, MakeLoosers
    <2> DEFINE e == [less EXCEPT !.max = m]
    <2>8. cache' = e
      BY <1>3, <1>7
    <2>9. Fits(e) /\ e.max = m /\ e.data = less.data /\ Size(e) = Size(less) /\ Win(e) = Win(less)
      BY <1>5, <2>7, MaxFits
    <2> HIDE DEF e
    <2>10. Win(e) <= g /\ (~bare /\ Win(e) # Size(e) => Win(e) = g) /\ Size(e) <= e.max
      BY <1>1, <1>2, <1>5, <2>1, <2>3, <2>4, <2>5, <2>7, <2>9
    <2>11. CacheInv'
      BY <1>1, <1>5, <2>8, <2>9, <2>10, CacheThen
    <2> QED
      BY <2>3, <2>7, <2>8, <2>9, <2>11 DEF Spared
  <1> QED
    BY <1>6, <1>7

-----------------------------------------------------------------------------
(* LruCache.                                                               *)

LruFits(c) ==
  c \in [data : Maps(Nat), max : Nat, serial : Nat] /\ IsFiniteSet(DOMAIN c.data)

\* What is left of a cache when elements go.
PartOf(e, c) ==
  /\ LruFits(e) /\ e.serial = c.serial /\ DOMAIN e.data \subseteq DOMAIN c.data
  /\ \A j \in DOMAIN e.data : e.data[j] = c.data[j]

LruInv ==
  /\ LruFits(lru) /\ Size(lru) <= lru.max /\ wrapped \in BOOLEAN
  /\ ~wrapped => \A k \in DOMAIN lru.data : lru.data[k] < lru.serial
  /\ DropsLeastRecent

LEMMA LruFitsMeans ==
  ASSUME NEW c, LruFits(c)
  PROVE  /\ c = [data |-> c.data, max |-> c.max, serial |-> c.serial] /\ c.max \in Nat /\ c.serial \in Nat
         /\ DOMAIN c.data \subseteq Keys /\ c.data \in [DOMAIN c.data -> Nat] /\ \A k \in DOMAIN c.data : c.data[k] \in Nat
         /\ IsFiniteSet(DOMAIN c.data) /\ Size(c) \in Nat /\ (Size(c) = 0 <=> DOMAIN c.data = {})
  <1>1. /\ c = [data |-> c.data, max |-> c.max, serial |-> c.serial] /\ c.max \in Nat /\ c.serial \in Nat
        /\ c.data \in Maps(Nat) /\ IsFiniteSet(DOMAIN c.data)
    BY DEF LruFits
  <1>2. DOMAIN c.data \subseteq Keys /\ c.data \in [DOMAIN c.data -> Nat]
    BY <1>1, MapsAre
  <1>3. Size(c) \in Nat /\ (Size(c) = 0 <=> DOMAIN c.data = {})
    BY <1>1, FS_CardinalityType, FS_EmptySet DEF Size
  <1>4. \A k \in DOMAIN c.data : c.data[k] \in Nat
    BY <1>2
  <1> QED
    BY <1>1, <1>2, <1>3, <1>4

LEMMA LruFitsIf ==
  ASSUME NEW d, NEW m \in Nat, NEW s \in Nat, DOMAIN d \subseteq Keys, IsFiniteSet(DOMAIN d), d \in [DOMAIN d -> Nat]
  PROVE  LET e == [data |-> d, max |-> m, serial |-> s] IN LruFits(e) /\ e.data = d /\ e.max = m /\ e.serial = s
  <1> DEFINE e == [data |-> d, max |-> m, serial |-> s]
  <1>1. d \in Maps(Nat)
    BY MapsAre
  <1>2. e \in [data : Maps(Nat), max : Nat, serial : Nat]
    BY <1>1
  <1>3. e.data = d /\ e.max = m /\ e.serial = s
    OBVIOUS
  <1> QED
    BY <1>2, <1>3 DEF LruFits

LEMMA WithoutLru ==
  ASSUME NEW c, LruFits(c), NEW k \in DOMAIN c.data, NEW e, e = [c EXCEPT !.data = Without(@, k)]
  PROVE  PartOf(e, c) /\ e.max = c.max /\ DOMAIN e.data = DOMAIN c.data \ {k} /\ Size(e) = Size(c) - 1
  <1> DEFINE d == c.data
  <1> DEFINE f == Without(d, k)
  <1>1. /\ c = [data |-> d, max |-> c.max, serial |-> c.serial] /\ c.max \in Nat /\ c.serial \in Nat
        /\ DOMAIN d \subseteq Keys /\ IsFiniteSet(DOMAIN d) /\ \A j \in DOMAIN d : d[j] \in Nat
    BY LruFitsMeans
  <1>2. e = [data |-> f, max |-> c.max, serial |-> c.serial]
    BY <1>1
  <1> HIDE DEF d
  <1>3. DOMAIN f = DOMAIN d \ {k} /\ (\A j \in DOMAIN f : f[j] = d[j]) /\ f \in [DOMAIN f -> Nat]
    BY <1>1 DEF Without
  <1>4. IsFiniteSet(DOMAIN f) /\ Cardinality(DOMAIN f) = Cardinality(DOMAIN d) - 1
    BY <1>1, <1>3, FS_RemoveElement DEF d
  <1> HIDE DEF f
  <1>5. LruFits(e) /\ e.data = f /\ e.max = c.max /\ e.serial = c.serial
    BY <1>1, <1>2, <1>3, <1>4, LruFitsIf
  <1> QED
    BY <1>3, <1>4, <1>5 DEF PartOf, Size, d

LEMMA LruDropFits ==
  ASSUME NEW c, LruFits(c), Size(c) > 0
  PROVE  PartOf(LruDrop(c), c) /\ LruDrop(c).max = c.max /\ Size(LruDrop(c)) = Size(c) - 1
  <1> DEFINE d == c.data
  <1> DEFINE first == {k \in DOMAIN d : \A j \in DOMAIN d : d[k] <= d[j]}
  <1> DEFINE serials == {d[k] : k \in DOMAIN d}
  <1>1. DOMAIN d \in SUBSET Nat /\ DOMAIN d # {} /\ \A k \in DOMAIN d : d[k] \in Nat
    BY LruFitsMeans, CacheAssumption
  <1> HIDE DEF d
  <1>2. \E m \in serials : \A s \in serials : m <= s
    <2>1. serials \in SUBSET Nat /\ serials # {}
      BY <1>1
    <2> QED
      BY <2>1, MinIsLeast
  <1>3. first # {} /\ first \in SUBSET Nat
    BY <1>1, <1>2
  <1>4. Min(first) \in first
    BY <1>3, MinIsLeast
  <1>5. LruOldest(d) \in DOMAIN c.data
    BY <1>4 DEF LruOldest, d
  <1>6. LruDrop(c) = [c EXCEPT !.data = Without(@, LruOldest(d))]
    BY DEF LruDrop, d
  <1> DEFINE k == LruOldest(d)
  <1> HIDE DEF k
  <1>7. k \in DOMAIN c.data /\ LruDrop(c) = [c EXCEPT !.data = Without(@, k)]
    BY <1>5, <1>6 DEF k
  <1> DEFINE e == LruDrop(c)
  <1>8. e = [c EXCEPT !.data = Without(@, k)]
    BY <1>7
  <1> HIDE DEF e
  <1>9. PartOf(e, c) /\ e.max = c.max /\ Size(e) = Size(c) - 1
    BY <1>7, <1>8, WithoutLru
  <1> QED
    BY <1>9 DEF e

LEMMA LruDropTimes ==
  ASSUME NEW c, NEW n \in Nat
  PROVE  \E h : /\ h[0] = c /\ \A i \in 1 .. n : h[i] = LruDrop(h[i - 1])
                /\ Times(LruDrop, c, n) = h[n]
  <1> DEFINE Is(g, m) == g = [i \in 0 .. m |-> IF i = 0 THEN c ELSE LruDrop(g[i - 1])]
  <1> DEFINE S == {m \in 0 .. n : \E g : Is(g, m)}
  <1>1. 0 \in S
    <2> DEFINE g == [i \in 0 .. 0 |-> c]
    <2>1. Is(g, 0)
      OBVIOUS
    <2> HIDE DEF g, Is
    <2>2. \E q : Is(q, 0)
      BY <2>1, Zenon
    <2> QED
      BY <2>2
  <1>2. ASSUME NEW m \in 1 .. n, m - 1 \in S
        PROVE  m \in S
    <2>1. PICK p : Is(p, m - 1)
      BY <1>2
    <2> DEFINE g == [i \in 0 .. m |-> IF i = m THEN LruDrop(p[m - 1]) ELSE p[i]]
    <2>2. \A i \in 0 .. m : g[i] = IF i = 0 THEN c ELSE LruDrop(g[i - 1])
      <3>1. \A i \in 0 .. m - 1 : p[i] = IF i = 0 THEN c ELSE LruDrop(p[i - 1])
        BY <2>1
      <3>2. \A i \in 0 .. m : i # m => i \in 0 .. m - 1 /\ g[i] = p[i]
        OBVIOUS
      <3>3. \A i \in 0 .. m : i # 0 => i - 1 \in 0 .. m - 1 /\ g[i - 1] = p[i - 1]
        OBVIOUS
      <3>4. m # 0 /\ g[m] = LruDrop(p[m - 1])
        OBVIOUS
      <3> HIDE DEF g
      <3> QED
        BY <3>1, <3>2, <3>3, <3>4
    <2>3. Is(g, m)
      BY <2>2
    <2> HIDE DEF g, Is
    <2>4. \E q : Is(q, m)
      BY <2>3, Zenon
    <2> QED
      BY <2>4
  <1>3. \E g : Is(g, n)
    <2> HIDE DEF S
    <2>1. \A i \in 0 .. n : i \in S
      BY <1>1, <1>2, UpTo
    <2>2. n \in S
      BY <2>1
    <2> HIDE DEF Is
    <2> QED
      BY <2>2 DEF S
  <1> DEFINE h == CHOOSE g : Is(g, n)
  <1>4. Is(h, n)
    BY <1>3
  <1>5. Times(LruDrop, c, n) = h[n]
    BY DEF Times
  <1> HIDE DEF h
  <1>6. h[0] = c /\ \A i \in 1 .. n : h[i] = LruDrop(h[i - 1])
    BY <1>4
  <1> QED
    BY <1>5, <1>6

LEMMA LruDrops ==
  ASSUME NEW c, NEW n \in Nat, LruFits(c), n <= Size(c)
  PROVE  LET e == Times(LruDrop, c, n) IN
         PartOf(e, c) /\ e.max = c.max /\ Size(e) = Size(c) - n
  <1>1. PICK h : /\ h[0] = c /\ \A i \in 1 .. n : h[i] = LruDrop(h[i - 1])
                 /\ Times(LruDrop, c, n) = h[n]
    BY LruDropTimes
  <1> DEFINE Holds(e, i) ==
         PartOf(e, c) /\ e.max = c.max /\ Size(e) = Size(c) - i
  <1> DEFINE S == {i \in 0 .. n : Holds(h[i], i)}
  <1>2. 0 \in S
    BY <1>1, LruFitsMeans DEF PartOf
  <1>3. ASSUME NEW i \in 1 .. n, i - 1 \in S
        PROVE  i \in S
    <2> DEFINE d == h[i - 1]
    <2> DEFINE e == h[i]
    <2>1. Holds(d, i - 1) /\ e = LruDrop(d) /\ i \in Nat
      BY <1>1, <1>3
    <2> HIDE DEF d, e
    <2>2. LruFits(d) /\ Size(d) > 0 /\ Size(c) \in Nat
      BY <2>1, LruFitsMeans DEF PartOf
    <2>3. PartOf(e, d) /\ e.max = d.max /\ Size(e) = Size(d) - 1
      BY <2>1, <2>2, LruDropFits
    <2>4. PartOf(e, c)
      BY <2>1, <2>3 DEF PartOf
    <2>9. Holds(e, i)
      BY <2>1, <2>2, <2>3, <2>4
    <2> QED
      BY <2>9 DEF e
  <1>4. Holds(h[n], n)
    <2> HIDE DEF S
    <2>1. \A i \in 0 .. n : i \in S
      BY <1>2, <1>3, UpTo
    <2>2. n \in S
      BY <2>1
    <2> HIDE DEF Holds
    <2> QED
      BY <2>2 DEF S
  <1> QED
    BY <1>1, <1>4

LEMMA LruRenewedFits ==
  ASSUME NEW c, LruFits(c), NEW k \in Keys
  PROVE  LET e == LruRenewed(c, k) IN
         /\ LruFits(e) /\ e.max = c.max /\ DOMAIN e.data = DOMAIN c.data \cup {k}
         /\ Size(e) = IF k \in DOMAIN c.data THEN Size(c) ELSE Size(c) + 1
         /\ c.serial # SerialMax =>
              /\ e.serial = c.serial + 1 /\ e.data[k] = c.serial
              /\ \A j \in DOMAIN c.data : j # k => e.data[j] = c.data[j]
  <1> DEFINE d == c.data
  <1> DEFINE b == IF c.serial = SerialMax THEN [j \in DOMAIN d |-> 0] ELSE d
  <1> DEFINE s == IF c.serial = SerialMax THEN 2 ELSE c.serial + 1
  <1> DEFINE f == With(b, k, s - 1)
  <1> DEFINE e == LruRenewed(c, k)
  <1>1. /\ c = [data |-> d, max |-> c.max, serial |-> c.serial] /\ c.max \in Nat /\ c.serial \in Nat
        /\ DOMAIN d \subseteq Keys /\ IsFiniteSet(DOMAIN d) /\ \A j \in DOMAIN d : d[j] \in Nat
    BY LruFitsMeans
  <1>2. e = [data |-> f, max |-> c.max, serial |-> s]
    <2> DEFINE n == IF c.serial = SerialMax THEN [c EXCEPT !.data = [j \in DOMAIN @ |-> 0], !.serial = 2]
                    ELSE [c EXCEPT !.serial = @ + 1]
    <2>1. n = [data |-> b, max |-> c.max, serial |-> s]
      <3>1. CASE c.serial = SerialMax
        BY <1>1, <3>1
      <3>2. CASE c.serial # SerialMax
        BY <1>1, <3>2
      <3> QED
        BY <3>1, <3>2
    <2>2. e = [n EXCEPT !.data = With(@, k, n.serial - 1)]
      BY DEF LruRenewed
    <2> HIDE DEF n, b, s, e, d
    <2> QED
      BY <2>1, <2>2
  <1> HIDE DEF d, e
  <1>3. s \in Nat /\ s - 1 \in Nat /\ (c.serial # SerialMax => s = c.serial + 1 /\ b = d)
    BY <1>1
  <1>4. DOMAIN b = DOMAIN d /\ \A j \in DOMAIN d : b[j] \in Nat
    BY <1>1
  <1> HIDE DEF b, s
  <1>5. DOMAIN f = DOMAIN d \cup {k} /\ f[k] = s - 1 /\ (\A j \in DOMAIN d : j # k => f[j] = b[j])
    BY <1>4 DEF With
  <1>6. f \in [DOMAIN f -> Nat]
    BY <1>3, <1>4 DEF With
  <1> HIDE DEF f
  <1>7. IsFiniteSet(DOMAIN f)
        /\ Cardinality(DOMAIN f) = IF k \in DOMAIN d THEN Cardinality(DOMAIN d) ELSE Cardinality(DOMAIN d) + 1
    <2>1. CASE k \in DOMAIN d
      <3>1. DOMAIN f = DOMAIN d
        BY <1>5, <2>1
      <3> QED
        BY <1>1, <2>1, <3>1
    <2>2. CASE k \notin DOMAIN d
      BY <1>1, <1>5, <2>2, FS_AddElement
    <2> QED
      BY <2>1, <2>2
  <1>8. DOMAIN f \subseteq Keys
    BY <1>1, <1>5
  <1>9. LruFits(e) /\ e.data = f /\ e.max = c.max /\ e.serial = s
    BY <1>1, <1>2, <1>3, <1>6, <1>7, <1>8, LruFitsIf
  <1>10. c.serial # SerialMax =>
           /\ e.serial = c.serial + 1 /\ e.data[k] = c.serial
           /\ \A j \in DOMAIN c.data : j # k => e.data[j] = c.data[j]
    BY <1>1, <1>3, <1>5, <1>9 DEF d
  <1> QED
    BY <1>5, <1>7, <1>9, <1>10 DEF Size, d, e

\* What is left keeps its order.
LEMMA LruLess ==
  ASSUME LruInv, NEW e, PartOf(e, lru), lru' = e, Size(e) <= e.max, usedBefore' = StillIn(usedBefore, e), wrapped' = wrapped
  PROVE  LruInv'
  <1>1. LruFits(lru') /\ Size(lru') <= lru'.max /\ wrapped' \in BOOLEAN
    BY DEF LruInv, PartOf
  <1>2. ASSUME ~wrapped'
        PROVE  /\ \A k \in DOMAIN lru'.data : lru'.data[k] < lru'.serial
               /\ \A j, k \in DOMAIN lru'.data : lru'.data[j] < lru'.data[k] <=> <<j, k>> \in usedBefore'
    <2>1. /\ \A k \in DOMAIN lru.data : lru.data[k] < lru.serial
          /\ \A j, k \in DOMAIN lru.data : lru.data[j] < lru.data[k] <=> <<j, k>> \in usedBefore
      BY <1>2 DEF LruInv, DropsLeastRecent
    <2>2. e.serial = lru.serial /\ DOMAIN e.data \subseteq DOMAIN lru.data /\ \A j \in DOMAIN e.data : e.data[j] = lru.data[j]
      BY DEF PartOf
    <2>3. \A j, k \in DOMAIN e.data : <<j, k>> \in usedBefore' <=> <<j, k>> \in usedBefore
      BY DEF StillIn
    <2> QED
      BY <2>1, <2>2, <2>3
  <1> QED
    BY <1>1, <1>2 DEF LruInv, DropsLeastRecent

\* What is used comes behind all others, unless the serial wraps around.
LEMMA LruMore ==
  ASSUME LruInv, NEW c, PartOf(c, lru), NEW k \in Keys, NEW e, e = LruRenewed(c, k), lru' = e,
         IF k \in DOMAIN c.data THEN Size(c) <= c.max ELSE Size(c) < c.max,
         usedBefore' = Used(usedBefore, e, k), wrapped' = (wrapped \/ lru.serial = SerialMax)
  PROVE  LruInv'
  <1>1. LruFits(c) /\ c.serial = lru.serial /\ DOMAIN c.data \subseteq DOMAIN lru.data
        /\ \A j \in DOMAIN c.data : c.data[j] = lru.data[j]
    BY DEF PartOf
  <1>2. /\ LruFits(e) /\ e.max = c.max /\ DOMAIN e.data = DOMAIN c.data \cup {k}
        /\ Size(e) = IF k \in DOMAIN c.data THEN Size(c) ELSE Size(c) + 1
        /\ c.serial # SerialMax =>
             /\ e.serial = c.serial + 1 /\ e.data[k] = c.serial
             /\ \A j \in DOMAIN c.data : j # k => e.data[j] = c.data[j]
    BY <1>1, LruRenewedFits
  <1>3. Size(c) \in Nat /\ c.max \in Nat /\ c.serial \in Nat /\ \A j \in DOMAIN c.data : c.data[j] \in Nat
    BY <1>1, LruFitsMeans
  <1>4. LruFits(lru') /\ Size(lru') <= lru'.max /\ wrapped' \in BOOLEAN
    BY <1>2, <1>3 DEF LruInv
  <1>5. ASSUME ~wrapped'
        PROVE  /\ \A j \in DOMAIN lru'.data : lru'.data[j] < lru'.serial
               /\ \A j, l \in DOMAIN lru'.data : lru'.data[j] < lru'.data[l] <=> <<j, l>> \in usedBefore'
    <2>1. /\ \A j \in DOMAIN lru.data : lru.data[j] < lru.serial
          /\ \A j, l \in DOMAIN lru.data : lru.data[j] < lru.data[l] <=> <<j, l>> \in usedBefore
      BY <1>5 DEF LruInv, DropsLeastRecent
    <2>2. c.serial # SerialMax
      BY <1>1, <1>5
    <2>3. /\ e.serial = c.serial + 1 /\ e.data[k] = c.serial
          /\ \A j \in DOMAIN e.data : j # k => j \in DOMAIN c.data /\ e.data[j] = lru.data[j] /\ e.data[j] < c.serial
      BY <1>1, <1>2, <2>1, <2>2
    <2>4. \A j, l \in DOMAIN e.data : <<j, l>> \in usedBefore' <=>
            \/ j # k /\ l # k /\ <<j, l>> \in usedBefore
            \/ j # k /\ l = k
      <3> TAKE j, l \in DOMAIN e.data
      <3> DEFINE p == <<j, l>>
      <3>1. p[1] = j /\ p[2] = l
        OBVIOUS
      <3>2. p \in StillIn(usedBefore, e) <=> p \in usedBefore
        BY <3>1 DEF StillIn
      <3>3. p \in {<<i, k>> : i \in DOMAIN e.data \ {k}} <=> j # k /\ l = k
        OBVIOUS
      <3> HIDE DEF p
      <3>4. p \in usedBefore' <=> \/ p \in StillIn(usedBefore, e) /\ p[1] # k /\ p[2] # k
                                  \/ p \in {<<i, k>> : i \in DOMAIN e.data \ {k}}
        BY DEF Used
      <3> QED
        BY <3>1, <3>2, <3>3, <3>4 DEF p
    <2>5. \A j \in DOMAIN e.data : e.data[j] < e.serial /\ e.data[j] \in Nat
      BY <1>1, <1>3, <2>3
    <2>6. \A j, l \in DOMAIN e.data : e.data[j] < e.data[l] <=> <<j, l>> \in usedBefore'
      <3> TAKE j, l \in DOMAIN e.data
      <3>1. CASE j = k
        BY <1>3, <2>3, <2>4, <2>5, <3>1
      <3>2. CASE j # k /\ l = k
        BY <2>3, <2>4, <3>2
      <3>3. CASE j # k /\ l # k
        BY <1>1, <2>1, <2>3, <2>4, <3>3
      <3> QED
        BY <3>1, <3>2, <3>3
    <2> QED
      BY <2>5, <2>6
  <1> QED
    BY <1>4, <1>5 DEF LruInv, DropsLeastRecent

LEMMA LruKeeps ==
  ASSUME LruInv, LruNext
  PROVE  LruInv'
  <1>1. LruFits(lru) /\ Size(lru) <= lru.max /\ PartOf(lru, lru) /\ Size(lru) \in Nat /\ lru.max \in Nat
    BY LruFitsMeans DEF LruInv, PartOf
  <1>2. ASSUME NEW k \in Keys, LruPut(k)
        PROVE  LruInv'
    <2> DEFINE full == k \notin DOMAIN lru.data /\ Size(lru) >= lru.max
    <2> DEFINE c == IF full THEN LruDrop(lru) ELSE lru
    <2>1. /\ lru.max > 0 /\ lru' = LruRenewed(c, k) /\ usedBefore' = Used(usedBefore, lru', k)
          /\ wrapped' = (wrapped \/ lru.serial = SerialMax)
      BY <1>2 DEF LruPut
    <2>2. PartOf(c, lru) /\ IF k \in DOMAIN c.data THEN Size(c) <= c.max ELSE Size(c) < c.max
      <3>1. CASE full
        <4>1. PartOf(LruDrop(lru), lru) /\ LruDrop(lru).max = lru.max /\ Size(LruDrop(lru)) = Size(lru) - 1
          BY <1>1, <2>1, <3>1, LruDropFits
        <4> QED
          BY <1>1, <3>1, <4>1
      <3>2. CASE ~full
        BY <1>1, <3>2
      <3> QED
        BY <3>1, <3>2
    <2> HIDE DEF c
    <2> QED
      BY <2>1, <2>2, LruMore
  <1>3. ASSUME NEW k \in Keys, LruGet(k)
        PROVE  LruInv'
    <2>1. /\ k \in DOMAIN lru.data /\ lru' = LruRenewed(lru, k) /\ usedBefore' = Used(usedBefore, lru', k)
          /\ wrapped' = (wrapped \/ lru.serial = SerialMax)
      BY <1>3 DEF LruGet
    <2> QED
      BY <1>1, <2>1, LruMore
  <1>4. ASSUME NEW k \in Keys, LruErase(k)
        PROVE  LruInv'
    <2> DEFINE e == [lru EXCEPT !.data = Without(@, k)]
    <2>1. k \in DOMAIN lru.data /\ lru' = e /\ usedBefore' = StillIn(usedBefore, e) /\ wrapped' = wrapped
      BY <1>4 DEF LruErase
    <2>2. e = [lru EXCEPT !.data = Without(@, k)]
      OBVIOUS
    <2> HIDE DEF e
    <2>3. PartOf(e, lru) /\ e.max = lru.max /\ Size(e) = Size(lru) - 1
      BY <1>1, <2>1, <2>2, WithoutLru
    <2>4. Size(e) <= e.max
      BY <1>1, <2>3
    <2> QED
      BY <2>1, <2>3, <2>4, LruLess
  <1>5. ASSUME NEW n \in Sizes, LruSetMax(n)
        PROVE  LruInv'
    <2> DEFINE x == Excess(Size(lru), n)
    <2> DEFINE c == Times(LruDrop, lru, x)
    <2> DEFINE e == [c EXCEPT !.max = n]
    <2>1. lru' = e /\ usedBefore' = StillIn(usedBefore, e) /\ wrapped' = wrapped
      BY <1>5 DEF LruSetMax
    <2>2. n \in Nat /\ x \in Nat /\ x <= Size(lru) /\ Size(lru) - x <= n
      BY <1>1, CacheAssumption DEF Excess
    <2> HIDE DEF x
    <2>3. PartOf(c, lru) /\ Size(c) = Size(lru) - x
      BY <1>1, <2>2, LruDrops
    <2> HIDE DEF c
    <2>4. LruFits(c)
      BY <2>3 DEF PartOf
    <2> DEFINE d == c.data
    <2> DEFINE s == c.serial
    <2>5. /\ c = [data |-> d, max |-> c.max, serial |-> s] /\ s \in Nat
          /\ DOMAIN d \subseteq Keys /\ IsFiniteSet(DOMAIN d) /\ d \in [DOMAIN d -> Nat]
      BY <2>4, LruFitsMeans
    <2>6. e = [data |-> d, max |-> n, serial |-> s]
      BY <2>5
    <2> HIDE DEF d, s, e
    <2>7. LruFits(e) /\ e.data = d /\ e.max = n /\ e.serial = s
      BY <2>2, <2>5, <2>6, LruFitsIf
    <2>8. PartOf(e, lru) /\ Size(e) <= e.max
      BY <2>2, <2>3, <2>7 DEF PartOf, Size, d, s
    <2> QED
      BY <2>1, <2>8, LruLess
  <1> QED
    BY <1>2, <1>3, <1>4, <1>5 DEF LruNext

-----------------------------------------------------------------------------
(* Pool.                                                                   *)

PoolInv ==
  /\ pool \in [free : Seq(Objects), maxSpare : Nat] /\ held \subseteq Objects
  /\ PoolOwnsOnce

LEMMA PoolKnown ==
  ASSUME PoolInv
  PROVE  /\ pool = [free |-> pool.free, maxSpare |-> pool.maxSpare] /\ pool.free \in Seq(Objects) /\ pool.maxSpare \in Nat
         /\ Len(pool.free) \in Nat /\ DOMAIN pool.free = 1 .. Len(pool.free) /\ held \subseteq Objects
         /\ (\A i, j \in 1 .. Len(pool.free) : pool.free[i] = pool.free[j] => i = j)
         /\ (\A i \in 1 .. Len(pool.free) : pool.free[i] \notin held /\ pool.free[i] \in made /\ pool.free[i] \in Objects)
         /\ held \subseteq made /\ (\A o \in made : o \in held \/ \E i \in 1 .. Len(pool.free) : pool.free[i] = o)
         /\ (pool.maxSpare = 0 \/ Len(pool.free) <= pool.maxSpare)
  BY DEF PoolInv, PoolOwnsOnce, IsInjective, ToSet

LEMMA PoolThen ==
  ASSUME NEW f \in Seq(Objects), NEW m \in Nat, pool' = [free |-> f, maxSpare |-> m], held' \subseteq Objects,
         \A i, j \in 1 .. Len(f) : f[i] = f[j] => i = j,
         \A i \in 1 .. Len(f) : f[i] \notin held' /\ f[i] \in made',
         held' \subseteq made', \A o \in made' : o \in held' \/ \E i \in 1 .. Len(f) : f[i] = o,
         m = 0 \/ Len(f) <= m
  PROVE  PoolInv'
  <1>1. pool'.free = f /\ pool'.maxSpare = m /\ DOMAIN f = 1 .. Len(f) /\ pool' \in [free : Seq(Objects), maxSpare : Nat]
    OBVIOUS
  <1>2. IsInjective(f) /\ ToSet(f) \cap held' = {} /\ ToSet(f) \cup held' = made'
    BY <1>1 DEF IsInjective, ToSet
  <1> QED
    BY <1>1, <1>2 DEF PoolInv, PoolOwnsOnce

LEMMA PoolShrinks ==
  ASSUME PoolInv, NEW n \in Nat, NEW keep \in Nat, PoolShrink(n, keep),
         n = 0 \/ keep <= n \/ n = pool.maxSpare
  PROVE  PoolInv'
  <1> DEFINE f == pool.free
  <1> DEFINE g == IF keep < Len(f) THEN SubSeq(f, 1, keep) ELSE f
  <1>1. pool' = [free |-> g, maxSpare |-> n] /\ held' = held
        /\ made' = made \ {f[i] : i \in keep + 1 .. Len(f)}
    BY DEF PoolShrink
  <1>2. /\ f \in Seq(Objects) /\ pool.maxSpare \in Nat
        /\ Len(f) \in Nat /\ held \subseteq Objects
        /\ (\A i, j \in 1 .. Len(f) : f[i] = f[j] => i = j)
        /\ (\A i \in 1 .. Len(f) : f[i] \notin held /\ f[i] \in made /\ f[i] \in Objects)
        /\ held \subseteq made /\ (\A o \in made : o \in held \/ \E i \in 1 .. Len(f) : f[i] = o)
        /\ (pool.maxSpare = 0 \/ Len(f) <= pool.maxSpare)
    BY PoolKnown
  <1> HIDE DEF f
  <1> DEFINE l == IF keep < Len(f) THEN keep ELSE Len(f)
  <1>3. g \in Seq(Objects) /\ Len(g) = l /\ \A i \in 1 .. l : g[i] = f[i]
    BY <1>2
  <1>4. l \in Nat /\ l <= Len(f) /\ l <= keep /\ \A i \in 1 .. Len(f) : i \in keep + 1 .. Len(f) <=> i \notin 1 .. l
    BY <1>2
  <1> HIDE DEF g, l
  <1>5. \A i, j \in 1 .. Len(g) : g[i] = g[j] => i = j
    BY <1>2, <1>3, <1>4
  <1>6. \A i \in 1 .. Len(g) : g[i] \notin held' /\ g[i] \in made'
    <2> TAKE i \in 1 .. Len(g)
    <2>1. i \in 1 .. Len(f) /\ i \in 1 .. l /\ g[i] = f[i]
      BY <1>2, <1>3, <1>4
    <2>2. \A j \in keep + 1 .. Len(f) : j \in 1 .. Len(f) /\ j \notin 1 .. l
      BY <1>2, <1>4
    <2>3. \A j \in keep + 1 .. Len(f) : f[j] # f[i]
      BY <1>2, <2>1, <2>2
    <2> QED
      BY <1>1, <1>2, <2>1, <2>3
  <1>7. held' \subseteq made'
    <2>1. \A j \in keep + 1 .. Len(f) : j \in 1 .. Len(f)
      BY <1>2
    <2> DEFINE gone == {f[i] : i \in keep + 1 .. Len(f)}
    <2>2. gone \cap held = {}
      BY <1>2, <2>1
    <2>4. held \subseteq made
      BY <1>2
    <2>5. made' = made \ gone /\ held' = held
      BY <1>1
    <2>3. made' = made \ gone /\ held' = held /\ held \subseteq made
      BY <2>4, <2>5
    <2> HIDE DEF gone
    <2> QED
      BY <2>2, <2>3
  <1>8. \A o \in made' : o \in held' \/ \E i \in 1 .. Len(g) : g[i] = o
    <2> TAKE o \in made'
    <2> SUFFICES ASSUME o \notin held' PROVE \E i \in 1 .. Len(g) : g[i] = o
      OBVIOUS
    <2> DEFINE gone == {f[i] : i \in keep + 1 .. Len(f)}
    <2>3. made' = made \ gone /\ held' = held
      BY <1>1
    <2> HIDE DEF gone
    <2>4. o \in made /\ o \notin held
      BY <2>3
    <2>1. PICK i \in 1 .. Len(f) : f[i] = o
      <3>1. \A p \in made : p \in held \/ \E i \in 1 .. Len(f) : f[i] = p
        BY <1>2
      <3> QED
        BY <2>4, <3>1
    <2>2. i \in 1 .. l
      BY <1>1, <1>4, <2>1
    <2> QED
      BY <1>3, <2>1, <2>2
  <1>9. n = 0 \/ Len(g) <= n
    BY <1>2, <1>3, <1>4
  <1>10. held' \subseteq Objects
    BY <1>1, <1>2
  <1> QED
    BY <1>1, <1>3, <1>5, <1>6, <1>7, <1>8, <1>9, <1>10, PoolThen

LEMMA PoolKeeps ==
  ASSUME PoolInv, PoolNext
  PROVE  PoolInv'
  <1> DEFINE f == pool.free
  <1> DEFINE m == pool.maxSpare
  <1>1. /\ pool = [free |-> f, maxSpare |-> m] /\ f \in Seq(Objects) /\ m \in Nat
        /\ Len(f) \in Nat /\ held \subseteq Objects
        /\ (\A i, j \in 1 .. Len(f) : f[i] = f[j] => i = j)
        /\ (\A i \in 1 .. Len(f) : f[i] \notin held /\ f[i] \in made /\ f[i] \in Objects)
        /\ held \subseteq made /\ (\A o \in made : o \in held \/ \E i \in 1 .. Len(f) : f[i] = o)
        /\ (m = 0 \/ Len(f) <= m)
    BY PoolKnown
  <1>2. ASSUME PoolGet
        PROVE  PoolInv'
    <2>1. CASE f # <<>>
      <3> DEFINE g == Front(f)
      <3>1. pool' = [free |-> g, maxSpare |-> m] /\ held' = held \cup {f[Len(f)]} /\ made' = made
        BY <1>1, <1>2, <2>1 DEF PoolGet, Last
      <3> HIDE DEF f, m
      <3>2. Len(f) > 0 /\ g \in Seq(Objects) /\ Len(g) = Len(f) - 1 /\ \A i \in 1 .. Len(g) : g[i] = f[i] /\ i \in 1 .. Len(f)
        <4>1. Len(f) > 0 /\ Len(f) - 1 \in Nat /\ f \in [1 .. Len(f) -> Objects]
          BY <1>1, <2>1 DEF f
        <4>2. g = [i \in 1 .. Len(f) - 1 |-> f[i]]
          BY DEF Front
        <4> HIDE DEF g
        <4>3. g \in Seq(Objects) /\ Len(g) = Len(f) - 1
          BY <4>1, <4>2
        <4>4. \A i \in 1 .. Len(f) - 1 : g[i] = f[i] /\ i \in 1 .. Len(f)
          BY <4>1, <4>2
        <4> QED
          BY <4>1, <4>3, <4>4
      <3> HIDE DEF g
      <3>3. /\ held' \subseteq Objects /\ held' \subseteq made' /\ (m = 0 \/ Len(g) <= m)
            /\ \A i, j \in 1 .. Len(g) : g[i] = g[j] => i = j
        <4>1. Len(f) \in 1 .. Len(f)
          BY <1>1, <3>2
        <4>2. f[Len(f)] \in made /\ f[Len(f)] \in Objects
          BY <1>1, <4>1
        <4>3. held' \subseteq Objects /\ held' \subseteq made'
          BY <1>1, <3>1, <4>2
        <4>4. m = 0 \/ Len(g) <= m
          BY <1>1, <3>2
        <4>5. \A i, j \in 1 .. Len(g) : g[i] = g[j] => i = j
          BY <1>1, <3>2
        <4> QED
          BY <4>3, <4>4, <4>5
      <3>4. \A i \in 1 .. Len(g) : g[i] \notin held' /\ g[i] \in made'
        BY <1>1, <3>1, <3>2
      <3>5. \A o \in made' : o \in held' \/ \E i \in 1 .. Len(g) : g[i] = o
        <4> TAKE o \in made'
        <4> SUFFICES ASSUME o \notin held' PROVE \E i \in 1 .. Len(g) : g[i] = o
          OBVIOUS
        <4>1. PICK i \in 1 .. Len(f) : f[i] = o
          BY <1>1, <3>1
        <4>2. i \in 1 .. Len(g)
          BY <1>1, <3>1, <3>2, <4>1
        <4> QED
          BY <3>2, <4>1, <4>2
      <3> QED
        BY <1>1, <3>1, <3>2, <3>3, <3>4, <3>5, PoolThen
    <2>2. CASE f = <<>>
      <3>1. PICK o \in Objects \ made : made' = made \cup {o} /\ held' = held \cup {o} /\ pool' = pool
        BY <1>2, <2>2 DEF PoolGet
      <3>2. Len(f) = 0 /\ pool' = [free |-> f, maxSpare |-> m]
        BY <1>1, <2>2, <3>1
      <3> HIDE DEF f, m
      <3>3. 1 .. Len(f) = {}
        BY <3>2
      <3> QED
        BY <1>1, <3>1, <3>2, <3>3, PoolThen
    <2> QED
      BY <2>1, <2>2
  <1>3. ASSUME NEW o \in Objects, PoolReturn(o)
        PROVE  PoolInv'
    <2>1. o \in held /\ held' = held \ {o}
      BY <1>3 DEF PoolReturn
    <2>2. CASE m = 0 \/ Len(f) < m
      <3> DEFINE g == Append(f, o)
      <3>1. pool' = [free |-> g, maxSpare |-> m] /\ made' = made
        BY <1>1, <1>3, <2>2 DEF PoolReturn
      <3> HIDE DEF f, m
      <3>2. g \in Seq(Objects) /\ Len(g) = Len(f) + 1 /\ g[Len(g)] = o /\ \A i \in 1 .. Len(f) : g[i] = f[i] /\ i \in 1 .. Len(g)
        BY <1>1
      <3>3. \A i \in 1 .. Len(g) : i # Len(g) => i \in 1 .. Len(f)
        BY <1>1, <3>2
      <3>4. Len(g) \in 1 .. Len(g)
        BY <1>1, <3>2
      <3> HIDE DEF g
      <3>5. held' \subseteq Objects /\ held' \subseteq made' /\ (m = 0 \/ Len(g) <= m)
        BY <1>1, <2>1, <2>2, <3>1, <3>2
      <3>6. \A i \in 1 .. Len(g) : g[i] \notin held' /\ g[i] \in made'
        BY <1>1, <2>1, <3>1, <3>2, <3>3
      <3>7. \A i, j \in 1 .. Len(g) : g[i] = g[j] => i = j
        BY <1>1, <2>1, <3>2, <3>3
      <3>8. \A p \in made' : p \in held' \/ \E i \in 1 .. Len(g) : g[i] = p
        BY <1>1, <2>1, <3>1, <3>2, <3>4
      <3> QED
        BY <1>1, <3>1, <3>2, <3>5, <3>6, <3>7, <3>8, PoolThen
    <2>3. CASE ~(m = 0 \/ Len(f) < m)
      <3>1. pool' = [free |-> f, maxSpare |-> m] /\ made' = made \ {o}
        BY <1>1, <1>3, <2>3 DEF PoolReturn
      <3> HIDE DEF f, m
      <3>2. /\ held' \subseteq Objects /\ held' \subseteq made'
            /\ \A i \in 1 .. Len(f) : f[i] \notin held' /\ f[i] \in made'
        BY <1>1, <2>1, <3>1
      <3>3. \A p \in made' : p \in held' \/ \E i \in 1 .. Len(f) : f[i] = p
        BY <1>1, <2>1, <3>1
      <3> QED
        BY <1>1, <3>1, <3>2, <3>3, PoolThen
    <2> QED
      BY <2>2, <2>3
  <1>4. ASSUME NEW n \in 0 .. 2, PoolShrink(pool.maxSpare, n) \/ PoolShrink(n, n)
        PROVE  PoolInv'
    <2>1. n \in Nat
      OBVIOUS
    <2> QED
      BY <1>1, <1>4, <2>1, PoolShrinks
  <1> QED
    BY <1>2, <1>3, <1>4 DEF PoolNext

-----------------------------------------------------------------------------
(* All three.                                                              *)

CachesInv == CacheInv /\ LruInv /\ PoolInv

LEMMA CachesBegin ==
  ASSUME CacheInit
  PROVE  CachesInv
  <1> DEFINE d == <<>>
  <1>1. DOMAIN d = {} /\ d \in [DOMAIN d -> Entries] /\ d \in [DOMAIN d -> Nat] /\ IsFiniteSet(DOMAIN d) /\ d \in Seq(Objects)
        /\ Len(d) = 0
    BY FS_EmptySet
  <1>2. /\ cache = [data |-> d, max |-> Even(MaxElements), serial |-> 0]
        /\ lru = [data |-> d, max |-> MaxElements, serial |-> 0]
        /\ bare = FALSE /\ wrapped = FALSE /\ usedBefore = {}
        /\ pool = [free |-> d, maxSpare |-> 0] /\ held = {} /\ made = {}
    BY DEF CacheInit
  <1>3. MaxElements \in Nat /\ SerialMax \in Nat
    BY CacheAssumption
  <1> HIDE DEF d
  <1>4. CacheInv
    <2>1. PICK h \in Nat : Even(MaxElements) = 2 * h
      BY <1>3, EvenIs
    <2>2. cache.data = d /\ cache.max = 2 * h /\ cache.serial = 0 /\ cache = [data |-> d, max |-> cache.max, serial |-> cache.serial]
      BY <1>2, <2>1
    <2>3. Fits(cache)
      <3>1. cache.max \in Nat /\ cache.serial \in Nat /\ cache.serial <= SerialMax
        BY <1>3, <2>1, <2>2
      <3>2. DOMAIN d \subseteq Keys /\ \A k \in DOMAIN d : d[k].serial < cache.serial
        BY <1>1
      <3>3. d \in [DOMAIN d -> Entries] /\ IsFiniteSet(DOMAIN d)
        BY <1>1
      <3>4. cache = [data |-> d, max |-> cache.max, serial |-> cache.serial]
        BY <2>2
      <3> QED
        BY <3>1, <3>2, <3>3, <3>4, FitsIf
    <2>4. Size(cache) = 0 /\ Win(cache) = 0
      BY <1>1, <2>2, FS_EmptySet DEF Size, Win, WinnersOf
    <2> QED
      <3>1. Size(cache) <= cache.max /\ Win(cache) <= h /\ Win(cache) = Size(cache) /\ bare \in BOOLEAN
        <4>1. cache.max = 2 * h
          BY <2>2
        <4>2. bare \in BOOLEAN
          BY <1>2
        <4> QED
          BY <2>4, <4>1, <4>2
      <3> QED
        BY <2>2, <2>3, <3>1 DEF CacheInv, Shares
  <1>5. LruInv
    <2> DEFINE e == [data |-> d, max |-> MaxElements, serial |-> 0]
    <2>3. DOMAIN d \subseteq Keys /\ IsFiniteSet(DOMAIN d) /\ d \in [DOMAIN d -> Nat] /\ 0 \in Nat
      BY <1>1
    <2>4. LruFits(e) /\ e.data = d /\ e.max = MaxElements
      BY <1>3, <2>3, LruFitsIf
    <2>5. lru = e
      BY <1>2
    <2> HIDE DEF e
    <2>1. LruFits(lru) /\ lru.data = d /\ lru.max = MaxElements
      BY <2>4, <2>5
    <2>2. Size(lru) = 0
      BY <1>1, <2>1, FS_EmptySet DEF Size
    <2> QED
      <3>1. Size(lru) <= lru.max /\ wrapped \in BOOLEAN /\ DOMAIN lru.data = {}
        <4>1. wrapped \in BOOLEAN
          BY <1>2
        <4>2. DOMAIN lru.data = {}
          BY <1>1, <2>1
        <4>3. Size(lru) <= lru.max
          BY <1>3, <2>1, <2>2
        <4> QED
          BY <4>1, <4>2, <4>3
      <3> QED
        BY <2>1, <3>1 DEF LruInv, DropsLeastRecent
  <1>6. PoolInv
    <2>1. pool.free = d /\ pool.maxSpare = 0 /\ pool \in [free : Seq(Objects), maxSpare : Nat]
      BY <1>1, <1>2
    <2>2. IsInjective(d) /\ ToSet(d) = {}
      BY <1>1 DEF IsInjective, ToSet
    <2> QED
      BY <1>2, <2>1, <2>2 DEF PoolInv, PoolOwnsOnce
  <1> QED
    BY <1>4, <1>5, <1>6 DEF CachesInv

LEMMA CacheStays ==
  ASSUME CacheInv, UNCHANGED <<cache, bare>>
  PROVE  CacheInv' /\ Spared
  BY DEF CacheInv, Spared

LEMMA LruStays ==
  ASSUME LruInv, UNCHANGED <<lru, usedBefore, wrapped>>
  PROVE  LruInv'
  BY DEF LruInv, DropsLeastRecent

LEMMA PoolStays ==
  ASSUME PoolInv, UNCHANGED <<pool, held, made>>
  PROVE  PoolInv'
  BY DEF PoolInv, PoolOwnsOnce

LEMMA CachesStep ==
  ASSUME CachesInv, [CacheNext \/ LruNext \/ PoolNext]_cacheVars
  PROVE  CachesInv' /\ Spared
  <1>1. CacheInv /\ LruInv /\ PoolInv
    BY DEF CachesInv
  <1>2. CASE CacheNext
    <2>1. CacheInv' /\ Spared
      BY <1>1, <1>2, CachePutKeeps, CachePutTopKeeps, CacheGetKeeps, CacheEraseKeeps, CacheClearKeeps, CacheSetMaxKeeps
         DEF CacheNext
    <2>2. UNCHANGED <<lru, usedBefore, wrapped>> /\ UNCHANGED <<pool, held, made>>
      BY <1>2 DEF CacheNext, CachePut, CachePutTop, CacheGet, CacheErase, CacheClear, CacheSetMax
    <2> QED
      BY <1>1, <2>1, <2>2, LruStays, PoolStays DEF CachesInv
  <1>3. CASE LruNext
    <2>1. UNCHANGED <<cache, bare>> /\ UNCHANGED <<pool, held, made>>
      BY <1>3 DEF LruNext, LruPut, LruGet, LruErase, LruSetMax
    <2> QED
      BY <1>1, <1>3, <2>1, LruKeeps, CacheStays, PoolStays DEF CachesInv
  <1>4. CASE PoolNext
    <2>1. UNCHANGED <<cache, bare>> /\ UNCHANGED <<lru, usedBefore, wrapped>>
      BY <1>4 DEF PoolNext, PoolGet, PoolReturn, PoolShrink
    <2> QED
      BY <1>1, <1>4, <2>1, PoolKeeps, CacheStays, LruStays DEF CachesInv
  <1>5. CASE UNCHANGED cacheVars
    <2>1. UNCHANGED <<cache, bare>> /\ UNCHANGED <<lru, usedBefore, wrapped>> /\ UNCHANGED <<pool, held, made>>
      BY <1>5 DEF cacheVars
    <2> QED
      BY <1>1, <2>1, CacheStays, LruStays, PoolStays DEF CachesInv
  <1> QED
    BY <1>2, <1>3, <1>4, <1>5

LEMMA CachesSafe ==
  ASSUME CachesInv
  PROVE  CacheTypeOK /\ WinnersAreHalf /\ WinnersAreUsed /\ DropsLeastRecent /\ PoolOwnsOnce
  <1>1. CacheInv /\ LruInv /\ PoolInv
    BY DEF CachesInv
  <1>2. CacheTypeOK
    <2>1. cache.serial \in Nat /\ cache.serial <= SerialMax /\ DOMAIN cache.data \subseteq Keys
          /\ \A k \in DOMAIN cache.data : cache.data[k].serial < cache.serial
      BY <1>1, FitsMeans DEF CacheInv, Fits
    <2>2. Size(cache) <= cache.max /\ Size(lru) <= lru.max
      BY <1>1 DEF CacheInv, Shares, LruInv
    <2> QED
      BY <2>1, <2>2, CacheAssumption DEF CacheTypeOK
  <1>3. WinnersAreHalf /\ WinnersAreUsed
    <2>1. PICK h \in Nat : cache.max = 2 * h /\ Win(cache) <= h /\ (~bare /\ Win(cache) # Size(cache) => Win(cache) = h)
      BY <1>1, CacheKnown
    <2>2. Win(cache) \in Nat /\ (Win(cache) = Size(cache) <=> WinnersOf(cache) = DOMAIN cache.data)
      BY <1>1, CountsAre DEF CacheInv
    <2>3. 2 * Win(cache) <= cache.max /\ (~bare /\ WinnersOf(cache) # DOMAIN cache.data => 2 * Win(cache) = cache.max)
      BY <2>1, <2>2
    <2> QED
      BY <2>3 DEF WinnersAreHalf, WinnersAreUsed, Win
  <1> QED
    BY <1>1, <1>2, <1>3 DEF LruInv, PoolInv

\* Shares, order and owners are kept by every operation.
THEOREM CachesInvariant == CacheSpec => []CachesInv
  <1>1. CacheInit => CachesInv
    BY CachesBegin
  <1>2. CachesInv /\ [CacheNext \/ LruNext \/ PoolNext]_cacheVars => CachesInv'
    BY CachesStep
  <1> QED
    BY <1>1, <1>2, PTL DEF CacheSpec

\* At most half of the elements of a cache are winners (cache.h), and no fewer as long as
\* there are loosers; a new element never takes the place of a winner; the LRU cache drops
\* what is least recently used until its serial wraps around (lrucache.h); an object of the
\* pool is spare or in use and never both (pool.h).
THEOREM CachesAreSound == CacheSpec => CachesSound
  <1>1. CachesInv => CacheTypeOK /\ WinnersAreHalf /\ WinnersAreUsed /\ DropsLeastRecent /\ PoolOwnsOnce
    BY CachesSafe
  <1>2. CachesInv /\ [CacheNext \/ LruNext \/ PoolNext]_cacheVars
          => [DOMAIN cache'.data \subseteq DOMAIN cache.data \/ WinnersOf(cache) \subseteq DOMAIN cache'.data]_cacheVars
    BY CachesStep DEF Spared
  <1> QED
    BY <1>1, <1>2, CachesInvariant, PTL DEF CacheSpec, CachesSound, WinnersSurvive
=============================================================================
