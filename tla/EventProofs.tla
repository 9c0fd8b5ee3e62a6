------------------------------ MODULE EventProofs ------------------------------
(***************************************************************************)
(* Proofs about events.  EventSources: the maps of the sources and the     *)
(* lists of the sinks agree, whatever threads and handlers do (SourcesInv).*)
(* EventSignal: the routes, the connections and the walks of send() agree  *)
(* (RouteInv).  Signals: the lists of both ends of the connections and the *)
(* walks of the active send()s agree (SignalInv).  All of them rest on     *)
(* facts about sequences of which some elements are kept.                  *)
(***************************************************************************)
EXTENDS Signals, EventSources, EventSignal, SequenceTheorems, FiniteSetTheorems, WellFoundedInduction, TLAPS

-----------------------------------------------------------------------------
(* The elements of a sequence at some of its places, in their order.       *)

\* The places of the set that are not behind m.
Count(places, m) == Cardinality({k \in places : k <= m})

LEMMA CountFacts ==
  ASSUME NEW n \in Nat, NEW places \in SUBSET (1 .. n), NEW m \in Nat
  PROVE  /\ IsFiniteSet(places) /\ Cardinality(places) \in Nat
         /\ Count(places, 0) = 0 /\ Count(places, n) = Cardinality(places) /\ Count(places, m) \in Nat
         /\ Count(places, m + 1) = Count(places, m) + (IF m + 1 \in places THEN 1 ELSE 0)
         /\ Count(places, m) <= Cardinality(places)
         /\ \A k \in Nat : m <= k => Count(places, m) <= Count(places, k)
  <1> DEFINE Low(k) == {i \in places : i <= k}
  <1>0. m \in Nat /\ n \in Nat /\ m + 1 \in Nat /\ 0 \in Nat /\ \A i \in places : i \in Nat /\ 1 <= i /\ i <= n
    OBVIOUS
  <1>1. IsFiniteSet(places)
    <2>1. IsFiniteSet(1 .. n)
      BY <1>0, FS_Interval
    <2> QED
      BY <2>1, FS_Subset
  <1>2. \A k \in Nat : Low(k) \in SUBSET places /\ IsFiniteSet(Low(k)) /\ Cardinality(Low(k)) \in Nat
                       /\ Cardinality(Low(k)) <= Cardinality(places)
    <2> TAKE k \in Nat
    <2>1. Low(k) \in SUBSET places
      OBVIOUS
    <2> HIDE DEF Low
    <2> QED
      BY <1>1, <2>1, FS_Subset, FS_CardinalityType
  <1>3. Low(0) = {} /\ Low(n) = places
    <2>1. \A i \in places : ~(i <= 0) /\ i <= n
      BY <1>0
    <2> QED
      BY <2>1, Zenon
  <1>4. Low(m + 1) = IF m + 1 \in places THEN Low(m) \cup {m + 1} ELSE Low(m)
    <2>1. \A i \in places : i <= m + 1 <=> i <= m \/ i = m + 1
      BY <1>0
    <2>2. m + 1 <= m + 1
      BY <1>0
    <2>3. \A i : i \in Low(m + 1) <=> i \in places /\ i <= m + 1
      BY Zenon
    <2>4. \A i : i \in Low(m) <=> i \in places /\ i <= m
      BY Zenon
    <2> HIDE DEF Low
    <2>5. CASE m + 1 \in places
      <3>1. Low(m + 1) = Low(m) \cup {m + 1}
        BY <2>1, <2>2, <2>3, <2>4, <2>5, Zenon
      <3> QED
        BY <2>5, <3>1, Zenon
    <2>6. CASE m + 1 \notin places
      <3>1. Low(m + 1) = Low(m)
        BY <2>1, <2>3, <2>4, <2>6, Zenon
      <3> QED
        BY <2>6, <3>1, Zenon
    <2> QED
      BY <2>5, <2>6
  <1>5. m + 1 \notin Low(m)
    <2>1. ~(m + 1 <= m)
      BY <1>0
    <2> QED
      BY <2>1, Zenon
  <1>6. \A k \in Nat : m <= k => Low(m) \in SUBSET Low(k)
    <2> TAKE k \in Nat
    <2> HAVE m <= k
    <2>1. \A i \in places : i <= m => i <= k
      BY <1>0
    <2> QED
      BY <2>1, Zenon
  <1>7. \A k : Count(places, k) = Cardinality(Low(k))
    BY DEF Count
  <1> HIDE DEF Low
  <1>8. \A k \in Nat : m <= k => Cardinality(Low(m)) <= Cardinality(Low(k))
    BY <1>2, <1>6, FS_Subset
  <1>9. Cardinality(Low(m + 1)) = Cardinality(Low(m)) + (IF m + 1 \in places THEN 1 ELSE 0)
    <2>1. CASE m + 1 \in places
      BY <1>2, <1>4, <1>5, <2>1, FS_AddElement
    <2>2. CASE m + 1 \notin places
      BY <1>2, <1>4, <2>2
    <2> QED
      BY <2>1, <2>2
  <1>10. Cardinality(places) \in Nat /\ Cardinality(Low(0)) = 0
    BY <1>1, <1>3, FS_EmptySet, FS_CardinalityType
  <1> QED
    BY <1>0, <1>1, <1>2, <1>3, <1>7, <1>8, <1>9, <1>10

\* A set of places has a first one.
LEMMA FirstPlace ==
  ASSUME NEW P \in SUBSET Nat, P # {}
  PROVE  \E i \in P : \A j \in P : i <= j
  <1> DEFINE R == OpToRel(<, Nat)
  <1>1. \A x, y \in Nat : x < y => <<x, y>> \in R
    <2> TAKE x, y \in Nat
    <2> HAVE x < y
    <2> DEFINE z == <<x, y>>
    <2>1. z \in Nat \X Nat
      BY Zenon
    <2>2. z[1] < z[2]
      OBVIOUS
    <2> QED
      BY <2>1, <2>2, Zenon DEF OpToRel
  <1>2. \E x \in P : \A y \in P : <<y, x>> \notin R
    BY NatLessThanWellFounded, WFMin
  <1> HIDE DEF R
  <1>3. PICK x \in P : \A y \in P : <<y, x>> \notin R
    BY <1>2
  <1>4. \A y \in P : ~(y < x)
    BY <1>1, <1>3, Zenon
  <1> QED
    BY <1>4

\* Each number up to the size of the set is the rank of a place.
LEMMA PlaceOfRank ==
  ASSUME NEW n \in Nat, NEW places \in SUBSET (1 .. n), NEW j \in 1 .. Cardinality(places)
  PROVE  \E i \in places : Count(places, i) = j
  <1> DEFINE P == {m \in Nat : Count(places, m) >= j}
  <1>1. Cardinality(places) \in Nat /\ Count(places, 0) = 0 /\ Count(places, n) = Cardinality(places)
        /\ \A m \in Nat : Count(places, m) \in Nat
    BY CountFacts
  <1>2. n \in P
    BY <1>1
  <1>3. PICK m \in P : \A k \in P : m <= k
    <2>1. P \in SUBSET Nat /\ P # {}
      BY <1>2
    <2> HIDE DEF P
    <2> QED
      BY <2>1, FirstPlace
  <1>4. m \in Nat /\ Count(places, m) >= j
    BY <1>3
  <1>5. m # 0
    BY <1>1, <1>4
  <1>6. m - 1 \in Nat /\ (m - 1) + 1 = m
    BY <1>4, <1>5
  <1>7. ~(Count(places, m - 1) >= j)
    BY <1>3, <1>4, <1>6
  <1>8. Count(places, m) = Count(places, m - 1) + (IF m \in places THEN 1 ELSE 0)
    BY <1>6, CountFacts
  <1>9. Count(places, m - 1) \in Nat /\ j \in Nat
    BY <1>1, <1>6
  <1> HIDE DEF P
  <1>10. m \in places /\ Count(places, m) = j
    BY <1>4, <1>7, <1>8, <1>9
  <1> QED
    BY <1>10

\* A place has a greater rank than those in front of it.
LEMMA RanksGrow ==
  ASSUME NEW n \in Nat, NEW places \in SUBSET (1 .. n), NEW i \in places
  PROVE  /\ Count(places, i) \in 1 .. Cardinality(places)
         /\ \A k \in places : k < i => Count(places, k) < Count(places, i)
  <1>1. i \in Nat /\ i - 1 \in Nat /\ (i - 1) + 1 = i /\ Cardinality(places) \in Nat
    BY CountFacts
  <1>2. Count(places, i) = Count(places, i - 1) + 1 /\ Count(places, i - 1) \in Nat
        /\ Count(places, i) <= Cardinality(places) /\ Count(places, i) \in Nat
    <2>1. Count(places, (i - 1) + 1) = Count(places, i - 1) + (IF (i - 1) + 1 \in places THEN 1 ELSE 0)
          /\ Count(places, i - 1) \in Nat
      BY <1>1, CountFacts
    <2>2. Count(places, i) <= Cardinality(places) /\ Count(places, i) \in Nat
      BY <1>1, CountFacts
    <2> QED
      BY <1>1, <2>1, <2>2
  <1>3. ASSUME NEW k \in places, k < i
        PROVE  Count(places, k) < Count(places, i)
    <2>1. k \in Nat /\ k <= i - 1
      BY <1>1, <1>3
    <2>2. Count(places, k) <= Count(places, i - 1) /\ Count(places, k) \in Nat
      BY <1>1, <2>1, CountFacts
    <2> QED
      BY <1>2, <2>2
  <1> QED
    BY <1>1, <1>2, <1>3

\* Every one of the places is kept, and the order with it.
LEMMA KeptFacts ==
  ASSUME NEW S, NEW s \in Seq(S), NEW places \in SUBSET (1 .. Len(s))
  PROVE  /\ Kept(s, places) \in Seq(S) /\ Len(Kept(s, places)) = Cardinality(places) /\ Cardinality(places) \in Nat
         /\ \E f \in [1 .. Cardinality(places) -> places] :
              /\ \A j \in 1 .. Cardinality(places) : Kept(s, places)[j] = s[f[j]]
              /\ \A i \in places : \E j \in 1 .. Cardinality(places) : f[j] = i
              /\ \A j, k \in 1 .. Cardinality(places) : j < k => f[j] < f[k]
  <1> DEFINE n == Cardinality(places)
             f == [j \in 1 .. n |-> CHOOSE i \in places : Count(places, i) = j]
  <1>0. Len(s) \in Nat /\ n \in Nat
    BY CountFacts
  <1>1. \A j \in 1 .. n : f[j] \in places /\ Count(places, f[j]) = j
    <2> TAKE j \in 1 .. n
    <2>1. \E i \in places : Count(places, i) = j
      BY <1>0, PlaceOfRank
    <2> QED
      BY <2>1
  <1>2. Kept(s, places) = [j \in 1 .. n |-> s[f[j]]]
    BY DEF Kept, Count
  <1>3. f \in [1 .. n -> places]
    BY <1>1
  <1> HIDE DEF n, f
  <1>4. \A i \in places : i \in 1 .. Len(s) /\ i \in Nat
    OBVIOUS
  <1>5. Kept(s, places) \in Seq(S) /\ Len(Kept(s, places)) = n /\ \A j \in 1 .. n : Kept(s, places)[j] = s[f[j]]
    <2>1. \A j \in 1 .. n : s[f[j]] \in S
      <3>1. \A i \in 1 .. Len(s) : s[i] \in S
        OBVIOUS
      <3> QED
        BY <1>1, <1>4, <3>1, Zenon
    <2>2. Kept(s, places) \in [1 .. n -> S]
      BY <1>2, <2>1
    <2> QED
      BY <1>0, <1>2, <2>2
  <1>6. ASSUME NEW i \in places
        PROVE  \E j \in 1 .. n : f[j] = i
    <2> DEFINE j == Count(places, i)
    <2>1. j \in 1 .. n /\ \A k \in places : k < i => Count(places, k) < j
      BY <1>0, RanksGrow DEF n
    <2>2. f[j] \in places /\ Count(places, f[j]) = j
      BY <1>1, <2>1
    <2>3. \A k \in places : k < f[j] => Count(places, k) < j
      BY <1>0, <2>2, RanksGrow
    <2>4. j \in Nat
      BY <1>0, <2>1
    <2>7. f[j] \in Nat /\ i \in Nat
      BY <1>4, <2>2
    <2> HIDE DEF j
    <2>8. ~(j < j)
      BY <2>4
    <2>5. ~(f[j] < i)
      BY <2>1, <2>2, <2>8, Zenon
    <2>6. ~(i < f[j])
      BY <2>3, <2>8, Zenon DEF j
    <2> QED
      BY <2>1, <2>5, <2>6, <2>7
  <1>7. ASSUME NEW j \in 1 .. n, NEW k \in 1 .. n, j < k
        PROVE  f[j] < f[k]
    <2>1. f[j] \in places /\ f[k] \in places /\ Count(places, f[j]) = j /\ Count(places, f[k]) = k
      BY <1>1
    <2>2. f[j] \in Nat /\ f[k] \in Nat
      BY <1>4, <2>1
    <2>3. f[k] <= f[j] => Count(places, f[k]) <= Count(places, f[j])
      BY <1>0, <2>2, CountFacts
    <2> QED
      <3>1. j \in Nat /\ k \in Nat
        BY <1>0
      <3>2. f[k] <= f[j] => k <= j
        BY <2>1, <2>3
      <3> HIDE DEF f
      <3> QED
        BY <1>7, <2>2, <3>1, <3>2
  <1> QED
    BY <1>0, <1>3, <1>5, <1>6, <1>7 DEF n

\* What is kept is in the list.
LEMMA KeptElements ==
  ASSUME NEW S, NEW s \in Seq(S), NEW places \in SUBSET (1 .. Len(s))
  PROVE  Kept(s, places) \in Seq(S) /\ \A i \in 1 .. Len(Kept(s, places)) : \E j \in places : Kept(s, places)[i] = s[j]
  <1> DEFINE n == Cardinality(places)
             r == Kept(s, places)
  <1>1. r \in Seq(S) /\ Len(r) = n
    BY KeptFacts
  <1>2. PICK f \in [1 .. n -> places] : \A j \in 1 .. n : r[j] = s[f[j]]
    BY KeptFacts
  <1> HIDE DEF n, r
  <1>3. \A i \in 1 .. Len(r) : \E j \in places : r[i] = s[j]
    BY <1>1, <1>2
  <1> QED
    BY <1>1, <1>3 DEF r

-----------------------------------------------------------------------------
(* How many elements of a sequence are in a set.                           *)

Places(s, A) == {i \in 1 .. Len(s) : s[i] \in A}
HowMany(s, A) == Cardinality(Places(s, A))

LEMMA SameNumber ==
  ASSUME NEW I, IsFiniteSet(I), NEW J, NEW f \in [J -> I],
         \A x, y \in J : f[x] = f[y] => x = y, \A y \in I : \E x \in J : f[x] = y
  PROVE  IsFiniteSet(J) /\ Cardinality(J) = Cardinality(I)
  <1>1. f \in Injection(J, I)
    BY DEF Injection, IsInjective
  <1>2. f \in Surjection(J, I)
    BY DEF Surjection
  <1> QED
    BY <1>1, <1>2, FS_Injection

LEMMA NumberFacts ==
  ASSUME NEW T, NEW s \in Seq(T), NEW A
  PROVE  /\ IsFiniteSet(Places(s, A)) /\ HowMany(s, A) \in Nat
         /\ HowMany(s, A) = 0 <=> \A i \in 1 .. Len(s) : s[i] \notin A
  <1>1. Len(s) \in Nat /\ Places(s, A) \in SUBSET (1 .. Len(s))
    BY DEF Places
  <1>2. IsFiniteSet(1 .. Len(s))
    BY <1>1, FS_Interval
  <1>3. IsFiniteSet(Places(s, A))
    BY <1>1, <1>2, FS_Subset
  <1>4. HowMany(s, A) = 0 <=> Places(s, A) = {}
    BY <1>3, FS_EmptySet DEF HowMany
  <1>5. HowMany(s, A) \in Nat
    BY <1>3, FS_CardinalityType DEF HowMany
  <1>6. Places(s, A) = {} <=> \A i \in 1 .. Len(s) : s[i] \notin A
    BY Zenon DEF Places
  <1> QED
    BY <1>3, <1>4, <1>5, <1>6

\* Two parts of a set of elements.
LEMMA NumberOfParts ==
  ASSUME NEW T, NEW s \in Seq(T), NEW A, NEW B
  PROVE  HowMany(s, A) = HowMany(s, A \ B) + HowMany(s, A \cap B)
  <1> DEFINE P == Places(s, A \ B)
             Q == Places(s, A \cap B)
  <1>1. IsFiniteSet(P) /\ IsFiniteSet(Q) /\ Cardinality(P) \in Nat /\ Cardinality(Q) \in Nat
    BY NumberFacts DEF HowMany
  <1>2. P \cup Q = Places(s, A) /\ P \cap Q = {}
    BY DEF Places
  <1> HIDE DEF P, Q
  <1>3. Cardinality(P \cup Q) = Cardinality(P) + Cardinality(Q) - Cardinality({})
    BY <1>1, <1>2, FS_Union
  <1>4. Cardinality({}) = 0
    BY FS_EmptySet
  <1>5. Cardinality(P \cup Q) = Cardinality(P) + Cardinality(Q)
    BY <1>1, <1>3, <1>4
  <1> QED
    BY <1>2, <1>5 DEF P, Q, HowMany

LEMMA NumberOfKept ==
  ASSUME NEW T, NEW s \in Seq(T), NEW A, NEW places \in SUBSET (1 .. Len(s))
  PROVE  HowMany(Kept(s, places), A) = Cardinality({i \in places : s[i] \in A})
  <1> DEFINE n == Cardinality(places)
             t == Kept(s, places)
             J == Places(t, A)
             I == {i \in places : s[i] \in A}
  <1>2. t \in Seq(T) /\ Len(t) = n /\ n \in Nat
    BY KeptFacts
  <1>3. PICK f \in [1 .. n -> places] :
              /\ \A j \in 1 .. n : t[j] = s[f[j]]
              /\ \A i \in places : \E j \in 1 .. n : f[j] = i
              /\ \A j, k \in 1 .. n : j < k => f[j] < f[k]
    BY KeptFacts
  <1> HIDE DEF n, t
  <1>4. IsFiniteSet(I)
    <2>1. IsFiniteSet(Places(s, A)) /\ I \in SUBSET Places(s, A)
      BY NumberFacts DEF Places
    <2> HIDE DEF I
    <2> QED
      BY <2>1, FS_Subset
  <1>5. J = {j \in 1 .. n : t[j] \in A}
    BY <1>2 DEF Places
  <1>6. I = {i \in places : s[i] \in A}
    OBVIOUS
  <1> DEFINE g == [j \in J |-> f[j]]
  <1>7. g \in [J -> I]
    BY <1>3, <1>5, <1>6
  <1>8. ASSUME NEW x \in J, NEW y \in J, g[x] = g[y]
        PROVE  x = y
    <2>1. x \in 1 .. n /\ y \in 1 .. n /\ f[x] = f[y]
      BY <1>5, <1>8
    <2>2. f[x] \in 1 .. Len(s)
      BY <1>3, <2>1
    <2>3. ~(f[x] < f[x])
      BY <2>2
    <2>4. ~(x < y) /\ ~(y < x)
      BY <1>3, <2>1, <2>3
    <2> QED
      BY <1>2, <2>1, <2>4
  <1>9. ASSUME NEW i \in I
        PROVE  \E j \in J : g[j] = i
    <2>1. PICK j \in 1 .. n : f[j] = i
      BY <1>3, <1>6
    <2>2. j \in J
      BY <1>3, <1>5, <1>6, <2>1
    <2> QED
      BY <2>1, <2>2
  <1> HIDE DEF g, I, J
  <1>10. Cardinality(J) = Cardinality(I)
    BY <1>4, <1>7, <1>8, <1>9, SameNumber
  <1> QED
    BY <1>10 DEF I, J, t, HowMany

\* Those with B go, whether they are taken out or replaced by something that is not in A.
Without(s, B) == {i \in 1 .. Len(s) : s[i] \notin B}

LEMMA NumberKept ==
  ASSUME NEW T, NEW s \in Seq(T), NEW A, NEW B
  PROVE  HowMany(Kept(s, Without(s, B)), A) = HowMany(s, A \ B)
  <1> DEFINE places == {i \in 1 .. Len(s) : s[i] \notin B}
  <1>1. places \in SUBSET (1 .. Len(s))
    OBVIOUS
  <1>2. {i \in places : s[i] \in A} = Places(s, A \ B)
    BY DEF Places
  <1> HIDE DEF places
  <1>3. HowMany(Kept(s, places), A) = Cardinality({i \in places : s[i] \in A})
    BY <1>1, NumberOfKept
  <1> QED
    BY <1>2, <1>3 DEF HowMany, places, Without

\* t is s with one element more, at the place p.
LEMMA NumberWithOneMore ==
  ASSUME NEW T, NEW s \in Seq(T), NEW t \in Seq(T), NEW A, NEW p \in 1 .. Len(t), Len(t) = Len(s) + 1,
         \A i \in 1 .. Len(s) : t[IF i < p THEN i ELSE i + 1] = s[i]
  PROVE  HowMany(t, A) = HowMany(s, A) + (IF t[p] \in A THEN 1 ELSE 0)
  <1> DEFINE J == Places(s, A)
             I == Places(t, A) \ {p}
             g == [i \in J |-> IF i < p THEN i ELSE i + 1]
  <1>1. Len(s) \in Nat /\ Len(t) \in Nat /\ p \in Nat /\ 1 <= p /\ p <= Len(s) + 1
    OBVIOUS
  <1>2. IsFiniteSet(Places(t, A)) /\ HowMany(t, A) \in Nat /\ HowMany(s, A) \in Nat
    BY NumberFacts
  <1>3. IsFiniteSet(I) /\ Cardinality(I) = IF t[p] \in A THEN HowMany(t, A) - 1 ELSE HowMany(t, A)
    <2>1. p \in Places(t, A) <=> t[p] \in A
      BY DEF Places
    <2> QED
      BY <1>2, <2>1, FS_RemoveElement DEF HowMany
  <1>4. \A i \in J : i \in 1 .. Len(s) /\ s[i] \in A
    BY DEF Places
  <1>5. ASSUME NEW i \in J
        PROVE  g[i] \in I
    <2>1. i \in 1 .. Len(s) /\ i \in Nat /\ s[i] \in A
      BY <1>4
    <2>2. g[i] \in 1 .. Len(t) /\ g[i] # p
      BY <1>1, <2>1
    <2>3. t[g[i]] \in A
      BY <2>1
    <2> QED
      BY <2>2, <2>3 DEF Places
  <1>6. g \in [J -> I]
    BY <1>5
  <1>7. ASSUME NEW x \in J, NEW y \in J, g[x] = g[y]
        PROVE  x = y
    <2>1. x \in Nat /\ y \in Nat
      BY <1>4
    <2> QED
      BY <1>1, <1>7, <2>1
  <1>8. ASSUME NEW i \in I
        PROVE  \E j \in J : g[j] = i
    <2>1. i \in 1 .. Len(t) /\ i # p /\ i \in Nat /\ t[i] \in A
      BY DEF Places
    <2>2. CASE i < p
      <3>1. i \in 1 .. Len(s)
        BY <1>1, <2>1, <2>2
      <3>2. i \in J
        BY <2>1, <2>2, <3>1 DEF Places
      <3> QED
        BY <2>2, <3>2
    <2>3. CASE ~(i < p)
      <3> DEFINE j == i - 1
      <3>1. j \in 1 .. Len(s) /\ ~(j < p) /\ j + 1 = i
        BY <1>1, <2>1, <2>3
      <3> HIDE DEF j
      <3>2. t[i] = s[j]
        BY <3>1
      <3>3. j \in J
        BY <2>1, <3>1, <3>2 DEF Places
      <3> QED
        BY <3>1, <3>3
    <2> QED
      BY <2>2, <2>3
  <1> HIDE DEF g, I, J
  <1>9. Cardinality(J) = Cardinality(I)
    BY <1>3, <1>6, <1>7, <1>8, SameNumber
  <1> QED
    BY <1>2, <1>3, <1>9 DEF J, HowMany

-----------------------------------------------------------------------------
(* Sources and sinks.                                                      *)

SinkEntry == [key : Keys, sink : Sinks \cup {NoSink}]

Plain == {"connect", "disconnect", "unsubscribe"}

CallRecord ==
  [op : Plain \cup {"send", "~source", "~sink"}, on : Sources \cup Sinks, with : Sinks \cup {NoSink}, key : Keys,
   pc : {"start", "locked", "loop", "handler", "first", "try"}, at : Nat]

\* A call is on an object of its kind, and at a place of its own code.
Proper(c) ==
  /\ c.op \in Plain => c.on \in Sources /\ c.with \in Sinks /\ c.pc \in {"start", "locked"}
  /\ c.op = "send" => c.on \in Sources /\ c.with = NoSink /\ c.pc \in {"start", "loop", "handler"}
  /\ c.op = "~source" => c.on \in Sources /\ c.with = NoSink /\ c.pc \in {"start", "loop", "first"}
  /\ c.op = "~sink" => c.on \in Sinks /\ c.with = NoSink /\ c.pc \in {"start", "first", "try"}

\* The mutexes a call has locked.
Held(c) ==
  CASE c.pc = "start" -> {}
    [] c.pc # "start" /\ c.op \in Plain \cup {"send"} -> {c.on}
    [] c.pc # "start" /\ c.op = "~source" -> IF c.pc = "loop" THEN {dmx} ELSE {dmx, c.on}
    [] c.pc # "start" /\ c.op = "~sink" -> IF c.pc = "first" THEN {c.on} ELSE {dmx, c.on}

HeldAt(t, i) == IF i \in 1 .. Len(calls[t]) THEN Held(calls[t][i]) ELSE {}
Holding(t, m) == {i \in 1 .. Len(calls[t]) : m \in Held(calls[t][i])}

\* The call walks over the map of s.
Walks(c, s) == c.op = "send" /\ c.pc # "start" /\ c.on = s

Uses(c, o) == c.on = o \/ c.with = o

SourceTypes ==
  /\ sinks \in [Sources -> Seq(SinkEntry)] /\ sources \in [Sinks -> Seq(Sources)]
  /\ soiled \subseteq erasing /\ erasing \subseteq Sources /\ gone \subseteq Sources \cup Sinks
  /\ calls \in [EventThreads -> Seq(CallRecord)]

\* All calls but the innermost are in a handler, and no thread sends twice from a source.
CallsRight ==
  \A t \in EventThreads : \A i \in 1 .. Len(calls[t]) :
    /\ Proper(calls[t][i])
    /\ i < Len(calls[t]) => calls[t][i].op = "send" /\ calls[t][i].pc = "handler"
    /\ \A j \in 1 .. Len(calls[t]) :
         i < j /\ calls[t][j].op \in {"send", "~source"} => calls[t][i].on # calls[t][j].on

\* The destructor of a sink goes for a source it still has.
TriesRight ==
  \A t \in EventThreads : \A i \in 1 .. Len(calls[t]) :
    calls[t][i].op = "~sink" /\ calls[t][i].pc = "try" => sources[calls[t][i].on] # <<>>

\* A mutex is locked as often as the calls of its owner hold it, and no other thread holds it.
LocksRight ==
  /\ owner \in [Mutexes -> EventThreads \cup {Nobody}] /\ locks \in [Mutexes -> Nat]
  /\ \A m \in Mutexes : \A t \in EventThreads :
       IF owner[m] = t THEN locks[m] = Cardinality(Holding(t, m)) /\ Holding(t, m) # {} ELSE Holding(t, m) = {}
  /\ \A m \in Mutexes : owner[m] = Nobody => locks[m] = 0

ErasingRight ==
  \A s \in Sources : s \in erasing <=> \E t \in EventThreads : \E i \in 1 .. Len(calls[t]) : Walks(calls[t][i], s)

EntriesRight == \A s \in Sources \ soiled : \A i \in 1 .. Len(sinks[s]) : sinks[s][i].sink # NoSink

WalksInMap ==
  \A t \in EventThreads : \A i \in 1 .. Len(calls[t]) :
       calls[t][i].op = "send" /\ calls[t][i].pc = "handler" => calls[t][i].at <= Len(sinks[calls[t][i].on])

\* What is destroyed has no calls, and what is being destroyed no other.
UsersRight ==
  /\ \A o \in gone : \A t \in EventThreads : \A i \in 1 .. Len(calls[t]) : ~Uses(calls[t][i], o)
  /\ \A t, u \in EventThreads : \A i \in 1 .. Len(calls[t]), j \in 1 .. Len(calls[u]) :
       calls[t][i].op \in {"~source", "~sink"} /\ Uses(calls[u][j], calls[t][i].on) => t = u /\ i = j

EntryOf(k, ks) == {e \in SinkEntry : e.sink = k /\ e.key \in ks}

\* A source has as many entries of a sink as the sink has of the source.
Balanced ==
  \A s \in Sources, k \in Sinks : <<s, k>> \notin unbalanced =>
    /\ HowMany(sinks[s], EntryOf(k, Keys)) = HowMany(sources[k], {s})
    /\ s \in gone \/ k \in gone => HowMany(sinks[s], EntryOf(k, Keys)) = 0

SourcesInv ==
  SourceTypes /\ CallsRight /\ TriesRight /\ LocksRight /\ ErasingRight /\ EntriesRight /\ WalksInMap
  /\ UsersRight /\ Balanced

LEMMA HeldFacts ==
  ASSUME NEW c \in CallRecord, Proper(c)
  PROVE  /\ Held(c) \in SUBSET Mutexes
         /\ c.pc = "start" => Held(c) = {}
         /\ c.pc # "start" /\ c.op \in Plain \cup {"send"} => Held(c) = {c.on}
         /\ c.op = "~source" /\ c.pc = "loop" => Held(c) = {dmx}
         /\ c.op = "~source" /\ c.pc = "first" => Held(c) = {dmx, c.on}
         /\ c.op = "~sink" /\ c.pc = "first" => Held(c) = {c.on}
         /\ c.op = "~sink" /\ c.pc = "try" => Held(c) = {dmx, c.on}
  <1>1. c.op \in Plain \cup {"send", "~source", "~sink"} /\ c.on \in Mutexes /\ dmx \in Mutexes
    BY DEF CallRecord, Mutexes
  <1>2. c.pc = "start" => Held(c) = {}
    BY DEF Held
  <1>3. c.pc # "start" /\ c.op \in Plain \cup {"send"} => Held(c) = {c.on}
    BY DEF Held, Plain
  <1>4. c.pc # "start" /\ c.op = "~source" => Held(c) = IF c.pc = "loop" THEN {dmx} ELSE {dmx, c.on}
    BY DEF Held, Plain
  <1>5. c.pc # "start" /\ c.op = "~sink" => Held(c) = IF c.pc = "first" THEN {c.on} ELSE {dmx, c.on}
    BY DEF Held, Plain
  <1> QED
    BY <1>1, <1>2, <1>3, <1>4, <1>5 DEF Plain

LEMMA HoldingFacts ==
  ASSUME SourceTypes, NEW t \in EventThreads, NEW m
  PROVE  /\ IsFiniteSet(Holding(t, m)) /\ Cardinality(Holding(t, m)) \in Nat
         /\ \A i : i \in Holding(t, m) <=> m \in HeldAt(t, i)
  <1>1. Len(calls[t]) \in Nat
    BY DEF SourceTypes
  <1>2. IsFiniteSet(1 .. Len(calls[t])) /\ Holding(t, m) \in SUBSET (1 .. Len(calls[t]))
    BY <1>1, FS_Interval DEF Holding
  <1>3. \A i : i \in Holding(t, m) <=> m \in HeldAt(t, i)
    BY Zenon DEF Holding, HeldAt
  <1> QED
    BY <1>2, <1>3, FS_Subset, FS_CardinalityType

\* A call of t changes the mutexes it holds, at one place of the calls of t.
LEMMA LocksKept ==
  ASSUME SourceTypes, SourceTypes', LocksRight, NEW t \in EventThreads, NEW n,
         \A u \in EventThreads : u # t => calls'[u] = calls[u],
         \A i : i # n => HeldAt(t, i)' = HeldAt(t, i),
         HeldAt(t, n) \in SUBSET Mutexes, HeldAt(t, n)' \in SUBSET Mutexes,
         NEW ups, NEW downs, ups = HeldAt(t, n)' \ HeldAt(t, n), downs = HeldAt(t, n) \ HeldAt(t, n)',
         Relock(t, ups, downs)
  PROVE  LocksRight'
  <1> DEFINE count == [m \in Mutexes |-> locks[m] + (IF m \in ups THEN 1 ELSE 0) - (IF m \in downs THEN 1 ELSE 0)]
  <1>1. /\ owner \in [Mutexes -> EventThreads \cup {Nobody}] /\ locks \in [Mutexes -> Nat]
        /\ \A m \in Mutexes : \A u \in EventThreads :
             IF owner[m] = u THEN locks[m] = Cardinality(Holding(u, m)) /\ Holding(u, m) # {} ELSE Holding(u, m) = {}
        /\ \A m \in Mutexes : owner[m] = Nobody => locks[m] = 0
    BY DEF LocksRight
  <1> HIDE DEF count
  <1>3. locks' = count
    BY DEF Relock, count
  <1>4. \A m \in Mutexes : owner'[m] = IF m \notin ups \cup downs THEN owner[m] ELSE IF count[m] = 0 THEN Nobody ELSE t
    BY DEF Relock, count
  <1>5. Nobody \notin EventThreads
    BY EventAssumption
  <1>6. \A u \in EventThreads : u # t => \A m : Holding(u, m)' = Holding(u, m)
    BY DEF Holding
  <1>7. ASSUME NEW m \in Mutexes
        PROVE  /\ locks'[m] \in Nat /\ (owner'[m] = Nobody => locks'[m] = 0)
               /\ \A u \in EventThreads :
                    IF owner'[m] = u THEN locks'[m] = Cardinality(Holding(u, m)') /\ Holding(u, m)' # {}
                    ELSE Holding(u, m)' = {}
    <2> DEFINE H == Holding(t, m)
               G == Holding(t, m)'
    <2>1. IsFiniteSet(H) /\ Cardinality(H) \in Nat /\ \A i : i \in H <=> m \in HeldAt(t, i)
      BY HoldingFacts
    <2>2. IsFiniteSet(G) /\ Cardinality(G) \in Nat /\ \A i : i \in G <=> m \in HeldAt(t, i)'
      <3>1. (\A i : i \in Holding(t, m) <=> m \in HeldAt(t, i))'
        BY Zenon DEF Holding, HeldAt
      <3>2. Len(calls'[t]) \in Nat
        BY DEF SourceTypes
      <3>3. IsFiniteSet(1 .. Len(calls'[t])) /\ G \in SUBSET (1 .. Len(calls'[t]))
        BY <3>2, FS_Interval DEF Holding
      <3> HIDE DEF G
      <3>4. IsFiniteSet(G) /\ Cardinality(G) \in Nat
        BY <3>3, FS_Subset, FS_CardinalityType
      <3> QED
        BY <3>1, <3>4 DEF G
    <2>3. owner[m] \in EventThreads \cup {Nobody} /\ locks[m] \in Nat
      BY <1>1
    <2>4. IF owner[m] = t THEN locks[m] = Cardinality(H) /\ H # {} ELSE H = {}
      BY <1>1
    <2>5. \A u \in EventThreads : u # t =>
            IF owner[m] = u THEN locks[m] = Cardinality(Holding(u, m)') /\ Holding(u, m)' # {} ELSE Holding(u, m)' = {}
      BY <1>1, <1>6
    <2>6. Cardinality({}) = 0
      BY FS_EmptySet
    <2> HIDE DEF H, G
    <2>7. CASE m \in ups
      <3>1. m \in HeldAt(t, n)' /\ m \notin HeldAt(t, n) /\ m \notin downs
        BY <2>7
      <3>2. G = H \cup {n} /\ n \notin H
        BY <2>1, <2>2, <3>1
      <3>3. Cardinality(G) = Cardinality(H) + 1
        BY <2>1, <3>2, FS_AddElement
      <3>4. owner[m] \in {Nobody, t}
        BY <2>7 DEF Relock, Free
      <3>5. locks[m] = Cardinality(H)
        BY <1>1, <1>5, <2>4, <2>6, <3>4
      <3>6. count[m] = Cardinality(H) + 1
        BY <2>1, <2>7, <3>1, <3>5 DEF count
      <3>7. locks'[m] = Cardinality(G) /\ owner'[m] = t /\ G # {} /\ locks'[m] \in Nat
        BY <1>3, <1>4, <2>1, <2>7, <3>2, <3>3, <3>6
      <3>8. \A u \in EventThreads : u # t => Holding(u, m)' = {}
        BY <1>5, <2>5, <3>4
      <3> QED
        BY <1>5, <3>7, <3>8 DEF G
    <2>8. CASE m \in downs
      <3>1. m \in HeldAt(t, n) /\ m \notin HeldAt(t, n)' /\ m \notin ups
        BY <2>8
      <3>2. G = H \ {n} /\ n \in H
        BY <2>1, <2>2, <3>1
      <3>3. Cardinality(G) = Cardinality(H) - 1
        BY <2>1, <3>2, FS_RemoveElement
      <3>4. owner[m] = t /\ locks[m] = Cardinality(H)
        BY <2>4, <3>2
      <3>5. count[m] = Cardinality(G)
        BY <2>1, <2>8, <3>1, <3>3, <3>4 DEF count
      <3>6. Cardinality(G) = 0 <=> G = {}
        BY <2>2, FS_EmptySet
      <3>7. \A u \in EventThreads : u # t => Holding(u, m)' = {}
        BY <2>5, <3>4
      <3>8. locks'[m] = Cardinality(G) /\ owner'[m] = IF G = {} THEN Nobody ELSE t
        BY <1>3, <1>4, <2>8, <3>5, <3>6
      <3> QED
        BY <1>5, <2>2, <3>6, <3>7, <3>8 DEF G
    <2>9. CASE m \notin ups /\ m \notin downs
      <3>1. m \in HeldAt(t, n)' <=> m \in HeldAt(t, n)
        BY <2>9
      <3>2. G = H
        BY <2>1, <2>2, <3>1
      <3>3. locks'[m] = locks[m] /\ owner'[m] = owner[m]
        BY <1>3, <1>4, <2>3, <2>9 DEF count
      <3> QED
        BY <1>1, <2>3, <2>4, <2>5, <3>2, <3>3 DEF G
    <2> QED
      BY <2>7, <2>8, <2>9
  <1>8. owner' \in [Mutexes -> EventThreads \cup {Nobody}]
    <2>1. owner' = [m \in Mutexes |-> IF m \notin ups \cup downs THEN owner[m] ELSE IF count[m] = 0 THEN Nobody ELSE t]
      BY DEF Relock, count
    <2> QED
      BY <1>1, <2>1
  <1>9. locks' \in [Mutexes -> Nat]
    <2>1. locks' = [m \in Mutexes |-> locks[m] + (IF m \in ups THEN 1 ELSE 0) - (IF m \in downs THEN 1 ELSE 0)]
      BY DEF Relock
    <2> QED
      BY <1>7, <2>1
  <1> QED
    BY <1>7, <1>8, <1>9 DEF LocksRight

-----------------------------------------------------------------------------
(* What a step does to the calls of its thread.                            *)

\* The innermost call of t becomes d.
Changed(t, d) ==
  /\ calls[t] # <<>> /\ d \in CallRecord
  /\ d.op = Call(t).op /\ d.on = Call(t).on /\ d.with = Call(t).with
  /\ calls' \in [EventThreads -> Seq(CallRecord)]
  /\ \A u \in EventThreads : u # t => calls'[u] = calls[u]
  /\ Len(calls'[t]) = Len(calls[t]) /\ calls'[t][Len(calls[t])] = d
  /\ \A i \in 1 .. Len(calls[t]) : i # Len(calls[t]) => calls'[t][i] = calls[t][i]

\* The innermost call of t returns; the others only move in the map.
CameBack(t) ==
  /\ calls[t] # <<>>
  /\ calls' \in [EventThreads -> Seq(CallRecord)]
  /\ \A u \in EventThreads : u # t => calls'[u] = calls[u]
  /\ Len(calls'[t]) = Len(calls[t]) - 1
  /\ \A i \in 1 .. Len(calls[t]) - 1 :
       /\ calls'[t][i].op = calls[t][i].op /\ calls'[t][i].on = calls[t][i].on
       /\ calls'[t][i].with = calls[t][i].with /\ calls'[t][i].pc = calls[t][i].pc

LEMMA CallFacts ==
  ASSUME SourceTypes, NEW t \in EventThreads, calls[t] # <<>>
  PROVE  /\ calls[t] \in Seq(CallRecord) /\ Len(calls[t]) \in Nat \ {0} /\ Len(calls[t]) \in 1 .. Len(calls[t])
         /\ Call(t) = calls[t][Len(calls[t])] /\ Call(t) \in CallRecord
         /\ CallsRight => Proper(Call(t))
  <1>1. calls[t] \in Seq(CallRecord)
    BY DEF SourceTypes
  <1>2. Len(calls[t]) \in Nat \ {0} /\ Len(calls[t]) \in 1 .. Len(calls[t])
    BY <1>1
  <1>3. Call(t) = calls[t][Len(calls[t])]
    BY DEF Call, Last
  <1> QED
    BY <1>1, <1>2, <1>3 DEF CallsRight

LEMMA ReplacedFacts ==
  ASSUME SourceTypes, NEW t \in EventThreads, calls[t] # <<>>, NEW d \in CallRecord,
         d.op = Call(t).op, d.on = Call(t).on, d.with = Call(t).with,
         calls' = [calls EXCEPT ![t] = [calls[t] EXCEPT ![Len(calls[t])] = d]]
  PROVE  Changed(t, d)
  <1>1. calls[t] \in Seq(CallRecord) /\ Len(calls[t]) \in 1 .. Len(calls[t])
    BY CallFacts
  <1> DEFINE s == [calls[t] EXCEPT ![Len(calls[t])] = d]
  <1>2. s \in Seq(CallRecord) /\ Len(s) = Len(calls[t]) /\ s[Len(calls[t])] = d
        /\ \A i \in 1 .. Len(calls[t]) : i # Len(calls[t]) => s[i] = calls[t][i]
    BY <1>1
  <1> HIDE DEF s
  <1>3. calls' = [calls EXCEPT ![t] = s]
    BY DEF s
  <1>4. calls \in [EventThreads -> Seq(CallRecord)]
    BY DEF SourceTypes
  <1> QED
    BY <1>2, <1>3, <1>4 DEF Changed

LEMMA GoToFacts ==
  ASSUME SourceTypes, NEW t \in EventThreads, calls[t] # <<>>,
         NEW pc \in {"start", "locked", "loop", "handler", "first", "try"}, GoTo(t, pc)
  PROVE  Changed(t, [Call(t) EXCEPT !.pc = pc])
  <1>1. calls' = [calls EXCEPT ![t] = [calls[t] EXCEPT ![Len(calls[t])] = [Call(t) EXCEPT !.pc = pc]]]
    BY DEF GoTo, Call, Last
  <1>2. Call(t) \in CallRecord
    BY CallFacts
  <1> DEFINE d == [Call(t) EXCEPT !.pc = pc]
  <1>3. d \in CallRecord /\ d.op = Call(t).op /\ d.on = Call(t).on /\ d.with = Call(t).with
    BY <1>2 DEF CallRecord
  <1> HIDE DEF d
  <1> QED
    BY <1>1, <1>3, ReplacedFacts DEF d

LEMMA ReturnFacts ==
  ASSUME SourceTypes, NEW t \in EventThreads, calls[t] # <<>>, Return(t)
  PROVE  CameBack(t) /\ \A i \in 1 .. Len(calls'[t]) : calls'[t][i] = calls[t][i]
  <1>1. calls[t] \in Seq(CallRecord) /\ Len(calls[t]) \in Nat \ {0}
    BY CallFacts
  <1>2. \A m \in 0 .. Len(calls[t]) : /\ SubSeq(calls[t], 1, m) \in Seq(CallRecord) /\ Len(SubSeq(calls[t], 1, m)) = m
                                     /\ \A i \in 1 .. m : SubSeq(calls[t], 1, m)[i] = calls[t][i]
    BY <1>1
  <1>3. Len(calls[t]) - 1 \in 0 .. Len(calls[t])
    BY <1>1
  <1>4. Outer(t) \in Seq(CallRecord) /\ Len(Outer(t)) = Len(calls[t]) - 1
        /\ \A i \in 1 .. Len(calls[t]) - 1 : Outer(t)[i] = calls[t][i]
    BY <1>2, <1>3 DEF Outer
  <1>5. calls \in [EventThreads -> Seq(CallRecord)]
    BY DEF SourceTypes
  <1>6. calls' = [calls EXCEPT ![t] = Outer(t)]
    BY DEF Return
  <1> HIDE DEF Outer
  <1> QED
    BY <1>4, <1>5, <1>6 DEF CameBack

LEMMA ChangedCalls ==
  ASSUME SourceTypes, CallsRight, NEW t \in EventThreads, NEW d, Changed(t, d), Proper(d)
  PROVE  CallsRight'
  <1>1. Len(calls[t]) \in 1 .. Len(calls[t]) /\ Call(t) = calls[t][Len(calls[t])]
    BY CallFacts DEF Changed
  <1>2. \A i \in 1 .. Len(calls[t]) : calls'[t][i].op = calls[t][i].op /\ calls'[t][i].on = calls[t][i].on
    BY <1>1 DEF Changed
  <1>3. Len(calls'[t]) = Len(calls[t]) /\ calls'[t][Len(calls[t])] = d
        /\ \A i \in 1 .. Len(calls[t]) : i # Len(calls[t]) => calls'[t][i] = calls[t][i]
    BY DEF Changed
  <1>4. ASSUME NEW i \in 1 .. Len(calls[t])
        PROVE  /\ Proper(calls'[t][i])
               /\ i < Len(calls[t]) => calls'[t][i].op = "send" /\ calls'[t][i].pc = "handler"
               /\ \A j \in 1 .. Len(calls[t]) :
                    i < j /\ calls'[t][j].op \in {"send", "~source"} => calls'[t][i].on # calls'[t][j].on
    <2>1. Proper(calls'[t][i])
      BY <1>3 DEF CallsRight
    <2>2. i < Len(calls[t]) => calls'[t][i].op = "send" /\ calls'[t][i].pc = "handler"
      BY <1>1, <1>3 DEF CallsRight
    <2>3. \A j \in 1 .. Len(calls[t]) :
            i < j /\ calls'[t][j].op \in {"send", "~source"} => calls'[t][i].on # calls'[t][j].on
      BY <1>2 DEF CallsRight
    <2> QED
      BY <2>1, <2>2, <2>3
  <1>5. \A u \in EventThreads : u # t => calls'[u] = calls[u]
    BY DEF Changed
  <1> QED
    BY <1>3, <1>4, <1>5 DEF CallsRight

LEMMA ReturnedCalls ==
  ASSUME SourceTypes, CallsRight, NEW t \in EventThreads, CameBack(t)
  PROVE  CallsRight'
  <1>1. Len(calls[t]) \in Nat \ {0}
    BY CallFacts DEF CameBack
  <1>2. Len(calls'[t]) = Len(calls[t]) - 1
        /\ \A i \in 1 .. Len(calls'[t]) : i \in 1 .. Len(calls[t]) /\ i < Len(calls[t])
             /\ calls'[t][i].op = calls[t][i].op /\ calls'[t][i].on = calls[t][i].on
             /\ calls'[t][i].with = calls[t][i].with /\ calls'[t][i].pc = calls[t][i].pc
    BY <1>1 DEF CameBack
  <1>3. ASSUME NEW i \in 1 .. Len(calls'[t])
        PROVE  /\ Proper(calls'[t][i])
               /\ calls'[t][i].op = "send" /\ calls'[t][i].pc = "handler"
               /\ \A j \in 1 .. Len(calls'[t]) :
                    i < j /\ calls'[t][j].op \in {"send", "~source"} => calls'[t][i].on # calls'[t][j].on
    <2>1. Proper(calls[t][i]) /\ calls[t][i].op = "send" /\ calls[t][i].pc = "handler"
      BY <1>2 DEF CallsRight
    <2>2. Proper(calls'[t][i])
      BY <1>2, <2>1 DEF Proper
    <2>3. \A j \in 1 .. Len(calls'[t]) :
            i < j /\ calls'[t][j].op \in {"send", "~source"} => calls'[t][i].on # calls'[t][j].on
      BY <1>2 DEF CallsRight
    <2> QED
      BY <1>2, <2>1, <2>2, <2>3
  <1>4. \A u \in EventThreads : u # t => calls'[u] = calls[u]
    BY DEF CameBack
  <1> QED
    BY <1>3, <1>4 DEF CallsRight

LEMMA ChangedUsers ==
  ASSUME SourceTypes, UsersRight, NEW t \in EventThreads, NEW d, Changed(t, d), UNCHANGED gone
  PROVE  UsersRight'
  <1>1. Len(calls[t]) \in 1 .. Len(calls[t]) /\ Call(t) = calls[t][Len(calls[t])]
    BY CallFacts DEF Changed
  <1>2. \A u \in EventThreads : Len(calls'[u]) = Len(calls[u]) /\ \A i \in 1 .. Len(calls[u]) :
          calls'[u][i].op = calls[u][i].op /\ calls'[u][i].on = calls[u][i].on /\ calls'[u][i].with = calls[u][i].with
    BY <1>1 DEF Changed
  <1>3. \A u \in EventThreads : \A i \in 1 .. Len(calls[u]) : \A o : Uses(calls'[u][i], o) <=> Uses(calls[u][i], o)
    BY <1>2 DEF Uses
  <1>4. (\A o \in gone : \A u \in EventThreads : \A i \in 1 .. Len(calls[u]) : ~Uses(calls[u][i], o))'
    <2>1. gone' = gone
      OBVIOUS
    <2> QED
      BY <1>2, <1>3, <2>1, Zenon DEF UsersRight
  <1>5. (\A u, v \in EventThreads : \A i \in 1 .. Len(calls[u]), j \in 1 .. Len(calls[v]) :
          calls[u][i].op \in {"~source", "~sink"} /\ Uses(calls[v][j], calls[u][i].on) => u = v /\ i = j)'
    <2> SUFFICES ASSUME NEW u \in EventThreads, NEW v \in EventThreads, NEW i \in 1 .. Len(calls'[u]),
                        NEW j \in 1 .. Len(calls'[v]), calls'[u][i].op \in {"~source", "~sink"},
                        Uses(calls'[v][j], calls'[u][i].on)
                 PROVE  u = v /\ i = j
      OBVIOUS
    <2>1. i \in 1 .. Len(calls[u]) /\ j \in 1 .. Len(calls[v])
      BY <1>2
    <2>2. calls[u][i].op \in {"~source", "~sink"} /\ Uses(calls[v][j], calls[u][i].on)
      BY <1>2, <1>3, <2>1
    <2> QED
      BY <2>1, <2>2 DEF UsersRight
  <1> QED
    BY <1>4, <1>5 DEF UsersRight

LEMMA ReturnedUsers ==
  ASSUME SourceTypes, CallsRight, UsersRight, NEW t \in EventThreads, CameBack(t),
         \/ UNCHANGED gone
         \/ gone' = gone \cup {Call(t).on} /\ Call(t).op \in {"~source", "~sink"}
  PROVE  UsersRight'
  <1>1. Len(calls[t]) \in 1 .. Len(calls[t]) /\ Len(calls[t]) \in Nat \ {0} /\ Call(t) = calls[t][Len(calls[t])]
    BY CallFacts DEF CameBack
  <1>2. \A u \in EventThreads : \A i \in 1 .. Len(calls'[u]) : i \in 1 .. Len(calls[u])
          /\ calls'[u][i].op = calls[u][i].op /\ calls'[u][i].on = calls[u][i].on /\ calls'[u][i].with = calls[u][i].with
    BY <1>1 DEF CameBack
  <1>3. \A i \in 1 .. Len(calls'[t]) : i # Len(calls[t])
    BY <1>1 DEF CameBack
  <1>4. ASSUME NEW o \in gone', NEW u \in EventThreads, NEW i \in 1 .. Len(calls'[u])
        PROVE  ~Uses(calls'[u][i], o)
    <2>1. Uses(calls'[u][i], o) <=> Uses(calls[u][i], o)
      BY <1>2 DEF Uses
    <2>2. CASE o \in gone
      BY <1>2, <2>1, <2>2 DEF UsersRight
    <2>3. CASE o \notin gone
      <3>1. o = calls[t][Len(calls[t])].on /\ calls[t][Len(calls[t])].op \in {"~source", "~sink"}
        BY <1>1, <2>3
      <3>2. Uses(calls[u][i], o) => t = u /\ Len(calls[t]) = i
        BY <1>1, <1>2, <3>1 DEF UsersRight
      <3> QED
        BY <1>3, <2>1, <3>2
    <2> QED
      BY <2>2, <2>3
  <1>5. (\A u, v \in EventThreads : \A i \in 1 .. Len(calls[u]), j \in 1 .. Len(calls[v]) :
          calls[u][i].op \in {"~source", "~sink"} /\ Uses(calls[v][j], calls[u][i].on) => u = v /\ i = j)'
    <2> SUFFICES ASSUME NEW u \in EventThreads, NEW v \in EventThreads, NEW i \in 1 .. Len(calls'[u]),
                        NEW j \in 1 .. Len(calls'[v]), calls'[u][i].op \in {"~source", "~sink"},
                        Uses(calls'[v][j], calls'[u][i].on)
                 PROVE  u = v /\ i = j
      OBVIOUS
    <2>1. i \in 1 .. Len(calls[u]) /\ j \in 1 .. Len(calls[v])
      BY <1>2
    <2>2. calls[u][i].op \in {"~source", "~sink"} /\ Uses(calls[v][j], calls[u][i].on)
      BY <1>2, <2>1 DEF Uses
    <2> QED
      BY <2>1, <2>2 DEF UsersRight
  <1> QED
    BY <1>4, <1>5 DEF UsersRight

LEMMA ChangedLocks ==
  ASSUME SourceTypes, SourceTypes', CallsRight, LocksRight, NEW t \in EventThreads, NEW d, Changed(t, d), Proper(d),
         NEW ups, NEW downs, ups = Held(d) \ Held(Call(t)), downs = Held(Call(t)) \ Held(d), Relock(t, ups, downs)
  PROVE  LocksRight'
  <1>0. PICK n : n = Len(calls[t])
    OBVIOUS
  <1>1. n \in 1 .. Len(calls[t]) /\ Call(t) = calls[t][n] /\ Call(t) \in CallRecord /\ Proper(Call(t))
    BY <1>0, CallFacts DEF Changed
  <1>2. d \in CallRecord /\ Len(calls'[t]) = Len(calls[t]) /\ calls'[t][n] = d
        /\ (\A i \in 1 .. Len(calls[t]) : i # n => calls'[t][i] = calls[t][i])
        /\ \A u \in EventThreads : u # t => calls'[u] = calls[u]
    BY <1>0 DEF Changed
  <1>3. HeldAt(t, n) = Held(Call(t)) /\ HeldAt(t, n)' = Held(d)
    BY <1>1, <1>2, Zenon DEF HeldAt
  <1>4. Held(d) \in SUBSET Mutexes /\ Held(Call(t)) \in SUBSET Mutexes
    BY <1>1, <1>2, HeldFacts
  <1>5. \A i : i # n => HeldAt(t, i)' = HeldAt(t, i)
    BY <1>2, Zenon DEF HeldAt
  <1>6. ups = HeldAt(t, n)' \ HeldAt(t, n) /\ downs = HeldAt(t, n) \ HeldAt(t, n)'
    BY <1>3
  <1>7. HeldAt(t, n) \in SUBSET Mutexes /\ HeldAt(t, n)' \in SUBSET Mutexes
    BY <1>3, <1>4
  <1> QED
    BY <1>2, <1>5, <1>6, <1>7, LocksKept

LEMMA UnchangedLocks ==
  ASSUME SourceTypes, CallsRight, LocksRight, NEW t \in EventThreads, NEW d, Changed(t, d),
         Held(d) = Held(Call(t)), UNCHANGED <<owner, locks>>
  PROVE  LocksRight'
  <1>1. Len(calls[t]) \in 1 .. Len(calls[t]) /\ Call(t) = calls[t][Len(calls[t])]
    BY CallFacts DEF Changed
  <1>2. \A u \in EventThreads : Len(calls'[u]) = Len(calls[u]) /\ \A i \in 1 .. Len(calls[u]) :
           Held(calls'[u][i]) = Held(calls[u][i])
    BY <1>1 DEF Changed
  <1>3. \A u \in EventThreads : \A m : Holding(u, m)' = Holding(u, m)
    BY <1>2 DEF Holding, Held
  <1> QED
    BY <1>3 DEF LocksRight

LEMMA ReturnedLocks ==
  ASSUME SourceTypes, SourceTypes', CallsRight, LocksRight, NEW t \in EventThreads, CameBack(t),
         NEW downs, downs = Held(Call(t)), Relock(t, {}, downs)
  PROVE  LocksRight'
  <1>0. PICK n : n = Len(calls[t])
    OBVIOUS
  <1>1. n \in Nat \ {0} /\ Call(t) = calls[t][n] /\ Call(t) \in CallRecord /\ Proper(Call(t))
    BY <1>0, CallFacts DEF CameBack
  <1>2. Len(calls'[t]) = n - 1 /\ (\A u \in EventThreads : u # t => calls'[u] = calls[u])
        /\ \A i \in 1 .. n - 1 : calls'[t][i].op = calls[t][i].op /\ calls'[t][i].on = calls[t][i].on
                                 /\ calls'[t][i].pc = calls[t][i].pc
    BY <1>0 DEF CameBack
  <1>3. n \in 1 .. n /\ n \notin 1 .. n - 1
    BY <1>1
  <1>4. HeldAt(t, n) = Held(Call(t)) /\ HeldAt(t, n)' = {}
    BY <1>0, <1>1, <1>2, <1>3, Zenon DEF HeldAt
  <1>5. Held(Call(t)) \in SUBSET Mutexes
    BY <1>1, HeldFacts
  <1>6. ASSUME NEW i, i # n
        PROVE  HeldAt(t, i)' = HeldAt(t, i)
    <2>1. i \in 1 .. n <=> i \in 1 .. n - 1
      BY <1>1, <1>6
    <2>2. CASE i \in 1 .. n - 1
      <3>1. Held(calls'[t][i]) = Held(calls[t][i])
        BY <1>2, <2>2 DEF Held
      <3> QED
        BY <1>0, <1>2, <2>1, <2>2, <3>1, Zenon DEF HeldAt
    <2>3. CASE i \notin 1 .. n - 1
      BY <1>0, <1>2, <2>1, <2>3, Zenon DEF HeldAt
    <2> QED
      BY <2>2, <2>3
  <1>7. {} = HeldAt(t, n)' \ HeldAt(t, n) /\ downs = HeldAt(t, n) \ HeldAt(t, n)'
    BY <1>4
  <1>8. HeldAt(t, n) \in SUBSET Mutexes /\ HeldAt(t, n)' \in SUBSET Mutexes
    BY <1>4, <1>5
  <1> QED
    BY <1>2, <1>6, <1>7, <1>8, LocksKept

LEMMA ChangedErasing ==
  ASSUME SourceTypes, ErasingRight, NEW t \in EventThreads, NEW d, Changed(t, d), UNCHANGED erasing,
         d.op = "send" => (d.pc = "start" <=> Call(t).pc = "start")
  PROVE  ErasingRight'
  <1>1. Len(calls[t]) \in 1 .. Len(calls[t]) /\ Call(t) = calls[t][Len(calls[t])]
    BY CallFacts DEF Changed
  <1>2. \A u \in EventThreads : Len(calls'[u]) = Len(calls[u]) /\ \A i \in 1 .. Len(calls[u]) :
           \A s : Walks(calls'[u][i], s) <=> Walks(calls[u][i], s)
    BY <1>1 DEF Changed, Walks
  <1> QED
    BY <1>2 DEF ErasingRight

LEMMA ReturnedErasing ==
  ASSUME SourceTypes, ErasingRight, NEW t \in EventThreads, CameBack(t), UNCHANGED erasing,
         Call(t).op # "send"
  PROVE  ErasingRight'
  <1> DEFINE n == Len(calls[t])
  <1>1. n \in Nat \ {0} /\ Call(t) = calls[t][n]
    BY CallFacts DEF CameBack
  <1>2. (\A u \in EventThreads : u # t => calls'[u] = calls[u]) /\ Len(calls'[t]) = n - 1
        /\ \A i \in 1 .. n - 1 : \A s : Walks(calls'[t][i], s) <=> Walks(calls[t][i], s)
    BY DEF CameBack, Walks
  <1>3. \A i \in 1 .. n : i \in 1 .. n - 1 \/ i = n
    BY <1>1
  <1>4. \A i \in 1 .. n - 1 : i \in 1 .. n
    BY <1>1
  <1>5. \A s : ~Walks(calls[t][n], s)
    BY <1>1 DEF Walks
  <1> HIDE DEF n
  <1>6. \A u \in EventThreads, s \in Sources : (\E i \in 1 .. Len(calls'[u]) : Walks(calls'[u][i], s))
             <=> (\E i \in 1 .. Len(calls[u]) : Walks(calls[u][i], s))
    BY <1>2, <1>3, <1>4, <1>5 DEF n
  <1> QED
    BY <1>6 DEF ErasingRight

\* A call in a handler is on a source that is in send().
LEMMA WalkedIsErasing ==
  ASSUME SourceTypes, CallsRight, ErasingRight, NEW t \in EventThreads, NEW i \in 1 .. Len(calls[t]),
         calls[t][i].op = "send", calls[t][i].pc # "start"
  PROVE  calls[t][i].on \in erasing
  <1>1. calls[t][i].on \in Sources
    BY DEF CallsRight, Proper
  <1> QED
    BY <1>1 DEF ErasingRight, Walks

LEMMA WalksKept ==
  ASSUME SourceTypes, SourceTypes', CallsRight', ErasingRight', WalksInMap, NEW t \in EventThreads,
         \A u \in EventThreads : u # t => calls'[u] = calls[u],
         \A s \in erasing' : Len(sinks[s]) <= Len(sinks'[s]),
         \A i \in 1 .. Len(calls'[t]) : calls'[t][i].op = "send" /\ calls'[t][i].pc = "handler" =>
            \/ calls'[t][i].at <= Len(sinks'[calls'[t][i].on])
            \/ i \in 1 .. Len(calls[t]) /\ calls'[t][i] = calls[t][i]
  PROVE  WalksInMap'
  <1> SUFFICES ASSUME NEW u \in EventThreads, NEW i \in 1 .. Len(calls'[u]),
                      calls'[u][i].op = "send", calls'[u][i].pc = "handler",
                      i \in 1 .. Len(calls[u]), calls'[u][i] = calls[u][i]
               PROVE  calls'[u][i].at <= Len(sinks'[calls'[u][i].on])
    BY DEF WalksInMap
  <1> DEFINE c == calls[u][i]
  <1>1. c.at <= Len(sinks[c.on])
    BY DEF WalksInMap
  <1>2. c.on \in Sources /\ c.on \in erasing'
    <2>1. c.on \in Sources
      BY DEF CallsRight, Proper
    <2> QED
      BY <2>1 DEF ErasingRight, Walks
  <1>3. Len(sinks[c.on]) \in Nat /\ Len(sinks'[c.on]) \in Nat /\ Len(sinks[c.on]) <= Len(sinks'[c.on])
    BY <1>2 DEF SourceTypes
  <1>4. c.at \in Nat
    <2>1. calls[u] \in Seq(CallRecord)
      BY DEF SourceTypes
    <2>2. c \in CallRecord
      BY <2>1
    <2> QED
      BY <2>2 DEF CallRecord
  <1> HIDE DEF c
  <1>5. c.at <= Len(sinks'[c.on])
    BY <1>1, <1>3, <1>4
  <1> QED
    BY <1>5 DEF c

\* Who can lock a sink that its destructor has locked is the destructor.
LEMMA TryHolds ==
  ASSUME SourceTypes, CallsRight, LocksRight, NEW u \in EventThreads, NEW i \in 1 .. Len(calls[u]),
         calls[u][i].op = "~sink", calls[u][i].pc = "try",
         NEW t \in EventThreads, Free(t, calls[u][i].on)
  PROVE  u = t /\ i = Len(calls[t])
  <1> DEFINE k == calls[u][i].on
  <1>1. calls[u] \in Seq(CallRecord) /\ Proper(calls[u][i])
    BY DEF SourceTypes, CallsRight
  <1>2. calls[u][i] \in CallRecord
    BY <1>1
  <1>3. Held(calls[u][i]) = {dmx, k} /\ Held(calls[u][i]) \in SUBSET Mutexes
    BY <1>1, <1>2, HeldFacts
  <1>4. k \in Mutexes /\ i \in Holding(u, k)
    BY <1>3 DEF Holding
  <1>5. owner[k] = u
    BY <1>4 DEF LocksRight
  <1>6. u = t
    BY <1>5, EventAssumption DEF Free
  <1>7. ~(i < Len(calls[u]))
    BY DEF CallsRight
  <1>8. Len(calls[u]) \in Nat
    BY <1>1
  <1> QED
    BY <1>6, <1>7, <1>8

LEMMA TriesKept ==
  ASSUME SourceTypes, CallsRight, CallsRight', LocksRight, TriesRight, NEW t \in EventThreads,
         \A u \in EventThreads : u # t => calls'[u] = calls[u],
         \A i \in 1 .. Len(calls'[t]) : calls'[t][i].op = "~sink" /\ calls'[t][i].pc = "try" => sources'[calls'[t][i].on] # <<>>,
         \/ UNCHANGED sources
         \/ \E k \in Sinks : Free(t, k) /\ \A j \in Sinks : j # k => sources'[j] = sources[j]
  PROVE  TriesRight'
  <1> SUFFICES ASSUME NEW u \in EventThreads, u # t, NEW i \in 1 .. Len(calls[u]),
                      calls[u][i].op = "~sink", calls[u][i].pc = "try"
               PROVE  sources'[calls[u][i].on] # <<>>
    BY DEF TriesRight
  <1>1. sources[calls[u][i].on] # <<>> /\ calls[u][i].on \in Sinks
    BY DEF TriesRight, CallsRight, Proper
  <1>2. ~Free(t, calls[u][i].on)
    BY TryHolds
  <1> QED
    BY <1>1, <1>2

-----------------------------------------------------------------------------
(* What a step does to the map and the list.                               *)

LEMMA MapFacts ==
  ASSUME SourceTypes, NEW s \in Sources, NEW k \in Sinks
  PROVE  /\ sinks[s] \in Seq(SinkEntry) /\ Len(sinks[s]) \in Nat /\ DOMAIN sinks[s] = 1 .. Len(sinks[s])
         /\ \A i \in 1 .. Len(sinks[s]) : sinks[s][i] \in SinkEntry
         /\ sources[k] \in Seq(Sources) /\ Len(sources[k]) \in Nat /\ DOMAIN sources[k] = 1 .. Len(sources[k])
         /\ \A i \in 1 .. Len(sources[k]) : sources[k][i] \in Sources
         /\ \A ks : Entries(s, k, ks) = Places(sinks[s], EntryOf(k, ks))
         /\ \A ks : (Entries(s, k, ks) = {} <=> HowMany(sinks[s], EntryOf(k, ks)) = 0)
         /\ \A ks : Cardinality(Entries(s, k, ks)) = HowMany(sinks[s], EntryOf(k, ks))
  <1>1. sinks[s] \in Seq(SinkEntry) /\ sources[k] \in Seq(Sources)
    BY DEF SourceTypes
  <1>2. Len(sinks[s]) \in Nat /\ DOMAIN sinks[s] = 1 .. Len(sinks[s])
        /\ \A i \in 1 .. Len(sinks[s]) : sinks[s][i] \in SinkEntry
    BY <1>1
  <1>3. Len(sources[k]) \in Nat /\ DOMAIN sources[k] = 1 .. Len(sources[k])
        /\ \A i \in 1 .. Len(sources[k]) : sources[k][i] \in Sources
    BY <1>1
  <1>4. \A ks : Entries(s, k, ks) = Places(sinks[s], EntryOf(k, ks))
    BY <1>2 DEF Entries, Places, EntryOf
  <1>5. \A ks : IsFiniteSet(Places(sinks[s], EntryOf(k, ks)))
    BY <1>1, NumberFacts
  <1>6. \A ks : Places(sinks[s], EntryOf(k, ks)) = {} <=> HowMany(sinks[s], EntryOf(k, ks)) = 0
    BY <1>5, FS_EmptySet DEF HowMany
  <1> QED
    BY <1>1, <1>2, <1>3, <1>4, <1>6 DEF HowMany

LEMMA ErasedFacts ==
  ASSUME SourceTypes, NEW s \in Sources, NEW k \in Sinks, NEW ks
  PROVE  /\ Erased(s, k, ks) \in Seq(SinkEntry)
         /\ s \in erasing => Len(Erased(s, k, ks)) = Len(sinks[s])
         /\ \A x \in Sinks : \A xs : HowMany(Erased(s, k, ks), EntryOf(x, xs))
                                   = HowMany(sinks[s], EntryOf(x, xs) \ EntryOf(k, ks))
         /\ (\A i \in 1 .. Len(sinks[s]) : sinks[s][i].sink # NoSink) /\ (s \in erasing => Entries(s, k, ks) = {}) =>
              \A i \in 1 .. Len(Erased(s, k, ks)) : Erased(s, k, ks)[i].sink # NoSink
  <1> DEFINE r == Erased(s, k, ks)
             m == sinks[s]
             B == EntryOf(k, ks)
  <1>1. m \in Seq(SinkEntry) /\ Len(m) \in Nat /\ DOMAIN m = 1 .. Len(m) /\ \A i \in 1 .. Len(m) : m[i] \in SinkEntry
    BY MapFacts
  <1>2. \A i \in 1 .. Len(m) : (m[i].sink = k /\ m[i].key \in ks) <=> m[i] \in B
    BY <1>1 DEF EntryOf
  <1>3. Entries(s, k, ks) = Places(m, B)
    BY MapFacts
  <1>4. CASE s \in erasing
    <2>1. r = [i \in 1 .. Len(m) |-> IF m[i] \in B THEN [m[i] EXCEPT !.sink = NoSink] ELSE m[i]]
      <3>1. r = [i \in DOMAIN m |-> IF m[i].sink = k /\ m[i].key \in ks THEN [m[i] EXCEPT !.sink = NoSink] ELSE m[i]]
        BY <1>4 DEF Erased
      <3> HIDE DEF r, m, B
      <3> QED
        BY <1>1, <1>2, <3>1
    <2> HIDE DEF r, m
    <2>2. \A e \in SinkEntry : [e EXCEPT !.sink = NoSink] \in SinkEntry /\ [e EXCEPT !.sink = NoSink].sink = NoSink
      BY DEF SinkEntry
    <2>3. r \in [1 .. Len(m) -> SinkEntry]
      BY <1>1, <2>1, <2>2
    <2>4. r \in Seq(SinkEntry) /\ Len(r) = Len(m)
      BY <1>1, <2>3
    <2>5. ASSUME NEW x \in Sinks, NEW xs
          PROVE  HowMany(r, EntryOf(x, xs)) = HowMany(m, EntryOf(x, xs) \ B)
      <3>1. \A i \in 1 .. Len(m) : IF m[i] \in B THEN r[i] \notin EntryOf(x, xs) ELSE r[i] = m[i]
        BY <1>1, <2>1, <2>2, EventAssumption DEF EntryOf
      <3> QED
        <4> DEFINE A == EntryOf(x, xs)
        <4> HIDE DEF A, B
        <4>1. \A i \in 1 .. Len(m) : IF m[i] \in B THEN r[i] \notin A ELSE r[i] = m[i]
          BY <3>1 DEF A
        <4>2. Places(r, A) = Places(m, A \ B)
          BY <2>4, <4>1 DEF Places
        <4> QED
          BY <4>2 DEF A, HowMany
    <2>6. Places(m, B) = {} => r = m
      <3> SUFFICES ASSUME Places(m, B) = {}
                   PROVE  r = m
        OBVIOUS
      <3>1. \A i \in 1 .. Len(m) : m[i] \notin B
        BY DEF Places
      <3> QED
        BY <1>1, <2>1, <3>1
    <2> QED
      BY <1>3, <1>4, <2>4, <2>5, <2>6 DEF r, m
  <1>5. CASE s \notin erasing
    <2> DEFINE places == {i \in 1 .. Len(m) : m[i] \notin B}
    <2>1. r = Kept(m, {i \in DOMAIN m : ~(m[i].sink = k /\ m[i].key \in ks)})
      BY <1>5 DEF Erased
    <2>2. {i \in DOMAIN m : ~(m[i].sink = k /\ m[i].key \in ks)} = places
      <3> HIDE DEF m, B
      <3> QED
        BY <1>1, <1>2
    <2>3. r = Kept(m, places)
      BY <2>1, <2>2
    <2>4. places \in SUBSET (1 .. Len(m))
      OBVIOUS
    <2> HIDE DEF r, m
    <2>5. \A A : HowMany(r, A) = HowMany(m, A \ B)
      <3>1. r = Kept(m, Without(m, B))
        BY <2>3 DEF Without
      <3> HIDE DEF B
      <3> QED
        BY <1>1, <3>1, NumberKept
    <2> HIDE DEF places
    <2>6. r \in Seq(SinkEntry) /\ \A i \in 1 .. Len(r) : \E j \in places : r[i] = m[j]
      <3>1. \A x \in Seq(SinkEntry) : \A ps \in SUBSET (1 .. Len(x)) :
              Kept(x, ps) \in Seq(SinkEntry) /\ \A i \in 1 .. Len(Kept(x, ps)) : \E j \in ps : Kept(x, ps)[i] = x[j]
        BY KeptElements
      <3> QED
        BY <1>1, <2>3, <2>4, <3>1, Zenon
    <2>7. \A i \in 1 .. Len(r) : \E j \in 1 .. Len(m) : r[i] = m[j]
      BY <2>4, <2>6
    <2> QED
      BY <1>5, <2>5, <2>6, <2>7 DEF r, m
  <1> QED
    BY <1>4, <1>5

LEMMA ForgottenFacts ==
  ASSUME SourceTypes, NEW s \in Sources, NEW k \in Sinks
  PROVE  Forgotten(k, s) \in Seq(Sources) /\ \A A : HowMany(Forgotten(k, s), A) = HowMany(sources[k], A \ {s})
  <1> DEFINE m == sources[k]
             places == {i \in 1 .. Len(m) : m[i] \notin {s}}
  <1>1. m \in Seq(Sources) /\ DOMAIN m = 1 .. Len(m)
    BY MapFacts
  <1>2. Forgotten(k, s) = Kept(m, {i \in DOMAIN m : m[i] # s})
    BY DEF Forgotten
  <1>3. {i \in DOMAIN m : m[i] # s} = places
    BY <1>1
  <1>4. places \in SUBSET (1 .. Len(m))
    OBVIOUS
  <1> HIDE DEF m
  <1>5. \A A : HowMany(Forgotten(k, s), A) = HowMany(m, A \ {s})
    <2>1. Forgotten(k, s) = Kept(m, Without(m, {s}))
      BY <1>2, <1>3 DEF Without
    <2> QED
      BY <1>1, <2>1, NumberKept
  <1> HIDE DEF places
  <1>6. Forgotten(k, s) \in Seq(Sources)
    BY <1>1, <1>2, <1>3, <1>4, KeptFacts
  <1> QED
    BY <1>5, <1>6 DEF m

LEMMA NoNumber ==
  ASSUME NEW T, NEW s \in Seq(T)
  PROVE  HowMany(s, {}) = 0
  BY NumberFacts

\* All the entries of a pair and all the places of the source in the list go.
LEMMA DisconnectedFacts ==
  ASSUME SourceTypes, EntriesRight, Balanced, NEW s \in Sources, NEW k \in Sinks, Disconnected(s, k),
         UNCHANGED <<gone, unbalanced>>
  PROVE  /\ sinks' \in [Sources -> Seq(SinkEntry)] /\ sources' \in [Sinks -> Seq(Sources)]
         /\ soiled' \subseteq erasing' /\ erasing' = erasing
         /\ \A x \in erasing : Len(sinks'[x]) = Len(sinks[x])
         /\ \A j \in Sinks : j # k => sources'[j] = sources[j]
         /\ EntriesRight' /\ Balanced'
  <1>1. /\ sinks' = [sinks EXCEPT ![s] = Erased(s, k, Keys)]
        /\ sources' = [sources EXCEPT ![k] = Forgotten(k, s)]
        /\ soiled' = IF s \in erasing /\ Entries(s, k, Keys) # {} THEN soiled \cup {s} ELSE soiled
        /\ UNCHANGED erasing
    BY DEF Disconnected
  <1>2. sinks \in [Sources -> Seq(SinkEntry)] /\ sources \in [Sinks -> Seq(Sources)]
        /\ soiled \subseteq erasing /\ erasing \subseteq Sources
    BY DEF SourceTypes
  <1>3. /\ Erased(s, k, Keys) \in Seq(SinkEntry)
        /\ s \in erasing => Len(Erased(s, k, Keys)) = Len(sinks[s])
        /\ \A x \in Sinks : \A xs : HowMany(Erased(s, k, Keys), EntryOf(x, xs))
                                   = HowMany(sinks[s], EntryOf(x, xs) \ EntryOf(k, Keys))
        /\ (\A i \in 1 .. Len(sinks[s]) : sinks[s][i].sink # NoSink) /\ (s \in erasing => Entries(s, k, Keys) = {}) =>
              \A i \in 1 .. Len(Erased(s, k, Keys)) : Erased(s, k, Keys)[i].sink # NoSink
    BY ErasedFacts
  <1>4. Forgotten(k, s) \in Seq(Sources) /\ \A A : HowMany(Forgotten(k, s), A) = HowMany(sources[k], A \ {s})
    BY ForgottenFacts
  <1>5. sinks' \in [Sources -> Seq(SinkEntry)] /\ sources' \in [Sinks -> Seq(Sources)]
    BY <1>1, <1>2, <1>3, <1>4
  <1>6. \A x \in Sources : IF x = s THEN sinks'[x] = Erased(s, k, Keys) ELSE sinks'[x] = sinks[x]
    BY <1>1, <1>2
  <1>7. \A j \in Sinks : IF j = k THEN sources'[j] = Forgotten(k, s) ELSE sources'[j] = sources[j]
    BY <1>1, <1>2
  <1>8. EntriesRight'
    <2> SUFFICES ASSUME NEW x \in Sources \ soiled', NEW i \in 1 .. Len(sinks'[x])
                 PROVE  sinks'[x][i].sink # NoSink
      BY DEF EntriesRight
    <2>1. x \notin soiled /\ (x = s => ~(s \in erasing /\ Entries(s, k, Keys) # {}))
      BY <1>1
    <2>2. \A l \in 1 .. Len(sinks[x]) : sinks[x][l].sink # NoSink
      BY <2>1 DEF EntriesRight
    <2>3. CASE x = s
      BY <1>3, <1>6, <2>1, <2>2, <2>3
    <2>4. CASE x # s
      BY <1>6, <2>2, <2>4
    <2> QED
      BY <2>3, <2>4
  <1>9. Balanced'
    <2> SUFFICES ASSUME NEW x \in Sources, NEW j \in Sinks, <<x, j>> \notin unbalanced
                 PROVE  /\ HowMany(sinks'[x], EntryOf(j, Keys)) = HowMany(sources'[j], {x})
                        /\ x \in gone \/ j \in gone => HowMany(sinks'[x], EntryOf(j, Keys)) = 0
      BY DEF Balanced
    <2>1. /\ HowMany(sinks[x], EntryOf(j, Keys)) = HowMany(sources[j], {x})
          /\ x \in gone \/ j \in gone => HowMany(sinks[x], EntryOf(j, Keys)) = 0
      BY DEF Balanced
    <2>2. CASE x = s /\ j = k
      <3>1. EntryOf(k, Keys) \ EntryOf(k, Keys) = {} /\ {s} \ {s} = {}
        OBVIOUS
      <3>2. HowMany(sinks[s], {}) = 0 /\ HowMany(sources[k], {}) = 0
        BY <1>2, NoNumber
      <3>3. HowMany(sinks'[x], EntryOf(j, Keys)) = 0
        BY <1>3, <1>6, <2>2, <3>1, <3>2
      <3>4. HowMany(sources'[j], {x}) = 0
        BY <1>4, <1>7, <2>2, <3>1, <3>2
      <3> QED
        BY <3>3, <3>4
    <2>3. CASE x = s /\ j # k
      <3>1. EntryOf(j, Keys) \ EntryOf(k, Keys) = EntryOf(j, Keys)
        BY <2>3 DEF EntryOf
      <3>2. HowMany(sinks'[x], EntryOf(j, Keys)) = HowMany(sinks[x], EntryOf(j, Keys))
        BY <1>3, <1>6, <2>3, <3>1
      <3> QED
        BY <1>7, <2>1, <2>3, <3>2
    <2>4. CASE x # s /\ j = k
      <3>1. {x} \ {s} = {x}
        BY <2>4
      <3>2. HowMany(sources'[j], {x}) = HowMany(sources[j], {x})
        BY <1>4, <1>7, <2>4, <3>1
      <3> QED
        BY <1>6, <2>1, <2>4, <3>2
    <2>5. CASE x # s /\ j # k
      BY <1>6, <1>7, <2>1, <2>5
    <2> QED
      BY <2>2, <2>3, <2>4, <2>5
  <1>10. soiled' \subseteq erasing' /\ erasing' = erasing
    BY <1>1, <1>2
  <1>11. \A x \in erasing : Len(sinks'[x]) = Len(sinks[x])
    BY <1>2, <1>3, <1>6
  <1> QED
    BY <1>5, <1>7, <1>8, <1>9, <1>10, <1>11

LEMMA CutFacts ==
  ASSUME NEW T, NEW s \in Seq(T)
  PROVE  \A p \in 0 .. Len(s) :
           /\ SubSeq(s, 1, p) \in Seq(T) /\ Len(SubSeq(s, 1, p)) = p /\ \A i \in 1 .. p : SubSeq(s, 1, p)[i] = s[i]
           /\ SubSeq(s, p + 1, Len(s)) \in Seq(T) /\ Len(SubSeq(s, p + 1, Len(s))) = Len(s) - p
           /\ \A i \in 1 .. Len(s) - p : SubSeq(s, p + 1, Len(s))[i] = s[p + i]
  <1> TAKE p \in 0 .. Len(s)
  <1>1. Len(s) \in Nat /\ p \in Nat /\ p <= Len(s)
    OBVIOUS
  <1>2. SubSeq(s, 1, p) \in Seq(T) /\ Len(SubSeq(s, 1, p)) = p /\ \A i \in 1 .. p : SubSeq(s, 1, p)[i] = s[i]
    BY <1>1
  <1>3. SubSeq(s, p + 1, Len(s)) \in Seq(T) /\ Len(SubSeq(s, p + 1, Len(s))) = Len(s) - p
        /\ \A i \in 1 .. Len(s) - p : SubSeq(s, p + 1, Len(s))[i] = s[p + i]
    BY <1>1
  <1> QED
    BY <1>2, <1>3

LEMMA InsertedFacts ==
  ASSUME SourceTypes, NEW m \in Seq(SinkEntry), NEW e \in SinkEntry
  PROVE  /\ Inserted(m, e) \in Seq(SinkEntry) /\ Len(Inserted(m, e)) = Len(m) + 1
         /\ Place(m, e.key) \in 1 .. Len(m) + 1 /\ Inserted(m, e)[Place(m, e.key)] = e
         /\ \A i \in 1 .. Len(m) : Inserted(m, e)[IF i < Place(m, e.key) THEN i ELSE i + 1] = m[i]
  <1> DEFINE P == {i \in DOMAIN m : e.key = "type" \/ m[i].key = "all"}
             p == Place(m, e.key)
             q == p - 1
             u == SubSeq(m, 1, q)
             w == SubSeq(m, q + 1, Len(m))
             v == u \o <<e>>
  <1>1. Len(m) \in Nat /\ DOMAIN m = 1 .. Len(m)
    OBVIOUS
  <1>2. p = 1 + Cardinality(P)
    BY DEF Place
  <1>3. P \in SUBSET (1 .. Len(m))
    BY <1>1
  <1> HIDE DEF P
  <1>4. Cardinality(P) \in 0 .. Len(m)
    <2>1. IsFiniteSet(1 .. Len(m)) /\ Cardinality(1 .. Len(m)) = Len(m)
      BY <1>1, FS_Interval
    <2>2. IsFiniteSet(P) /\ Cardinality(P) <= Cardinality(1 .. Len(m))
      BY <1>3, <2>1, FS_Subset
    <2>3. Cardinality(P) \in Nat
      BY <2>2, FS_CardinalityType
    <2> QED
      BY <1>1, <2>1, <2>2, <2>3
  <1> HIDE DEF p
  <1>5. q \in 0 .. Len(m) /\ p = q + 1 /\ p \in 1 .. Len(m) + 1 /\ q \in Nat
    BY <1>1, <1>2, <1>4
  <1>6. Inserted(m, e) = v \o w
    <2>1. Inserted(m, e) = SubSeq(m, 1, p - 1) \o <<e>> \o SubSeq(m, p, Len(m))
      BY DEF Inserted, p
    <2> HIDE DEF q
    <2>2. q = p - 1
      BY DEF q
    <2> QED
      BY <1>5, <2>1, <2>2
  <1> HIDE DEF q, w
  <1>7. u \in Seq(SinkEntry) /\ Len(u) = q /\ \A i \in 1 .. q : u[i] = m[i]
    BY <1>5, CutFacts
  <1>8. w \in Seq(SinkEntry) /\ Len(w) = Len(m) - q /\ \A i \in 1 .. Len(m) - q : w[i] = m[q + i]
    BY <1>5, CutFacts DEF w
  <1> HIDE DEF u
  <1>9. v \in Seq(SinkEntry) /\ Len(v) = p /\ v[p] = e /\ \A i \in 1 .. q : v[i] = m[i]
    BY <1>5, <1>7
  <1> HIDE DEF v
  <1>10. /\ v \o w \in Seq(SinkEntry) /\ Len(v \o w) = Len(v) + Len(w)
         /\ \A i \in 1 .. Len(v) : (v \o w)[i] = v[i]
         /\ \A i \in 1 .. Len(w) : (v \o w)[Len(v) + i] = w[i]
    <2>1. \A x, y \in Seq(SinkEntry) :
           /\ x \o y \in Seq(SinkEntry) /\ Len(x \o y) = Len(x) + Len(y)
           /\ \A i \in 1 .. Len(x) : (x \o y)[i] = x[i]
           /\ \A i \in 1 .. Len(y) : (x \o y)[Len(x) + i] = y[i]
      OBVIOUS
    <2>2. v \in Seq(SinkEntry) /\ w \in Seq(SinkEntry)
      BY <1>8, <1>9
    <2> QED
      BY <2>1, <2>2, Zenon
  <1>11. Len(v \o w) = Len(m) + 1 /\ (v \o w)[p] = e
    BY <1>1, <1>5, <1>8, <1>9, <1>10
  <1>12. ASSUME NEW i \in 1 .. Len(m)
         PROVE  (v \o w)[IF i < p THEN i ELSE i + 1] = m[i]
    <2>1. CASE i < p
      BY <1>1, <1>5, <1>9, <1>10, <2>1
    <2>2. CASE ~(i < p)
      <3> DEFINE k == i - q
      <3>1. k \in 1 .. Len(m) - q /\ i + 1 = p + k /\ q + k = i
        BY <1>1, <1>5, <2>2
      <3> HIDE DEF k
      <3>2. (v \o w)[p + k] = w[k] /\ w[k] = m[q + k]
        BY <1>8, <1>9, <1>10, <3>1
      <3> QED
        BY <2>2, <3>1, <3>2
    <2> QED
      BY <2>1, <2>2
  <1> QED
    BY <1>5, <1>6, <1>10, <1>11, <1>12 DEF p

LEMMA InsertedNumber ==
  ASSUME SourceTypes, NEW m \in Seq(SinkEntry), NEW e \in SinkEntry, NEW A
  PROVE  HowMany(Inserted(m, e), A) = HowMany(m, A) + (IF e \in A THEN 1 ELSE 0)
  <1> DEFINE t == Inserted(m, e)
             p == Place(m, e.key)
  <1>1. /\ t \in Seq(SinkEntry) /\ Len(t) = Len(m) + 1 /\ p \in 1 .. Len(m) + 1 /\ t[p] = e
        /\ \A i \in 1 .. Len(m) : t[IF i < p THEN i ELSE i + 1] = m[i]
    BY InsertedFacts
  <1> HIDE DEF t, p
  <1>2. p \in 1 .. Len(t)
    BY <1>1
  <1>3. HowMany(t, A) = HowMany(m, A) + (IF t[p] \in A THEN 1 ELSE 0)
    BY <1>1, <1>2, NumberWithOneMore
  <1> QED
    BY <1>1, <1>3 DEF t

LEMMA AppendedNumber ==
  ASSUME NEW T, NEW m \in Seq(T), NEW e \in T, NEW A
  PROVE  Append(m, e) \in Seq(T) /\ HowMany(Append(m, e), A) = HowMany(m, A) + (IF e \in A THEN 1 ELSE 0)
  <1> DEFINE t == Append(m, e)
             p == Len(m) + 1
  <1>1. Len(m) \in Nat
    OBVIOUS
  <1>2. t \in Seq(T) /\ Len(t) = p /\ t[p] = e /\ \A i \in 1 .. Len(m) : t[i] = m[i]
    OBVIOUS
  <1> HIDE DEF t
  <1>3. p \in 1 .. Len(t) /\ \A i \in 1 .. Len(m) : i < p
    BY <1>1, <1>2
  <1>4. \A i \in 1 .. Len(m) : t[IF i < p THEN i ELSE i + 1] = m[i]
    BY <1>2, <1>3
  <1>5. HowMany(t, A) = HowMany(m, A) + (IF t[p] \in A THEN 1 ELSE 0)
    BY <1>2, <1>3, <1>4, NumberWithOneMore
  <1> QED
    BY <1>2, <1>5 DEF t

\* One entry more, and the source is in the list once more.
LEMMA ConnectedFacts ==
  ASSUME SourceTypes, EntriesRight, Balanced, NEW s \in Sources, NEW k \in Sinks, NEW key \in Keys,
         s \notin gone, k \notin gone,
         sources' = [sources EXCEPT ![k] = Append(sources[k], s)],
         sinks' = [sinks EXCEPT ![s] = Inserted(sinks[s], [key |-> key, sink |-> k])],
         UNCHANGED <<erasing, soiled, gone, unbalanced>>
  PROVE  /\ sinks' \in [Sources -> Seq(SinkEntry)] /\ sources' \in [Sinks -> Seq(Sources)]
         /\ \A x \in Sources : Len(sinks'[x]) = Len(sinks[x]) + (IF x = s THEN 1 ELSE 0)
         /\ \A j \in Sinks : j # k => sources'[j] = sources[j]
         /\ EntriesRight' /\ Balanced'
  <1> DEFINE e == [key |-> key, sink |-> k]
             r == Inserted(sinks[s], e)
             l == Append(sources[k], s)
             p == Place(sinks[s], e.key)
  <1>1. e \in SinkEntry /\ e.sink = k /\ e.key = key
    BY DEF SinkEntry
  <1>2. sinks \in [Sources -> Seq(SinkEntry)] /\ sources \in [Sinks -> Seq(Sources)]
        /\ sinks[s] \in Seq(SinkEntry) /\ sources[k] \in Seq(Sources)
    BY DEF SourceTypes
  <1>3. sinks' = [sinks EXCEPT ![s] = r] /\ sources' = [sources EXCEPT ![k] = l]
    OBVIOUS
  <1> HIDE DEF e
  <1>4. /\ r \in Seq(SinkEntry) /\ Len(r) = Len(sinks[s]) + 1
        /\ p \in 1 .. Len(sinks[s]) + 1 /\ r[p] = e
        /\ \A i \in 1 .. Len(sinks[s]) : r[IF i < p THEN i ELSE i + 1] = sinks[s][i]
    BY <1>1, <1>2, InsertedFacts
  <1>5. \A A : HowMany(r, A) = HowMany(sinks[s], A) + (IF e \in A THEN 1 ELSE 0)
    BY <1>1, <1>2, InsertedNumber
  <1>6. l \in Seq(Sources) /\ \A A : HowMany(l, A) = HowMany(sources[k], A) + (IF s \in A THEN 1 ELSE 0)
    BY <1>2, AppendedNumber
  <1> HIDE DEF r, l, p
  <1>7. sinks' \in [Sources -> Seq(SinkEntry)] /\ sources' \in [Sinks -> Seq(Sources)]
    BY <1>2, <1>3, <1>4, <1>6
  <1>8. \A x \in Sources : IF x = s THEN sinks'[x] = r ELSE sinks'[x] = sinks[x]
    BY <1>2, <1>3
  <1>9. \A j \in Sinks : IF j = k THEN sources'[j] = l ELSE sources'[j] = sources[j]
    BY <1>2, <1>3
  <1>10. \A x \in Sources : Len(sinks'[x]) = Len(sinks[x]) + (IF x = s THEN 1 ELSE 0)
    <2>1. \A x \in Sources : Len(sinks[x]) \in Nat
      BY <1>2
    <2> TAKE x \in Sources
    <2>2. CASE x = s
      BY <1>4, <1>8, <2>2
    <2>3. CASE x # s
      BY <1>8, <2>1, <2>3
    <2> QED
      BY <2>2, <2>3
  <1>11. EntriesRight'
    <2> SUFFICES ASSUME NEW x \in Sources \ soiled, NEW i \in 1 .. Len(sinks'[x])
                 PROVE  sinks'[x][i].sink # NoSink
      BY DEF EntriesRight
    <2>1. \A o \in 1 .. Len(sinks[x]) : sinks[x][o].sink # NoSink
      BY DEF EntriesRight
    <2>2. CASE x # s
      BY <1>8, <2>1, <2>2
    <2>3. CASE x = s
      <3>1. i \in 1 .. Len(sinks[s]) + 1 /\ sinks'[x] = r
        BY <1>4, <1>8, <2>3
      <3>2. i = p \/ \E o \in 1 .. Len(sinks[s]) : i = IF o < p THEN o ELSE o + 1
        <4>1. Len(sinks[s]) \in Nat /\ p \in Nat /\ i \in Nat
          BY <1>2, <1>4, <3>1
        <4>2. CASE i < p
          BY <1>4, <3>1, <4>1, <4>2
        <4>3. CASE p < i
          <5>1. i - 1 \in 1 .. Len(sinks[s]) /\ ~(i - 1 < p) /\ i = (i - 1) + 1
            BY <1>4, <3>1, <4>1, <4>3
          <5> QED
            BY <5>1
        <4> QED
          BY <4>1, <4>2, <4>3
      <3>3. CASE i = p
        BY <1>1, <1>4, <3>1, <3>3, EventAssumption
      <3>4. CASE \E o \in 1 .. Len(sinks[s]) : i = IF o < p THEN o ELSE o + 1
        BY <1>4, <2>1, <2>3, <3>1, <3>4
      <3> QED
        BY <3>2, <3>3, <3>4
    <2> QED
      BY <2>2, <2>3
  <1>12. Balanced'
    <2> SUFFICES ASSUME NEW x \in Sources, NEW j \in Sinks, <<x, j>> \notin unbalanced
                 PROVE  /\ HowMany(sinks'[x], EntryOf(j, Keys)) = HowMany(sources'[j], {x})
                        /\ x \in gone \/ j \in gone => HowMany(sinks'[x], EntryOf(j, Keys)) = 0
      BY DEF Balanced
    <2>1. /\ HowMany(sinks[x], EntryOf(j, Keys)) = HowMany(sources[j], {x})
          /\ x \in gone \/ j \in gone => HowMany(sinks[x], EntryOf(j, Keys)) = 0
      BY DEF Balanced
    <2>2. e \in EntryOf(j, Keys) <=> j = k
      BY <1>1 DEF EntryOf
    <2>3. HowMany(sinks[x], EntryOf(j, Keys)) \in Nat /\ HowMany(sources[j], {x}) \in Nat
      BY <1>2, NumberFacts
    <2>4. HowMany(sinks'[x], EntryOf(j, Keys)) = HowMany(sinks[x], EntryOf(j, Keys)) + (IF x = s /\ j = k THEN 1 ELSE 0)
      BY <1>5, <1>8, <2>2, <2>3
    <2>5. HowMany(sources'[j], {x}) = HowMany(sources[j], {x}) + (IF x = s /\ j = k THEN 1 ELSE 0)
      <3>1. s \in {x} <=> x = s
        OBVIOUS
      <3>2. CASE j = k
        BY <1>6, <1>9, <2>3, <3>1, <3>2
      <3>3. CASE j # k
        BY <1>9, <2>3, <3>3
      <3> QED
        BY <3>2, <3>3
    <2>6. x \in gone \/ j \in gone => ~(x = s /\ j = k)
      OBVIOUS
    <2> QED
      BY <2>1, <2>3, <2>4, <2>5, <2>6
  <1> QED
    BY <1>7, <1>9, <1>10, <1>11, <1>12

\* The first place of the source goes, when it is in the list.
LEMMA FirstForgottenFacts ==
  ASSUME SourceTypes, NEW s \in Sources, NEW k \in Sinks
  PROVE  /\ FirstForgotten(k, s) \in Seq(Sources)
         /\ \A x \in Sources : x # s => HowMany(FirstForgotten(k, s), {x}) = HowMany(sources[k], {x})
         /\ HowMany(sources[k], {s}) # 0 => HowMany(sources[k], {s}) = HowMany(FirstForgotten(k, s), {s}) + 1
  <1> DEFINE m == sources[k]
             at == {i \in DOMAIN m : m[i] = s}
             f == CHOOSE j \in at : \A l \in at : j <= l
             r == SubSeq(m, 1, f - 1) \o SubSeq(m, f + 1, Len(m))
  <1>1. m \in Seq(Sources) /\ DOMAIN m = 1 .. Len(m) /\ Len(m) \in Nat
    BY MapFacts
  <1>2. FirstForgotten(k, s) = IF at = {} THEN m ELSE r
    BY DEF FirstForgotten
  <1>3. HowMany(m, {s}) = 0 <=> at = {}
    BY <1>1, NumberFacts
  <1>4. CASE at = {}
    BY <1>1, <1>2, <1>3, <1>4
  <1>5. CASE at # {}
    <2>1. at \in SUBSET Nat
      BY <1>1
    <2>2. \E j \in at : \A l \in at : j <= l
      <3> HIDE DEF at
      <3> QED
        BY <1>5, <2>1, FirstPlace
    <2>3. f \in at
      BY <2>2
    <2> HIDE DEF f
    <2>4. f \in 1 .. Len(m) /\ m[f] = s
      BY <1>1, <2>3
    <2>5. f - 1 \in 0 .. Len(m) /\ f \in 0 .. Len(m) /\ f \in Nat
      BY <1>1, <2>4
    <2> DEFINE u == SubSeq(m, 1, f - 1)
               w == SubSeq(m, f + 1, Len(m))
    <2>6. u \in Seq(Sources) /\ Len(u) = f - 1 /\ \A i \in 1 .. f - 1 : u[i] = m[i]
      BY <1>1, <2>5, CutFacts
    <2>7. w \in Seq(Sources) /\ Len(w) = Len(m) - f /\ \A i \in 1 .. Len(m) - f : w[i] = m[f + i]
      BY <1>1, <2>5, CutFacts
    <2>8. r = u \o w
      OBVIOUS
    <2> HIDE DEF u, w, r, at
    <2>9. /\ r \in Seq(Sources) /\ Len(r) = Len(u) + Len(w)
          /\ \A i \in 1 .. Len(u) : r[i] = u[i]
          /\ \A i \in 1 .. Len(w) : r[Len(u) + i] = w[i]
      <3>1. \A x, y \in Seq(Sources) :
              /\ x \o y \in Seq(Sources) /\ Len(x \o y) = Len(x) + Len(y)
              /\ \A i \in 1 .. Len(x) : (x \o y)[i] = x[i]
              /\ \A i \in 1 .. Len(y) : (x \o y)[Len(x) + i] = y[i]
        OBVIOUS
      <3>2. u \in Seq(Sources) /\ w \in Seq(Sources)
        BY <2>6, <2>7
      <3> QED
        BY <2>8, <3>1, <3>2, Zenon
    <2> HIDE DEF m
    <2>10. Len(m) = Len(r) + 1
      BY <1>1, <2>5, <2>6, <2>7, <2>9
    <2>11. ASSUME NEW i \in 1 .. Len(r)
           PROVE  m[IF i < f THEN i ELSE i + 1] = r[i]
      <3>1. CASE i < f
        BY <2>5, <2>6, <2>9, <3>1
      <3>2. CASE ~(i < f)
        <4> DEFINE o == i - (f - 1)
        <4>1. o \in 1 .. Len(m) - f /\ f + o = i + 1 /\ (f - 1) + o = i
          BY <1>1, <2>5, <2>10, <3>2
        <4> HIDE DEF o
        <4>2. r[(f - 1) + o] = w[o] /\ w[o] = m[f + o]
          BY <2>6, <2>7, <2>9, <4>1
        <4> QED
          BY <3>2, <4>1, <4>2
      <3> QED
        BY <3>1, <3>2
    <2>12. \A A : HowMany(m, A) = HowMany(r, A) + (IF m[f] \in A THEN 1 ELSE 0)
      BY <1>1, <2>4, <2>9, <2>10, <2>11, NumberWithOneMore
    <2>13. \A A : HowMany(r, A) \in Nat
      BY <2>9, NumberFacts
    <2>14. ASSUME NEW x \in Sources
           PROVE  HowMany(m, {x}) = HowMany(r, {x}) + (IF x = s THEN 1 ELSE 0)
      <3>1. m[f] \in {x} <=> x = s
        BY <2>4
      <3> QED
        BY <2>12, <3>1
    <2> QED
      BY <1>2, <1>5, <2>9, <2>13, <2>14 DEF m
  <1> QED
    BY <1>4, <1>5

LEMMA UnsubscribedFacts ==
  ASSUME SourceTypes, EntriesRight, Balanced, NEW s \in Sources, NEW k \in Sinks,
         sources' = [sources EXCEPT ![k] = FirstForgotten(k, s)],
         sinks' = [sinks EXCEPT ![s] = Erased(s, k, {"type"})],
         soiled' = IF s \in erasing /\ Entries(s, k, {"type"}) # {} THEN soiled \cup {s} ELSE soiled,
         unbalanced' = IF Cardinality(Entries(s, k, {"type"})) = 1 THEN unbalanced ELSE unbalanced \cup {<<s, k>>},
         UNCHANGED <<erasing, gone>>
  PROVE  /\ sinks' \in [Sources -> Seq(SinkEntry)] /\ sources' \in [Sinks -> Seq(Sources)]
         /\ soiled' \subseteq erasing'
         /\ \A x \in erasing : Len(sinks'[x]) = Len(sinks[x])
         /\ \A j \in Sinks : j # k => sources'[j] = sources[j]
         /\ EntriesRight' /\ Balanced'
  <1> DEFINE r == Erased(s, k, {"type"})
             l == FirstForgotten(k, s)
             B == EntryOf(k, {"type"})
  <1>2. sinks \in [Sources -> Seq(SinkEntry)] /\ sources \in [Sinks -> Seq(Sources)]
        /\ soiled \subseteq erasing /\ erasing \subseteq Sources
        /\ sinks[s] \in Seq(SinkEntry) /\ sources[k] \in Seq(Sources)
    BY DEF SourceTypes
  <1>3. /\ r \in Seq(SinkEntry)
        /\ s \in erasing => Len(r) = Len(sinks[s])
        /\ \A x \in Sinks : \A xs : HowMany(r, EntryOf(x, xs)) = HowMany(sinks[s], EntryOf(x, xs) \ B)
        /\ (\A i \in 1 .. Len(sinks[s]) : sinks[s][i].sink # NoSink) /\ (s \in erasing => Entries(s, k, {"type"}) = {}) =>
              \A i \in 1 .. Len(r) : r[i].sink # NoSink
    BY ErasedFacts
  <1>4. /\ l \in Seq(Sources)
        /\ \A x \in Sources : x # s => HowMany(l, {x}) = HowMany(sources[k], {x})
        /\ HowMany(sources[k], {s}) # 0 => HowMany(sources[k], {s}) = HowMany(l, {s}) + 1
    BY FirstForgottenFacts
  <1>5. Cardinality(Entries(s, k, {"type"})) = HowMany(sinks[s], B)
    BY MapFacts
  <1>0. sources' = [sources EXCEPT ![k] = l] /\ sinks' = [sinks EXCEPT ![s] = r]
    OBVIOUS
  <1> HIDE DEF r, l, B
  <1>6. sinks' \in [Sources -> Seq(SinkEntry)] /\ sources' \in [Sinks -> Seq(Sources)]
    BY <1>0, <1>2, <1>3, <1>4
  <1>7. \A x \in Sources : IF x = s THEN sinks'[x] = r ELSE sinks'[x] = sinks[x]
    BY <1>0, <1>2
  <1>8. \A j \in Sinks : IF j = k THEN sources'[j] = l ELSE sources'[j] = sources[j]
    BY <1>0, <1>2
  <1>9. EntriesRight'
    <2> SUFFICES ASSUME NEW x \in Sources \ soiled', NEW i \in 1 .. Len(sinks'[x])
                 PROVE  sinks'[x][i].sink # NoSink
      BY DEF EntriesRight
    <2>1. x \notin soiled /\ (x = s => ~(s \in erasing /\ Entries(s, k, {"type"}) # {}))
      OBVIOUS
    <2>2. \A o \in 1 .. Len(sinks[x]) : sinks[x][o].sink # NoSink
      BY <2>1 DEF EntriesRight
    <2>3. CASE x = s
      BY <1>3, <1>7, <2>1, <2>2, <2>3
    <2>4. CASE x # s
      BY <1>7, <2>2, <2>4
    <2> QED
      BY <2>3, <2>4
  <1>10. Balanced'
    <2> SUFFICES ASSUME NEW x \in Sources, NEW j \in Sinks, <<x, j>> \notin unbalanced'
                 PROVE  /\ HowMany(sinks'[x], EntryOf(j, Keys)) = HowMany(sources'[j], {x})
                        /\ x \in gone \/ j \in gone => HowMany(sinks'[x], EntryOf(j, Keys)) = 0
      BY DEF Balanced
    <2>1. <<x, j>> \notin unbalanced /\ (x = s /\ j = k => HowMany(sinks[s], B) = 1)
      BY <1>5
    <2>2. /\ HowMany(sinks[x], EntryOf(j, Keys)) = HowMany(sources[j], {x})
          /\ x \in gone \/ j \in gone => HowMany(sinks[x], EntryOf(j, Keys)) = 0
      BY <2>1 DEF Balanced
    <2>3. CASE x = s /\ j = k
      <3>1. EntryOf(k, Keys) \cap B = B
        BY DEF EntryOf, B, Keys
      <3>2. HowMany(sinks[s], EntryOf(k, Keys)) = HowMany(sinks[s], EntryOf(k, Keys) \ B) + HowMany(sinks[s], B)
        <4> DEFINE E == EntryOf(k, Keys)
        <4> HIDE DEF E
        <4>1. \A m \in Seq(SinkEntry) : \A P, Q : HowMany(m, P) = HowMany(m, P \ Q) + HowMany(m, P \cap Q)
          BY NumberOfParts
        <4>2. sinks[s] \in Seq(SinkEntry)
          BY <1>2
        <4>3. HowMany(sinks[s], E) = HowMany(sinks[s], E \ B) + HowMany(sinks[s], E \cap B)
          BY <4>1, <4>2, Zenon
        <4> QED
          BY <3>1, <4>3 DEF E
      <3>3. HowMany(sinks[s], EntryOf(k, Keys) \ B) \in Nat
        BY <1>2, NumberFacts
      <3>4. HowMany(sinks'[x], EntryOf(j, Keys)) = HowMany(sinks[s], EntryOf(k, Keys) \ B)
        BY <1>3, <1>7, <2>3
      <3>5. HowMany(sinks[s], EntryOf(k, Keys)) = HowMany(sinks'[x], EntryOf(j, Keys)) + 1
            /\ HowMany(sinks'[x], EntryOf(j, Keys)) \in Nat
        BY <2>1, <2>3, <3>2, <3>3, <3>4
      <3>6. HowMany(sinks[s], EntryOf(k, Keys)) # 0
        BY <3>5
      <3>7. HowMany(sources[k], {s}) = HowMany(l, {s}) + 1 /\ HowMany(l, {s}) \in Nat
        <4>1. HowMany(l, {s}) \in Nat
          BY <1>4, NumberFacts
        <4> QED
          BY <1>4, <2>2, <2>3, <3>6, <4>1
      <3>8. sources'[j] = l
        BY <1>8, <2>3
      <3>9. HowMany(sinks'[x], EntryOf(j, Keys)) = HowMany(l, {s})
        BY <2>2, <2>3, <3>5, <3>7
      <3> QED
        BY <2>2, <2>3, <3>6, <3>8, <3>9
    <2>4. CASE x = s /\ j # k
      <3>1. EntryOf(j, Keys) \ B = EntryOf(j, Keys)
        BY <2>4 DEF EntryOf, B
      <3>2. HowMany(sinks'[x], EntryOf(j, Keys)) = HowMany(sinks[x], EntryOf(j, Keys))
        BY <1>3, <1>7, <2>4, <3>1
      <3> QED
        BY <1>8, <2>2, <2>4, <3>2
    <2>5. CASE x # s /\ j = k
      BY <1>4, <1>7, <1>8, <2>2, <2>5
    <2>6. CASE x # s /\ j # k
      BY <1>7, <1>8, <2>2, <2>6
    <2> QED
      BY <2>3, <2>4, <2>5, <2>6
  <1>11. soiled' \subseteq erasing'
    BY <1>2
  <1>12. \A x \in erasing : Len(sinks'[x]) = Len(sinks[x])
    BY <1>2, <1>3, <1>7
  <1> QED
    BY <1>6, <1>8, <1>9, <1>10, <1>11, <1>12

\* The emptied entries go, which belong to no sink.
LEMMA SweptFacts ==
  ASSUME SourceTypes, EntriesRight, Balanced, NEW s \in Sources,
         sinks' = [sinks EXCEPT ![s] = Swept(s)], erasing' = erasing \ {s}, soiled' = soiled \ {s},
         UNCHANGED <<sources, gone, unbalanced>>
  PROVE  /\ sinks' \in [Sources -> Seq(SinkEntry)] /\ soiled' \subseteq erasing'
         /\ \A x \in Sources : x # s => sinks'[x] = sinks[x]
         /\ EntriesRight' /\ Balanced'
  <1> DEFINE m == sinks[s]
             r == Swept(s)
             B == EntryOf(NoSink, Keys)
  <1>1. sinks \in [Sources -> Seq(SinkEntry)] /\ soiled \subseteq erasing /\ erasing \subseteq Sources
    BY DEF SourceTypes
  <1>2. m \in Seq(SinkEntry) /\ DOMAIN m = 1 .. Len(m) /\ Len(m) \in Nat /\ \A i \in 1 .. Len(m) : m[i] \in SinkEntry
    BY <1>1
  <1>3. \A i \in 1 .. Len(m) : m[i].sink = NoSink <=> m[i] \in B
    BY <1>2 DEF EntryOf, SinkEntry
  <1>4. sinks' = [sinks EXCEPT ![s] = r]
    OBVIOUS
  <1>5. r \in Seq(SinkEntry) /\ (\A i \in 1 .. Len(r) : r[i].sink # NoSink)
        /\ \A j \in Sinks : HowMany(r, EntryOf(j, Keys)) = HowMany(m, EntryOf(j, Keys))
    <2>1. CASE s \in soiled
      <3> DEFINE places == Without(m, B)
      <3>1. r = Kept(m, {i \in DOMAIN m : m[i].sink # NoSink})
        BY <2>1 DEF Swept
      <3>2. {i \in DOMAIN m : m[i].sink # NoSink} = places
        <4> HIDE DEF m, B
        <4> QED
          BY <1>2, <1>3 DEF Without
      <3>3. r = Kept(m, places) /\ places \in SUBSET (1 .. Len(m))
        BY <3>1, <3>2 DEF Without
      <3> HIDE DEF m, r, B
      <3>4. \A A : HowMany(r, A) = HowMany(m, A \ B)
        BY <1>2, <3>3, NumberKept
      <3>5. \A j \in Sinks : EntryOf(j, Keys) \ B = EntryOf(j, Keys)
        BY EventAssumption DEF EntryOf, B
      <3> HIDE DEF places
      <3>6. r \in Seq(SinkEntry) /\ \A i \in 1 .. Len(r) : \E j \in places : r[i] = m[j]
        <4>1. \A x \in Seq(SinkEntry) : \A ps \in SUBSET (1 .. Len(x)) :
                Kept(x, ps) \in Seq(SinkEntry) /\ \A i \in 1 .. Len(Kept(x, ps)) : \E j \in ps : Kept(x, ps)[i] = x[j]
          BY KeptElements
        <4> QED
          BY <1>2, <3>3, <4>1, Zenon
      <3>7. \A j \in places : m[j].sink # NoSink
        BY <1>3 DEF places, Without
      <3> QED
        BY <3>4, <3>5, <3>6, <3>7
    <2>2. CASE s \notin soiled
      <3>1. r = m
        BY <2>2 DEF Swept
      <3>2. \A i \in 1 .. Len(m) : m[i].sink # NoSink
        BY <2>2 DEF EntriesRight
      <3> HIDE DEF m, r
      <3> QED
        BY <1>2, <3>1, <3>2
    <2> QED
      BY <2>1, <2>2
  <1> HIDE DEF r, B
  <1>6. \A x \in Sources : IF x = s THEN sinks'[x] = r ELSE sinks'[x] = sinks[x]
    BY <1>1, <1>4
  <1>7. sinks' \in [Sources -> Seq(SinkEntry)]
    BY <1>1, <1>4, <1>5
  <1>8. EntriesRight'
    <2> SUFFICES ASSUME NEW x \in Sources, x = s \/ x \notin soiled, NEW i \in 1 .. Len(sinks'[x])
                 PROVE  sinks'[x][i].sink # NoSink
      BY DEF EntriesRight
    <2>1. CASE x = s
      BY <1>5, <1>6, <2>1
    <2>2. CASE x # s
      BY <1>6, <2>2 DEF EntriesRight
    <2> QED
      BY <2>1, <2>2
  <1>9. \A x \in Sources, j \in Sinks : HowMany(sinks'[x], EntryOf(j, Keys)) = HowMany(sinks[x], EntryOf(j, Keys))
    BY <1>5, <1>6
  <1>10. Balanced'
    BY <1>9 DEF Balanced
  <1>11. soiled' \subseteq erasing'
    BY <1>1
  <1> QED
    BY <1>6, <1>7, <1>8, <1>10, <1>11

-----------------------------------------------------------------------------
(* The steps.                                                              *)

\* A call changes.
LEMMA ChangeKeeps ==
  ASSUME SourcesInv, NEW t \in EventThreads, NEW d, Changed(t, d), Proper(d),
         sinks' \in [Sources -> Seq(SinkEntry)], sources' \in [Sinks -> Seq(Sources)],
         soiled' \subseteq erasing', erasing' \subseteq Sources, UNCHANGED gone,
         \A x \in erasing' : Len(sinks[x]) <= Len(sinks'[x]),
         \/ Held(d) = Held(Call(t)) /\ UNCHANGED <<owner, locks>>
         \/ Relock(t, Held(d) \ Held(Call(t)), Held(Call(t)) \ Held(d)),
         ErasingRight', EntriesRight', Balanced',
         d.op = "~sink" /\ d.pc = "try" => sources'[d.on] # <<>>,
         d.op = "send" /\ d.pc = "handler" => d.at <= Len(sinks'[d.on]),
         \/ UNCHANGED sources
         \/ \E k \in Sinks : Free(t, k) /\ \A j \in Sinks : j # k => sources'[j] = sources[j]
  PROVE  SourcesInv'
  <1>1. SourceTypes /\ CallsRight /\ TriesRight /\ LocksRight /\ ErasingRight /\ EntriesRight /\ WalksInMap
        /\ UsersRight /\ Balanced
    BY DEF SourcesInv
  <1>2. SourceTypes'
    BY <1>1 DEF SourceTypes, Changed
  <1>3. CallsRight'
    BY <1>1, ChangedCalls
  <1>4. UsersRight'
    BY <1>1, ChangedUsers
  <1>5. LocksRight'
    <2>1. CASE Held(d) = Held(Call(t)) /\ UNCHANGED <<owner, locks>>
      BY <1>1, <2>1, UnchangedLocks
    <2>2. CASE Relock(t, Held(d) \ Held(Call(t)), Held(Call(t)) \ Held(d))
      BY <1>1, <1>2, <2>2, ChangedLocks
    <2> QED
      BY <2>1, <2>2
  <1>6. (\A u \in EventThreads : u # t => calls'[u] = calls[u]) /\ Len(calls'[t]) = Len(calls[t])
        /\ calls'[t][Len(calls[t])] = d
        /\ \A i \in 1 .. Len(calls[t]) : i # Len(calls[t]) => calls'[t][i] = calls[t][i]
    BY DEF Changed
  <1>7. Len(calls[t]) \in Nat /\ \A i \in 1 .. Len(calls[t]) : i # Len(calls[t]) => i < Len(calls[t])
    <2>1. Len(calls[t]) \in Nat
      BY <1>1 DEF SourceTypes
    <2> QED
      BY <2>1
  <1>8. TriesRight'
    <2>1. \A i \in 1 .. Len(calls'[t]) : calls'[t][i].op = "~sink" /\ calls'[t][i].pc = "try" =>
             sources'[calls'[t][i].on] # <<>>
      <3> SUFFICES ASSUME NEW i \in 1 .. Len(calls'[t]), calls'[t][i].op = "~sink", calls'[t][i].pc = "try"
                   PROVE  sources'[calls'[t][i].on] # <<>>
        OBVIOUS
      <3>1. CASE i = Len(calls[t])
        BY <1>6, <3>1
      <3>2. CASE i # Len(calls[t])
        BY <1>1, <1>6, <1>7, <3>2 DEF CallsRight
      <3> QED
        BY <3>1, <3>2
    <2> QED
      BY <1>1, <1>3, <1>6, <2>1, TriesKept
  <1>9. WalksInMap'
    <2>1. \A i \in 1 .. Len(calls'[t]) : calls'[t][i].op = "send" /\ calls'[t][i].pc = "handler" =>
            \/ calls'[t][i].at <= Len(sinks'[calls'[t][i].on])
            \/ i \in 1 .. Len(calls[t]) /\ calls'[t][i] = calls[t][i]
      <3> TAKE i \in 1 .. Len(calls'[t])
      <3>1. CASE i = Len(calls[t])
        BY <1>6, <3>1
      <3>2. CASE i # Len(calls[t])
        BY <1>6, <3>2
      <3> QED
        BY <3>1, <3>2
    <2> QED
      BY <1>1, <1>2, <1>3, <1>6, <2>1, WalksKept
  <1> QED
    BY <1>2, <1>3, <1>4, <1>5, <1>8, <1>9 DEF SourcesInv

\* A call returns.
LEMMA ReturnKeeps ==
  ASSUME SourcesInv, NEW t \in EventThreads, CameBack(t),
         sinks' \in [Sources -> Seq(SinkEntry)], sources' \in [Sinks -> Seq(Sources)],
         soiled' \subseteq erasing', erasing' \subseteq Sources,
         \/ UNCHANGED gone
         \/ gone' = gone \cup {Call(t).on} /\ Call(t).op \in {"~source", "~sink"},
         \A x \in erasing' : Len(sinks[x]) <= Len(sinks'[x]),
         Relock(t, {}, Held(Call(t))),
         ErasingRight', EntriesRight', Balanced',
         \A i \in 1 .. Len(calls'[t]) : \/ calls'[t][i] = calls[t][i]
                                        \/ calls'[t][i].at <= Len(sinks'[calls'[t][i].on]),
         \/ UNCHANGED sources
         \/ \E k \in Sinks : Free(t, k) /\ \A j \in Sinks : j # k => sources'[j] = sources[j]
  PROVE  SourcesInv'
  <1>1. SourceTypes /\ CallsRight /\ TriesRight /\ LocksRight /\ ErasingRight /\ EntriesRight /\ WalksInMap
        /\ UsersRight /\ Balanced
    BY DEF SourcesInv
  <1>0. calls[t] # <<>> /\ Call(t) \in CallRecord
    BY <1>1, CallFacts DEF CameBack
  <1>2. SourceTypes'
    <2>1. Call(t).on \in Sources \cup Sinks
      BY <1>0 DEF CallRecord
    <2> QED
      BY <1>1, <2>1 DEF SourceTypes, CameBack
  <1>3. CallsRight'
    BY <1>1, ReturnedCalls
  <1>4. UsersRight'
    BY <1>1, ReturnedUsers
  <1>5. LocksRight'
    BY <1>1, <1>2, ReturnedLocks
  <1>6. (\A u \in EventThreads : u # t => calls'[u] = calls[u]) /\ Len(calls'[t]) = Len(calls[t]) - 1
        /\ \A i \in 1 .. Len(calls[t]) - 1 : calls'[t][i].op = calls[t][i].op
    BY DEF CameBack
  <1>7. Len(calls[t]) \in Nat /\ \A i \in 1 .. Len(calls[t]) - 1 : i < Len(calls[t]) /\ i \in 1 .. Len(calls[t])
    <2>1. Len(calls[t]) \in Nat
      BY <1>1 DEF SourceTypes
    <2> QED
      BY <2>1
  <1>8. TriesRight'
    <2>1. \A i \in 1 .. Len(calls'[t]) : calls'[t][i].op = "~sink" /\ calls'[t][i].pc = "try" =>
             sources'[calls'[t][i].on] # <<>>
      BY <1>1, <1>6, <1>7 DEF CallsRight
    <2> QED
      BY <1>1, <1>3, <1>6, <2>1, TriesKept
  <1>9. WalksInMap'
    <2>1. \A i \in 1 .. Len(calls'[t]) : calls'[t][i].op = "send" /\ calls'[t][i].pc = "handler" =>
            \/ calls'[t][i].at <= Len(sinks'[calls'[t][i].on])
            \/ i \in 1 .. Len(calls[t]) /\ calls'[t][i] = calls[t][i]
      BY <1>6, <1>7
    <2> QED
      BY <1>1, <1>2, <1>3, <1>6, <2>1, WalksKept
  <1> QED
    BY <1>2, <1>3, <1>4, <1>5, <1>8, <1>9 DEF SourcesInv

\* The step of a call that leaves the maps and the lists alone.
LEMMA MapsKept ==
  ASSUME SourcesInv, UNCHANGED <<registered, gone, unbalanced>>
  PROVE  /\ sinks' \in [Sources -> Seq(SinkEntry)] /\ sources' \in [Sinks -> Seq(Sources)]
         /\ soiled' \subseteq erasing' /\ erasing' \subseteq Sources /\ erasing' = erasing
         /\ sinks' = sinks /\ sources' = sources /\ gone' = gone
         /\ EntriesRight' /\ Balanced'
         /\ \A x \in Sources : Len(sinks[x]) \in Nat /\ Len(sinks[x]) <= Len(sinks'[x])
  <1>1. SourceTypes /\ EntriesRight /\ Balanced
    BY DEF SourcesInv
  <1>2. sinks' = sinks /\ sources' = sources /\ gone' = gone /\ soiled' = soiled /\ erasing' = erasing
        /\ unbalanced' = unbalanced
    BY DEF registered
  <1>3. \A x \in Sources : Len(sinks[x]) \in Nat /\ Len(sinks[x]) <= Len(sinks'[x])
    <2>1. \A x \in Sources : Len(sinks[x]) \in Nat
      BY <1>1 DEF SourceTypes
    <2> QED
      BY <1>2, <2>1
  <1>4. EntriesRight'
    BY <1>1, <1>2 DEF EntriesRight
  <1>5. Balanced'
    BY <1>1, <1>2 DEF Balanced
  <1> QED
    BY <1>1, <1>2, <1>3, <1>4, <1>5 DEF SourceTypes

LEMMA CallMoves ==
  ASSUME SourcesInv, NEW t \in EventThreads, NEW d, Changed(t, d), Proper(d),
         UNCHANGED <<registered, gone, unbalanced>>,
         \/ Held(d) = Held(Call(t)) /\ UNCHANGED <<owner, locks>>
         \/ Relock(t, Held(d) \ Held(Call(t)), Held(Call(t)) \ Held(d)),
         d.op = "send" => (d.pc = "start" <=> Call(t).pc = "start"),
         d.op = "~sink" /\ d.pc = "try" => sources[d.on] # <<>>,
         d.op = "send" /\ d.pc = "handler" => d.at <= Len(sinks[d.on])
  PROVE  SourcesInv'
  <1>1. /\ sinks' \in [Sources -> Seq(SinkEntry)] /\ sources' \in [Sinks -> Seq(Sources)]
        /\ soiled' \subseteq erasing' /\ erasing' \subseteq Sources /\ erasing' = erasing
        /\ sinks' = sinks /\ sources' = sources /\ gone' = gone
        /\ EntriesRight' /\ Balanced'
        /\ \A x \in Sources : Len(sinks[x]) \in Nat /\ Len(sinks[x]) <= Len(sinks'[x])
    BY MapsKept
  <1>2. SourceTypes /\ ErasingRight
    BY DEF SourcesInv
  <1>3. ErasingRight'
    BY <1>1, <1>2, ChangedErasing
  <1>4. \A x \in erasing' : Len(sinks[x]) <= Len(sinks'[x])
    BY <1>1
  <1>5. d.op = "~sink" /\ d.pc = "try" => sources'[d.on] # <<>>
    BY <1>1
  <1>6. d.op = "send" /\ d.pc = "handler" => d.at <= Len(sinks'[d.on])
    BY <1>1
  <1> QED
    BY <1>1, <1>3, <1>4, <1>5, <1>6, ChangeKeeps

\* The innermost call of a thread.
LEMMA InFacts ==
  ASSUME SourcesInv, NEW t \in EventThreads, NEW op, NEW pc, In(t, op, pc)
  PROVE  /\ calls[t] # <<>> /\ Call(t) \in CallRecord /\ Proper(Call(t)) /\ Call(t).op = op /\ Call(t).pc = pc
         /\ Call(t).at \in Nat
         /\ op \in Plain => Call(t).on \in Sources /\ Call(t).with \in Sinks
         /\ op \in {"send", "~source"} => Call(t).on \in Sources
         /\ op = "~sink" => Call(t).on \in Sinks
         /\ pc = "start" => Held(Call(t)) = {}
         /\ pc # "start" /\ op \in Plain \cup {"send"} => Held(Call(t)) = {Call(t).on}
         /\ op = "~source" /\ pc = "loop" => Held(Call(t)) = {dmx}
         /\ op = "~source" /\ pc = "first" => Held(Call(t)) = {dmx, Call(t).on}
         /\ op = "~sink" /\ pc = "first" => Held(Call(t)) = {Call(t).on}
         /\ op = "~sink" /\ pc = "try" => Held(Call(t)) = {dmx, Call(t).on}
  <1>1. calls[t] # <<>> /\ Call(t).op = op /\ Call(t).pc = pc
    BY DEF In
  <1>2. Call(t) \in CallRecord /\ Proper(Call(t))
    BY <1>1, CallFacts DEF SourcesInv
  <1>3. Call(t).at \in Nat
    BY <1>2 DEF CallRecord
  <1>4. /\ op \in Plain => Call(t).on \in Sources /\ Call(t).with \in Sinks
        /\ op \in {"send", "~source"} => Call(t).on \in Sources
        /\ op = "~sink" => Call(t).on \in Sinks
    BY <1>1, <1>2 DEF Proper
  <1> HIDE DEF Call
  <1>5. /\ pc = "start" => Held(Call(t)) = {}
        /\ pc # "start" /\ op \in Plain \cup {"send"} => Held(Call(t)) = {Call(t).on}
        /\ op = "~source" /\ pc = "loop" => Held(Call(t)) = {dmx}
        /\ op = "~source" /\ pc = "first" => Held(Call(t)) = {dmx, Call(t).on}
        /\ op = "~sink" /\ pc = "first" => Held(Call(t)) = {Call(t).on}
        /\ op = "~sink" /\ pc = "try" => Held(Call(t)) = {dmx, Call(t).on}
    BY <1>1, <1>2, HeldFacts
  <1> QED
    BY <1>1, <1>2, <1>3, <1>4, <1>5

\* The innermost call with another place in its code.
LEMMA MovedFacts ==
  ASSUME SourcesInv, NEW t \in EventThreads, calls[t] # <<>>,
         NEW pc \in {"start", "locked", "loop", "handler", "first", "try"}, GoTo(t, pc),
         Call(t).op \in Plain => pc \in {"start", "locked"},
         Call(t).op = "send" => pc \in {"start", "loop", "handler"},
         Call(t).op = "~source" => pc \in {"start", "loop", "first"},
         Call(t).op = "~sink" => pc \in {"start", "first", "try"}
  PROVE  \E d : /\ Changed(t, d) /\ Proper(d) /\ d.pc = pc /\ d.at = Call(t).at
                /\ d.op = Call(t).op /\ d.on = Call(t).on /\ d.with = Call(t).with
                /\ pc = "start" => Held(d) = {}
                /\ pc # "start" /\ d.op \in Plain \cup {"send"} => Held(d) = {d.on}
                /\ d.op = "~source" /\ pc = "loop" => Held(d) = {dmx}
                /\ d.op = "~source" /\ pc = "first" => Held(d) = {dmx, d.on}
                /\ d.op = "~sink" /\ pc = "first" => Held(d) = {d.on}
                /\ d.op = "~sink" /\ pc = "try" => Held(d) = {dmx, d.on}
  <1>1. SourceTypes /\ CallsRight
    BY DEF SourcesInv
  <1>2. Call(t) \in CallRecord /\ Proper(Call(t))
    BY <1>1, CallFacts
  <1> DEFINE d == [Call(t) EXCEPT !.pc = pc]
  <1>3. Changed(t, d)
    BY <1>1, GoToFacts
  <1>4. d.pc = pc /\ d.at = Call(t).at /\ d.op = Call(t).op /\ d.on = Call(t).on /\ d.with = Call(t).with
    BY <1>2 DEF CallRecord
  <1> HIDE DEF d
  <1>5. Proper(d)
    BY <1>2, <1>4 DEF Proper
  <1>6. d \in CallRecord
    BY <1>3 DEF Changed
  <1>7. /\ pc = "start" => Held(d) = {}
        /\ pc # "start" /\ d.op \in Plain \cup {"send"} => Held(d) = {d.on}
        /\ d.op = "~source" /\ pc = "loop" => Held(d) = {dmx}
        /\ d.op = "~source" /\ pc = "first" => Held(d) = {dmx, d.on}
        /\ d.op = "~sink" /\ pc = "first" => Held(d) = {d.on}
        /\ d.op = "~sink" /\ pc = "try" => Held(d) = {dmx, d.on}
    BY <1>4, <1>5, <1>6, HeldFacts
  <1> QED
    BY <1>3, <1>4, <1>5, <1>7

LEMMA KeepLockSource ==
  ASSUME SourcesInv, NEW t \in EventThreads, LockSource(t)
  PROVE  SourcesInv'
  <1>1. PICK op \in {"connect", "disconnect", "unsubscribe"} : In(t, op, "start")
    BY DEF LockSource
  <1>2. GoTo(t, "locked") /\ Relock(t, {Call(t).on}, {}) /\ UNCHANGED <<registered, gone, unbalanced>>
    BY DEF LockSource
  <1>3. op \in Plain
    BY DEF Plain
  <1>4. calls[t] # <<>> /\ Call(t).op = op /\ Held(Call(t)) = {}
    BY <1>1, InFacts
  <1>5. PICK d : /\ Changed(t, d) /\ Proper(d) /\ d.pc = "locked" /\ d.op = op /\ d.on = Call(t).on
                 /\ Held(d) = {d.on}
    BY <1>2, <1>3, <1>4, MovedFacts DEF Plain
  <1>6. Held(d) \ Held(Call(t)) = {Call(t).on} /\ Held(Call(t)) \ Held(d) = {}
    BY <1>4, <1>5
  <1>7. d.op # "send" /\ d.op # "~sink"
    BY <1>5
  <1> QED
    BY <1>2, <1>5, <1>6, <1>7, CallMoves

LEMMA KeepLockDestructors ==
  ASSUME SourcesInv, NEW t \in EventThreads, LockDestructors(t)
  PROVE  SourcesInv'
  <1>1. In(t, "~source", "start") /\ GoTo(t, "loop") /\ Relock(t, {dmx}, {}) /\ UNCHANGED <<registered, gone, unbalanced>>
    BY DEF LockDestructors
  <1>2. calls[t] # <<>> /\ Call(t).op = "~source" /\ Held(Call(t)) = {}
    BY <1>1, InFacts
  <1>3. PICK d : /\ Changed(t, d) /\ Proper(d) /\ d.pc = "loop" /\ d.op = "~source" /\ Held(d) = {dmx}
    BY <1>1, <1>2, MovedFacts DEF Plain
  <1>4. Held(d) \ Held(Call(t)) = {dmx} /\ Held(Call(t)) \ Held(d) = {}
    BY <1>2, <1>3
  <1> QED
    BY <1>1, <1>3, <1>4, CallMoves

\* dmx is no source and no sink.
LEMMA DestructorsApart ==
  \A o \in Sources \cup Sinks : o # dmx /\ {dmx, o} \ {dmx} = {o} /\ {dmx} \ {dmx, o} = {}
                                /\ {dmx, o} \ {o} = {dmx} /\ {o} \ {dmx, o} = {}
  BY EventAssumption

LEMMA KeepDestroyLocks ==
  ASSUME SourcesInv, NEW t \in EventThreads, DestroyLocks(t)
  PROVE  SourcesInv'
  <1>1. In(t, "~source", "loop") /\ GoTo(t, "first") /\ Relock(t, {Call(t).on}, {})
        /\ UNCHANGED <<registered, gone, unbalanced>>
    BY DEF DestroyLocks
  <1>2. calls[t] # <<>> /\ Call(t).op = "~source" /\ Held(Call(t)) = {dmx} /\ Call(t).on \in Sources
    BY <1>1, InFacts
  <1>3. PICK d : /\ Changed(t, d) /\ Proper(d) /\ d.pc = "first" /\ d.op = "~source" /\ d.on = Call(t).on
                 /\ Held(d) = {dmx, d.on}
    BY <1>1, <1>2, MovedFacts DEF Plain
  <1>4. Held(d) \ Held(Call(t)) = {Call(t).on} /\ Held(Call(t)) \ Held(d) = {}
    BY <1>2, <1>3, DestructorsApart
  <1> QED
    BY <1>1, <1>3, <1>4, CallMoves

LEMMA KeepSinkLocks ==
  ASSUME SourcesInv, NEW t \in EventThreads, SinkLocks(t)
  PROVE  SourcesInv'
  <1>1. In(t, "~sink", "start") /\ GoTo(t, "first") /\ Relock(t, {Call(t).on}, {})
        /\ UNCHANGED <<registered, gone, unbalanced>>
    BY DEF SinkLocks
  <1>2. calls[t] # <<>> /\ Call(t).op = "~sink" /\ Held(Call(t)) = {}
    BY <1>1, InFacts
  <1>3. PICK d : /\ Changed(t, d) /\ Proper(d) /\ d.pc = "first" /\ d.op = "~sink" /\ d.on = Call(t).on
                 /\ Held(d) = {d.on}
    BY <1>1, <1>2, MovedFacts DEF Plain
  <1>4. Held(d) \ Held(Call(t)) = {Call(t).on} /\ Held(Call(t)) \ Held(d) = {}
    BY <1>2, <1>3
  <1> QED
    BY <1>1, <1>3, <1>4, CallMoves

LEMMA KeepSinkYields ==
  ASSUME SourcesInv, NEW t \in EventThreads, SinkYields(t)
  PROVE  SourcesInv'
  <1>1. In(t, "~sink", "first") /\ GoTo(t, "start") /\ Relock(t, {}, {Call(t).on})
        /\ UNCHANGED <<registered, gone, unbalanced>>
    BY DEF SinkYields
  <1>2. calls[t] # <<>> /\ Call(t).op = "~sink" /\ Held(Call(t)) = {Call(t).on}
    BY <1>1, InFacts
  <1>3. PICK d : Changed(t, d) /\ Proper(d) /\ d.pc = "start" /\ d.op = "~sink" /\ d.on = Call(t).on /\ Held(d) = {}
    BY <1>1, <1>2, MovedFacts DEF Plain
  <1>4. Held(d) \ Held(Call(t)) = {} /\ Held(Call(t)) \ Held(d) = {Call(t).on}
    BY <1>2, <1>3
  <1> QED
    BY <1>1, <1>3, <1>4, CallMoves

LEMMA KeepSinkTries ==
  ASSUME SourcesInv, NEW t \in EventThreads, SinkTries(t)
  PROVE  SourcesInv'
  <1>1. In(t, "~sink", "first") /\ GoTo(t, "try") /\ Relock(t, {dmx}, {}) /\ sources[Call(t).on] # <<>>
        /\ UNCHANGED <<registered, gone, unbalanced>>
    BY DEF SinkTries
  <1>2. calls[t] # <<>> /\ Call(t).op = "~sink" /\ Held(Call(t)) = {Call(t).on} /\ Call(t).on \in Sinks
    BY <1>1, InFacts
  <1>3. PICK d : /\ Changed(t, d) /\ Proper(d) /\ d.pc = "try" /\ d.op = "~sink" /\ d.on = Call(t).on
                 /\ Held(d) = {dmx, d.on}
    BY <1>1, <1>2, MovedFacts DEF Plain
  <1>4. Held(d) \ Held(Call(t)) = {dmx} /\ Held(Call(t)) \ Held(d) = {}
    BY <1>2, <1>3, DestructorsApart
  <1> QED
    BY <1>1, <1>3, <1>4, CallMoves

LEMMA KeepCommitEvent ==
  ASSUME SourcesInv, NEW t \in EventThreads, CommitEvent(t)
  PROVE  SourcesInv'
  <1>1. In(t, "send", "loop") /\ GoTo(t, "handler") /\ Call(t).at <= Len(sinks[Call(t).on])
        /\ UNCHANGED <<registered, owner, locks, gone, unbalanced>>
    BY DEF CommitEvent
  <1>2. calls[t] # <<>> /\ Call(t).op = "send" /\ Held(Call(t)) = {Call(t).on} /\ Call(t).pc = "loop"
    BY <1>1, InFacts
  <1>3. PICK d : /\ Changed(t, d) /\ Proper(d) /\ d.pc = "handler" /\ d.op = "send" /\ d.on = Call(t).on
                 /\ d.at = Call(t).at /\ Held(d) = {d.on}
    BY <1>1, <1>2, MovedFacts DEF Plain
  <1> QED
    BY <1>1, <1>2, <1>3, CallMoves

LEMMA WalkAtFacts ==
  ASSUME SourcesInv, NEW t \in EventThreads, calls[t] # <<>>, Call(t).op = "send", NEW i \in Nat, WalkAt(t, i)
  PROVE  \E d : /\ Changed(t, d) /\ Proper(d) /\ d.pc = "loop" /\ d.at = i /\ d.op = "send" /\ d.on = Call(t).on
                /\ Held(d) = {d.on}
  <1>1. Call(t) \in CallRecord /\ Proper(Call(t))
    BY CallFacts DEF SourcesInv
  <1> DEFINE d == [Call(t) EXCEPT !.pc = "loop", !.at = i]
  <1>2. calls' = [calls EXCEPT ![t] = [calls[t] EXCEPT ![Len(calls[t])] = d]]
    BY DEF WalkAt
  <1>3. /\ d \in CallRecord /\ d.op = Call(t).op /\ d.on = Call(t).on /\ d.with = Call(t).with
        /\ d.pc = "loop" /\ d.at = i
    <2>1. \A c \in CallRecord :
            LET e == [c EXCEPT !.pc = "loop", !.at = i]
            IN e \in CallRecord /\ e.op = c.op /\ e.on = c.on /\ e.with = c.with /\ e.pc = "loop" /\ e.at = i
      BY DEF CallRecord
    <2> QED
      BY <1>1, <2>1
  <1> HIDE DEF d
  <1>4. Changed(t, d)
    BY <1>1, <1>2, <1>3, ReplacedFacts DEF SourcesInv
  <1>5. Proper(d) /\ d.op = "send"
    BY <1>1, <1>3 DEF Proper, Plain
  <1>6. Held(d) = {d.on}
    BY <1>3, <1>5, HeldFacts
  <1> QED
    BY <1>3, <1>4, <1>5, <1>6

\* The next entry of the map.
LEMMA NextKeeps ==
  ASSUME SourcesInv, NEW t \in EventThreads, In(t, "send", "loop") \/ In(t, "send", "handler"), Next1(t),
         UNCHANGED <<registered, owner, locks, gone, unbalanced>>
  PROVE  SourcesInv'
  <1>1. /\ calls[t] # <<>> /\ Call(t).op = "send" /\ Held(Call(t)) = {Call(t).on} /\ Call(t).pc # "start"
        /\ Call(t).at \in Nat
    BY InFacts
  <1>2. Call(t).at + 1 \in Nat /\ WalkAt(t, Call(t).at + 1)
    BY <1>1 DEF Next1
  <1>3. PICK d : /\ Changed(t, d) /\ Proper(d) /\ d.pc = "loop" /\ d.op = "send" /\ d.on = Call(t).on
                 /\ Held(d) = {d.on}
    BY <1>1, <1>2, WalkAtFacts
  <1> QED
    BY <1>1, <1>3, CallMoves

LEMMA KeepDisconnectSink ==
  ASSUME SourcesInv, NEW t \in EventThreads, DisconnectSink(t)
  PROVE  SourcesInv'
  <1> DEFINE s == Call(t).on
             k == Call(t).with
  <1>1. /\ In(t, "disconnect", "locked") /\ Free(t, k) /\ Relock(t, {}, {s}) /\ Return(t) /\ Disconnected(s, k)
        /\ UNCHANGED <<gone, unbalanced>>
    BY DEF DisconnectSink, FinishCall
  <1>2. calls[t] # <<>> /\ Call(t).op = "disconnect" /\ Held(Call(t)) = {s} /\ s \in Sources /\ k \in Sinks
    BY <1>1, InFacts DEF Plain
  <1>3. SourceTypes /\ EntriesRight /\ Balanced /\ ErasingRight
    BY DEF SourcesInv
  <1>4. CameBack(t) /\ \A i \in 1 .. Len(calls'[t]) : calls'[t][i] = calls[t][i]
    BY <1>1, <1>2, <1>3, ReturnFacts
  <1> HIDE DEF s, k
  <1>5. /\ sinks' \in [Sources -> Seq(SinkEntry)] /\ sources' \in [Sinks -> Seq(Sources)]
        /\ soiled' \subseteq erasing' /\ erasing' = erasing
        /\ \A x \in erasing : Len(sinks'[x]) = Len(sinks[x])
        /\ \A j \in Sinks : j # k => sources'[j] = sources[j]
        /\ EntriesRight' /\ Balanced'
    BY <1>1, <1>2, <1>3, DisconnectedFacts
  <1>6. erasing' \subseteq Sources /\ \A x \in erasing' : Len(sinks[x]) <= Len(sinks'[x])
    BY <1>3, <1>5 DEF SourceTypes
  <1>7. ErasingRight'
    BY <1>2, <1>3, <1>4, <1>5, ReturnedErasing
  <1>8. Relock(t, {}, Held(Call(t))) /\ UNCHANGED gone
    BY <1>1, <1>2
  <1> QED
    BY <1>1, <1>2, <1>4, <1>5, <1>6, <1>7, <1>8, ReturnKeeps

LEMMA KeepUnsubscribe ==
  ASSUME SourcesInv, NEW t \in EventThreads, Unsubscribe(t)
  PROVE  SourcesInv'
  <1> DEFINE s == Call(t).on
             k == Call(t).with
  <1>1. /\ In(t, "unsubscribe", "locked") /\ Free(t, k) /\ Relock(t, {}, {s}) /\ Return(t)
        /\ UNCHANGED gone /\ UNCHANGED erasing
    BY DEF Unsubscribe, FinishCall
  <1>9. /\ sources' = [sources EXCEPT ![k] = FirstForgotten(k, s)]
        /\ sinks' = [sinks EXCEPT ![s] = Erased(s, k, {"type"})]
        /\ soiled' = IF s \in erasing /\ Entries(s, k, {"type"}) # {} THEN soiled \cup {s} ELSE soiled
        /\ unbalanced' = IF Cardinality(Entries(s, k, {"type"})) = 1 THEN unbalanced ELSE unbalanced \cup {<<s, k>>}
    BY DEF Unsubscribe
  <1>2. calls[t] # <<>> /\ Call(t).op = "unsubscribe" /\ Held(Call(t)) = {s} /\ s \in Sources /\ k \in Sinks
    BY <1>1, InFacts DEF Plain
  <1>3. SourceTypes /\ EntriesRight /\ Balanced /\ ErasingRight
    BY DEF SourcesInv
  <1>4. CameBack(t) /\ \A i \in 1 .. Len(calls'[t]) : calls'[t][i] = calls[t][i]
    BY <1>1, <1>2, <1>3, ReturnFacts
  <1> HIDE DEF s, k
  <1>5. /\ sinks' \in [Sources -> Seq(SinkEntry)] /\ sources' \in [Sinks -> Seq(Sources)]
        /\ soiled' \subseteq erasing'
        /\ \A x \in erasing : Len(sinks'[x]) = Len(sinks[x])
        /\ \A j \in Sinks : j # k => sources'[j] = sources[j]
        /\ EntriesRight' /\ Balanced'
    BY <1>1, <1>2, <1>3, <1>9, UnsubscribedFacts
  <1>6. erasing' \subseteq Sources /\ \A x \in erasing' : Len(sinks[x]) <= Len(sinks'[x])
    BY <1>1, <1>3, <1>5 DEF SourceTypes
  <1>7. ErasingRight'
    BY <1>1, <1>2, <1>3, <1>4, ReturnedErasing
  <1>8. Relock(t, {}, Held(Call(t)))
    BY <1>1, <1>2
  <1> QED
    BY <1>1, <1>2, <1>4, <1>5, <1>6, <1>7, <1>8, ReturnKeeps

\* The sink of the first entry of a source in its destructor is a sink.
LEMMA FirstIsSink ==
  ASSUME SourcesInv, NEW t \in EventThreads, In(t, "~source", "first"), sinks[Call(t).on] # <<>>
  PROVE  sinks[Call(t).on][1].sink \in Sinks
  <1> DEFINE s == Call(t).on
  <1>1. SourceTypes /\ CallsRight /\ ErasingRight /\ EntriesRight /\ UsersRight
    BY DEF SourcesInv
  <1>2. calls[t] # <<>> /\ Call(t).op = "~source" /\ s \in Sources
    BY InFacts
  <1>3. Len(calls[t]) \in 1 .. Len(calls[t]) /\ Call(t) = calls[t][Len(calls[t])]
    BY <1>1, <1>2, CallFacts
  <1>4. s \notin erasing
    <2> SUFFICES ASSUME s \in erasing
                 PROVE  FALSE
      OBVIOUS
    <2>1. PICK u \in EventThreads : \E i \in 1 .. Len(calls[u]) : Walks(calls[u][i], s)
      BY <1>1, <1>2 DEF ErasingRight
    <2>2. PICK i \in 1 .. Len(calls[u]) : Walks(calls[u][i], s)
      BY <2>1
    <2>3. Uses(calls[u][i], s) /\ calls[u][i].op = "send"
      BY <2>2 DEF Walks, Uses
    <2>4. t = u /\ Len(calls[t]) = i
      BY <1>1, <1>2, <1>3, <2>3 DEF UsersRight
    <2> QED
      BY <1>2, <1>3, <2>3, <2>4
  <1>5. sinks[s] \in Seq(SinkEntry) /\ s \notin soiled
    BY <1>1, <1>2, <1>4 DEF SourceTypes
  <1> HIDE DEF s
  <1>6. 1 \in 1 .. Len(sinks[s]) /\ sinks[s][1] \in SinkEntry
    BY <1>5 DEF s
  <1>7. sinks[s][1].sink # NoSink
    BY <1>1, <1>2, <1>5, <1>6 DEF EntriesRight
  <1> QED
    BY <1>6, <1>7 DEF s, SinkEntry

LEMMA KeepDestroyDisconnects ==
  ASSUME SourcesInv, NEW t \in EventThreads, DestroyDisconnects(t)
  PROVE  SourcesInv'
  <1> DEFINE s == Call(t).on
             k == sinks[s][1].sink
  <1>1. /\ In(t, "~source", "first") /\ Free(t, k) /\ Relock(t, {}, {s}) /\ GoTo(t, "loop") /\ Disconnected(s, k)
        /\ UNCHANGED <<gone, unbalanced>> /\ sinks[s] # <<>>
    BY DEF DestroyDisconnects
  <1>2. calls[t] # <<>> /\ Call(t).op = "~source" /\ Held(Call(t)) = {dmx, s} /\ s \in Sources
    BY <1>1, InFacts
  <1>3. k \in Sinks
    BY <1>1, FirstIsSink
  <1>4. SourceTypes /\ EntriesRight /\ Balanced /\ ErasingRight
    BY DEF SourcesInv
  <1>5. PICK d : /\ Changed(t, d) /\ Proper(d) /\ d.pc = "loop" /\ d.op = "~source" /\ Held(d) = {dmx}
    BY <1>1, <1>2, MovedFacts DEF Plain
  <1> HIDE DEF s, k
  <1>6. /\ sinks' \in [Sources -> Seq(SinkEntry)] /\ sources' \in [Sinks -> Seq(Sources)]
        /\ soiled' \subseteq erasing' /\ erasing' = erasing
        /\ \A x \in erasing : Len(sinks'[x]) = Len(sinks[x])
        /\ \A j \in Sinks : j # k => sources'[j] = sources[j]
        /\ EntriesRight' /\ Balanced'
    BY <1>1, <1>2, <1>3, <1>4, DisconnectedFacts
  <1>7. erasing' \subseteq Sources /\ \A x \in erasing' : Len(sinks[x]) <= Len(sinks'[x])
    BY <1>4, <1>6 DEF SourceTypes
  <1>8. ErasingRight'
    BY <1>4, <1>5, <1>6, ChangedErasing
  <1>9. Held(d) \ Held(Call(t)) = {} /\ Held(Call(t)) \ Held(d) = {s}
    BY <1>2, <1>5, DestructorsApart
  <1>10. Relock(t, Held(d) \ Held(Call(t)), Held(Call(t)) \ Held(d)) /\ UNCHANGED gone
    BY <1>1, <1>9
  <1> QED
    BY <1>1, <1>3, <1>5, <1>6, <1>7, <1>8, <1>10, ChangeKeeps

LEMMA KeepSinkDisconnects ==
  ASSUME SourcesInv, NEW t \in EventThreads, SinkDisconnects(t)
  PROVE  SourcesInv'
  <1> DEFINE k == Call(t).on
             s == sources[k][1]
  <1>1. /\ In(t, "~sink", "try") /\ Relock(t, {}, {dmx, k}) /\ GoTo(t, "start") /\ Disconnected(s, k)
        /\ UNCHANGED <<gone, unbalanced>>
    BY DEF SinkDisconnects
  <1>2. calls[t] # <<>> /\ Call(t).op = "~sink" /\ Call(t).pc = "try" /\ Held(Call(t)) = {dmx, k} /\ k \in Sinks
    BY <1>1, InFacts
  <1>3. SourceTypes /\ EntriesRight /\ Balanced /\ ErasingRight /\ CallsRight /\ TriesRight /\ LocksRight
    BY DEF SourcesInv
  <1>4. Len(calls[t]) \in 1 .. Len(calls[t]) /\ Call(t) = calls[t][Len(calls[t])]
    BY <1>2, <1>3, CallFacts
  <1>5. s \in Sources
    <2>1. sources[k] # <<>> /\ sources[k] \in Seq(Sources)
      BY <1>2, <1>3, <1>4 DEF TriesRight, SourceTypes
    <2> HIDE DEF k
    <2> QED
      BY <2>1
  <1>6. Free(t, k)
    <2>1. k \in Mutexes
      BY <1>2 DEF Mutexes
    <2>2. Len(calls[t]) \in Holding(t, k)
      BY <1>2, <1>4 DEF Holding
    <2>3. owner[k] = t
      BY <1>3, <2>1, <2>2 DEF LocksRight
    <2> QED
      BY <2>3 DEF Free
  <1>7. PICK d : /\ Changed(t, d) /\ Proper(d) /\ d.pc = "start" /\ d.op = "~sink" /\ Held(d) = {}
    BY <1>1, <1>2, MovedFacts DEF Plain
  <1> HIDE DEF s, k
  <1>8. /\ sinks' \in [Sources -> Seq(SinkEntry)] /\ sources' \in [Sinks -> Seq(Sources)]
        /\ soiled' \subseteq erasing' /\ erasing' = erasing
        /\ \A x \in erasing : Len(sinks'[x]) = Len(sinks[x])
        /\ \A j \in Sinks : j # k => sources'[j] = sources[j]
        /\ EntriesRight' /\ Balanced'
    BY <1>1, <1>2, <1>3, <1>5, DisconnectedFacts
  <1>9. erasing' \subseteq Sources /\ \A x \in erasing' : Len(sinks[x]) <= Len(sinks'[x])
    BY <1>3, <1>8 DEF SourceTypes
  <1>10. ErasingRight'
    BY <1>3, <1>7, <1>8, ChangedErasing
  <1>11. Held(d) \ Held(Call(t)) = {} /\ Held(Call(t)) \ Held(d) = {dmx, k}
    BY <1>2, <1>7
  <1>12. Relock(t, Held(d) \ Held(Call(t)), Held(Call(t)) \ Held(d)) /\ UNCHANGED gone
    BY <1>1, <1>11
  <1> QED
    BY <1>1, <1>2, <1>6, <1>7, <1>8, <1>9, <1>10, <1>12, ChangeKeeps

\* What is destroyed has no entries left.
LEMMA DestroyedKeeps ==
  ASSUME SourcesInv, NEW t \in EventThreads, NEW op \in {"~source", "~sink"}, In(t, op, "first"), Return(t),
         Relock(t, {}, Held(Call(t))), gone' = gone \cup {Call(t).on}, UNCHANGED <<registered, unbalanced>>,
         op = "~source" => sinks[Call(t).on] = <<>>, op = "~sink" => sources[Call(t).on] = <<>>
  PROVE  SourcesInv'
  <1> DEFINE o == Call(t).on
  <1>1. calls[t] # <<>> /\ Call(t).op = op /\ (op = "~source" => o \in Sources) /\ (op = "~sink" => o \in Sinks)
    BY InFacts
  <1>2. SourceTypes /\ EntriesRight /\ Balanced /\ ErasingRight
    BY DEF SourcesInv
  <1>3. CameBack(t) /\ \A i \in 1 .. Len(calls'[t]) : calls'[t][i] = calls[t][i]
    BY <1>1, <1>2, ReturnFacts
  <1>4. sinks' = sinks /\ sources' = sources /\ erasing' = erasing /\ soiled' = soiled /\ unbalanced' = unbalanced
    BY DEF registered
  <1>5. /\ sinks' \in [Sources -> Seq(SinkEntry)] /\ sources' \in [Sinks -> Seq(Sources)]
        /\ soiled' \subseteq erasing' /\ erasing' \subseteq Sources
    BY <1>2, <1>4 DEF SourceTypes
  <1>6. \A x \in erasing' : Len(sinks[x]) <= Len(sinks'[x])
    <2>1. \A x \in Sources : Len(sinks[x]) \in Nat
      BY <1>2 DEF SourceTypes
    <2> QED
      BY <1>4, <1>5, <2>1
  <1>7. ErasingRight'
    BY <1>1, <1>2, <1>3, <1>4, ReturnedErasing
  <1>8. EntriesRight'
    BY <1>2, <1>4 DEF EntriesRight
  <1>9. Balanced'
    <2> SUFFICES ASSUME NEW x \in Sources, NEW j \in Sinks, <<x, j>> \notin unbalanced
                 PROVE  /\ HowMany(sinks[x], EntryOf(j, Keys)) = HowMany(sources[j], {x})
                        /\ x \in gone' \/ j \in gone' => HowMany(sinks[x], EntryOf(j, Keys)) = 0
      BY <1>4 DEF Balanced
    <2>1. /\ HowMany(sinks[x], EntryOf(j, Keys)) = HowMany(sources[j], {x})
          /\ x \in gone \/ j \in gone => HowMany(sinks[x], EntryOf(j, Keys)) = 0
      BY <1>2 DEF Balanced
    <2>2. sinks[x] \in Seq(SinkEntry) /\ sources[j] \in Seq(Sources)
      BY <1>2 DEF SourceTypes
    <2>3. \A A : Places(<<>>, A) = {}
      BY DEF Places
    <2>4. \A A : HowMany(<<>>, A) = 0
      BY <2>3, FS_EmptySet DEF HowMany
    <2> HIDE DEF o
    <2>5. o = x => op = "~source"
      BY <1>1, EventAssumption
    <2>6. o = j => op = "~sink"
      BY <1>1, EventAssumption
    <2>7. o = x \/ o = j => HowMany(sinks[x], EntryOf(j, Keys)) = 0
      BY <2>1, <2>4, <2>5, <2>6 DEF o
    <2> QED
      BY <2>1, <2>7 DEF o
  <1> QED
    BY <1>1, <1>3, <1>4, <1>5, <1>6, <1>7, <1>8, <1>9, ReturnKeeps

LEMMA KeepSourceDestroyed ==
  ASSUME SourcesInv, NEW t \in EventThreads, SourceDestroyed(t)
  PROVE  SourcesInv'
  <1>1. /\ In(t, "~source", "first") /\ Relock(t, {}, {Call(t).on, dmx}) /\ Return(t) /\ sinks[Call(t).on] = <<>>
        /\ gone' = gone \cup {Call(t).on} /\ UNCHANGED <<registered, unbalanced>>
    BY DEF SourceDestroyed
  <1>2. Held(Call(t)) = {Call(t).on, dmx}
    <2>1. Held(Call(t)) = {dmx, Call(t).on}
      BY <1>1, InFacts
    <2> QED
      BY <2>1
  <1> QED
    BY <1>1, <1>2, DestroyedKeeps

LEMMA KeepSinkDestroyed ==
  ASSUME SourcesInv, NEW t \in EventThreads, SinkDestroyed(t)
  PROVE  SourcesInv'
  <1>1. /\ In(t, "~sink", "first") /\ Relock(t, {}, {Call(t).on}) /\ Return(t) /\ sources[Call(t).on] = <<>>
        /\ gone' = gone \cup {Call(t).on} /\ UNCHANGED <<registered, unbalanced>>
    BY DEF SinkDestroyed
  <1>2. Held(Call(t)) = {Call(t).on}
    BY <1>1, InFacts
  <1> QED
    BY <1>1, <1>2, DestroyedKeeps

\* A source that can be locked for send() is not in send().
LEMMA SendIsAlone ==
  ASSUME SourcesInv, NEW t \in EventThreads, In(t, "send", "start"), Free(t, Call(t).on)
  PROVE  Call(t).on \notin erasing
  <1> DEFINE s == Call(t).on
  <1> SUFFICES ASSUME s \in erasing
               PROVE  FALSE
    OBVIOUS
  <1>1. SourceTypes /\ CallsRight /\ ErasingRight /\ LocksRight
    BY DEF SourcesInv
  <1>2. calls[t] # <<>> /\ Call(t).op = "send" /\ Call(t).pc = "start" /\ s \in Sources
    BY InFacts
  <1>3. Len(calls[t]) \in 1 .. Len(calls[t]) /\ Call(t) = calls[t][Len(calls[t])] /\ Len(calls[t]) \in Nat
    BY <1>1, <1>2, CallFacts
  <1>4. PICK u \in EventThreads : \E i \in 1 .. Len(calls[u]) : Walks(calls[u][i], s)
    BY <1>1, <1>2 DEF ErasingRight
  <1>5. PICK i \in 1 .. Len(calls[u]) : Walks(calls[u][i], s)
    BY <1>4
  <1>6. calls[u][i].op = "send" /\ calls[u][i].pc # "start" /\ calls[u][i].on = s
    BY <1>5 DEF Walks
  <1>7. s \in Held(calls[u][i])
    BY <1>6 DEF Held
  <1>8. s \in Mutexes
    BY <1>2 DEF Mutexes
  <1>9. i \in Holding(u, s)
    BY <1>7 DEF Holding
  <1>10. owner[s] = u
    BY <1>1, <1>8, <1>9 DEF LocksRight
  <1>11. u = t
    BY <1>10, EventAssumption DEF Free
  <1>12. i # Len(calls[t])
    BY <1>2, <1>3, <1>6, <1>11
  <1>13. i < Len(calls[t])
    BY <1>3, <1>11, <1>12
  <1>14. calls[t][i].on # calls[t][Len(calls[t])].on
    BY <1>1, <1>2, <1>3, <1>11, <1>13 DEF CallsRight
  <1> QED
    BY <1>3, <1>6, <1>11, <1>14

LEMMA KeepLockSend ==
  ASSUME SourcesInv, NEW t \in EventThreads, LockSend(t)
  PROVE  SourcesInv'
  <1> DEFINE s == Call(t).on
  <1>1. /\ In(t, "send", "start") /\ Relock(t, {s}, {}) /\ WalkAt(t, 1)
        /\ erasing' = erasing \cup {s} /\ soiled' = soiled \ {s}
        /\ UNCHANGED <<sinks, sources, gone, unbalanced>>
    BY DEF LockSend
  <1>2. calls[t] # <<>> /\ Call(t).op = "send" /\ Call(t).pc = "start" /\ s \in Sources /\ Held(Call(t)) = {}
    BY <1>1, InFacts
  <1>3. SourceTypes /\ EntriesRight /\ Balanced /\ ErasingRight
    BY DEF SourcesInv
  <1>4. s \notin erasing
    <2>1. Free(t, s)
      BY <1>1 DEF Relock
    <2> QED
      BY <1>1, <2>1, SendIsAlone
  <1>5. soiled' = soiled
    BY <1>1, <1>3, <1>4 DEF SourceTypes
  <1>6. PICK d : /\ Changed(t, d) /\ Proper(d) /\ d.pc = "loop" /\ d.op = "send" /\ d.on = s /\ Held(d) = {d.on}
    BY <1>1, <1>2, WalkAtFacts
  <1> HIDE DEF s
  <1>7. /\ sinks' \in [Sources -> Seq(SinkEntry)] /\ sources' \in [Sinks -> Seq(Sources)]
        /\ soiled' \subseteq erasing' /\ erasing' \subseteq Sources
        /\ sinks' = sinks /\ sources' = sources /\ gone' = gone /\ unbalanced' = unbalanced
    BY <1>1, <1>2, <1>3, <1>5 DEF SourceTypes
  <1>8. \A x \in erasing' : Len(sinks[x]) <= Len(sinks'[x])
    <2>1. \A x \in Sources : Len(sinks[x]) \in Nat
      BY <1>3 DEF SourceTypes
    <2> QED
      BY <1>7, <2>1
  <1>9. EntriesRight'
    BY <1>3, <1>5, <1>7 DEF EntriesRight
  <1>10. Balanced'
    BY <1>3, <1>7 DEF Balanced
  <1>11. ErasingRight'
    <2>1. Len(calls[t]) \in 1 .. Len(calls[t]) /\ Call(t) = calls[t][Len(calls[t])]
      BY <1>2, <1>3, CallFacts
    <2>2. \A u \in EventThreads : u # t => calls'[u] = calls[u]
      BY <1>6 DEF Changed
    <2>3. Len(calls'[t]) = Len(calls[t]) /\ calls'[t][Len(calls[t])] = d
          /\ \A i \in 1 .. Len(calls[t]) : i # Len(calls[t]) => calls'[t][i] = calls[t][i]
      BY <1>6 DEF Changed
    <2>4. \A x : Walks(calls'[t][Len(calls[t])], x) <=> x = s
      BY <1>6, <2>3 DEF Walks
    <2>5. \A x : ~Walks(calls[t][Len(calls[t])], x)
      BY <1>2, <2>1 DEF Walks
    <2>6. \A u \in EventThreads : Len(calls'[u]) = Len(calls[u])
      BY <2>2, <2>3
    <2>7. ASSUME NEW x \in Sources, NEW u \in EventThreads, NEW i \in 1 .. Len(calls[u])
          PROVE  Walks(calls'[u][i], x) <=> Walks(calls[u][i], x) \/ (x = s /\ u = t /\ i = Len(calls[t]))
      <3>1. CASE u = t /\ i = Len(calls[t])
        BY <2>4, <2>5, <3>1
      <3>2. CASE ~(u = t /\ i = Len(calls[t]))
        BY <2>2, <2>3, <3>2
      <3> QED
        BY <3>1, <3>2
    <2>8. ASSUME NEW x \in Sources
          PROVE  x \in erasing' <=> \E u \in EventThreads : \E i \in 1 .. Len(calls'[u]) : Walks(calls'[u][i], x)
      <3>1. x \in erasing <=> \E u \in EventThreads : \E i \in 1 .. Len(calls[u]) : Walks(calls[u][i], x)
        BY <1>3 DEF ErasingRight
      <3>2. x \in erasing' <=> x \in erasing \/ x = s
        BY <1>1
      <3> QED
        BY <2>1, <2>6, <2>7, <3>1, <3>2
    <2> QED
      BY <2>8 DEF ErasingRight
  <1>12. Held(d) \ Held(Call(t)) = {s} /\ Held(Call(t)) \ Held(d) = {}
    BY <1>2, <1>6
  <1>13. Relock(t, Held(d) \ Held(Call(t)), Held(Call(t)) \ Held(d))
    BY <1>1, <1>12
  <1> QED
    BY <1>6, <1>7, <1>8, <1>9, <1>10, <1>11, <1>13, ChangeKeeps

\* The walk of a call that has locked the source is the only one.
LEMMA WalkIsAlone ==
  ASSUME SourcesInv, NEW t \in EventThreads, In(t, "send", "loop"),
         NEW u \in EventThreads, NEW i \in 1 .. Len(calls[u]), Walks(calls[u][i], Call(t).on)
  PROVE  u = t /\ i = Len(calls[t])
  <1> DEFINE s == Call(t).on
  <1>1. SourceTypes /\ CallsRight /\ LocksRight
    BY DEF SourcesInv
  <1>2. calls[t] # <<>> /\ Call(t).op = "send" /\ s \in Sources /\ Held(Call(t)) = {s}
    BY InFacts
  <1>3. Len(calls[t]) \in 1 .. Len(calls[t]) /\ Call(t) = calls[t][Len(calls[t])] /\ Len(calls[t]) \in Nat
    BY <1>1, <1>2, CallFacts
  <1>4. calls[u][i].op = "send" /\ calls[u][i].pc # "start" /\ calls[u][i].on = s
    BY DEF Walks
  <1>5. s \in Held(calls[u][i])
    BY <1>4 DEF Held
  <1>6. s \in Mutexes
    BY <1>2 DEF Mutexes
  <1>7. i \in Holding(u, s) /\ Len(calls[t]) \in Holding(t, s)
    BY <1>2, <1>3, <1>5 DEF Holding
  <1>8. owner[s] = u /\ owner[s] = t
    BY <1>1, <1>6, <1>7 DEF LocksRight
  <1>9. ~(i < Len(calls[t]))
    BY <1>1, <1>2, <1>3, <1>4, <1>8 DEF CallsRight
  <1> QED
    BY <1>3, <1>8, <1>9

LEMMA KeepSendDone ==
  ASSUME SourcesInv, NEW t \in EventThreads, SendDone(t)
  PROVE  SourcesInv'
  <1> DEFINE s == Call(t).on
  <1>1. /\ In(t, "send", "loop") /\ sinks' = [sinks EXCEPT ![s] = Swept(s)]
        /\ erasing' = erasing \ {s} /\ soiled' = soiled \ {s}
        /\ Relock(t, {}, {s}) /\ Return(t) /\ UNCHANGED <<sources, gone, unbalanced>>
    BY DEF SendDone
  <1>2. calls[t] # <<>> /\ Call(t).op = "send" /\ s \in Sources /\ Held(Call(t)) = {s}
    BY <1>1, InFacts
  <1>3. SourceTypes /\ EntriesRight /\ Balanced /\ ErasingRight
    BY DEF SourcesInv
  <1>4. CameBack(t) /\ \A i \in 1 .. Len(calls'[t]) : calls'[t][i] = calls[t][i]
    BY <1>1, <1>2, <1>3, ReturnFacts
  <1>5. \A u \in EventThreads : \A i \in 1 .. Len(calls[u]) : Walks(calls[u][i], s) => u = t /\ i = Len(calls[t])
    BY <1>1, WalkIsAlone
  <1> HIDE DEF s
  <1>6. /\ sinks' \in [Sources -> Seq(SinkEntry)] /\ soiled' \subseteq erasing'
        /\ \A x \in Sources : x # s => sinks'[x] = sinks[x]
        /\ EntriesRight' /\ Balanced'
    BY <1>1, <1>2, <1>3, SweptFacts
  <1>7. erasing' \subseteq Sources /\ sources' \in [Sinks -> Seq(Sources)]
    BY <1>1, <1>3 DEF SourceTypes
  <1>8. \A x \in erasing' : Len(sinks[x]) <= Len(sinks'[x])
    <2>1. \A x \in Sources : Len(sinks[x]) \in Nat
      BY <1>3 DEF SourceTypes
    <2> QED
      BY <1>1, <1>6, <1>7, <2>1
  <1>9. ErasingRight'
    <2>1. Len(calls[t]) \in 1 .. Len(calls[t]) /\ Len(calls[t]) \in Nat /\ Call(t) = calls[t][Len(calls[t])]
      BY <1>2, <1>3, CallFacts
    <2>2. (\A u \in EventThreads : u # t => calls'[u] = calls[u]) /\ Len(calls'[t]) = Len(calls[t]) - 1
      BY <1>4 DEF CameBack
    <2>3. \A i : i \in 1 .. Len(calls'[t]) <=> i \in 1 .. Len(calls[t]) /\ i # Len(calls[t])
      BY <2>1, <2>2
    <2>4. \A x : Walks(calls[t][Len(calls[t])], x) => x = s
      BY <2>1 DEF Walks, s
    <2>5. ASSUME NEW x \in Sources
          PROVE  x \in erasing' <=> \E u \in EventThreads : \E i \in 1 .. Len(calls'[u]) : Walks(calls'[u][i], x)
      <3>1. x \in erasing <=> \E u \in EventThreads : \E i \in 1 .. Len(calls[u]) : Walks(calls[u][i], x)
        BY <1>3 DEF ErasingRight
      <3>2. CASE x = s
        <4>1. x \notin erasing'
          BY <1>1, <3>2
        <4>2. ASSUME NEW u \in EventThreads, NEW i \in 1 .. Len(calls'[u]), Walks(calls'[u][i], x)
              PROVE  FALSE
          <5>1. CASE u = t
            BY <1>4, <1>5, <2>3, <3>2, <4>2, <5>1
          <5>2. CASE u # t
            BY <1>5, <2>2, <3>2, <4>2, <5>2
          <5> QED
            BY <5>1, <5>2
        <4> QED
          BY <4>1, <4>2
      <3>3. CASE x # s
        <4>1. x \in erasing' <=> x \in erasing
          BY <1>1, <3>3
        <4>2. \A u \in EventThreads : (\E i \in 1 .. Len(calls[u]) : Walks(calls[u][i], x))
                  <=> (\E i \in 1 .. Len(calls'[u]) : Walks(calls'[u][i], x))
          <5> TAKE u \in EventThreads
          <5>1. CASE u = t
            <6>1. ~Walks(calls[t][Len(calls[t])], x)
              BY <2>4, <3>3
            <6> QED
              BY <1>4, <2>3, <5>1, <6>1
          <5>2. CASE u # t
            BY <2>2, <5>2
          <5> QED
            BY <5>1, <5>2
        <4> QED
          BY <3>1, <4>1, <4>2
      <3> QED
        BY <3>2, <3>3
    <2> QED
      BY <2>5 DEF ErasingRight
  <1>10. Relock(t, {}, Held(Call(t))) /\ sources' = sources /\ gone' = gone
    BY <1>1, <1>2
  <1> QED
    BY <1>4, <1>6, <1>7, <1>8, <1>9, <1>10, ReturnKeeps

\* The iterators of the map move with their entries.
LEMMA MovedWalks ==
  ASSUME SourceTypes, NEW t \in EventThreads, calls[t] # <<>>, NEW s, NEW p \in Nat,
         calls' = [calls EXCEPT ![t] = [i \in DOMAIN Outer(t) |-> StaysOn(calls[t][i], s, p)]]
  PROVE  /\ CameBack(t)
         /\ \A i \in 1 .. Len(calls'[t]) : \/ calls'[t][i] = calls[t][i]
                                           \/ calls'[t][i].at = calls[t][i].at + 1 /\ calls[t][i].on = s
  <1>0. PICK n : n = Len(calls[t]) - 1
    OBVIOUS
  <1>1. calls[t] \in Seq(CallRecord) /\ n \in Nat /\ n + 1 = Len(calls[t]) /\ n <= Len(calls[t])
    BY <1>0, CallFacts
  <1>2. DOMAIN Outer(t) = 1 .. n
    BY <1>0, <1>1 DEF Outer
  <1> DEFINE r == [i \in 1 .. n |-> StaysOn(calls[t][i], s, p)]
  <1>3. calls' = [calls EXCEPT ![t] = r]
    BY <1>2
  <1>4. \A c \in CallRecord : LET e == [c EXCEPT !.at = c.at + 1]
                              IN e \in CallRecord /\ e.op = c.op /\ e.on = c.on /\ e.with = c.with /\ e.pc = c.pc
                                 /\ e.at = c.at + 1
    BY DEF CallRecord
  <1>5. \A i \in 1 .. n : calls[t][i] \in CallRecord
    BY <1>1
  <1>6. ASSUME NEW i \in 1 .. n
        PROVE  /\ r[i] \in CallRecord
               /\ r[i].op = calls[t][i].op /\ r[i].on = calls[t][i].on /\ r[i].with = calls[t][i].with
               /\ r[i].pc = calls[t][i].pc
               /\ r[i] = calls[t][i] \/ (r[i].at = calls[t][i].at + 1 /\ calls[t][i].on = s)
    BY <1>4, <1>5 DEF StaysOn
  <1>7. r \in Seq(CallRecord) /\ Len(r) = n
    <2>1. r \in [1 .. n -> CallRecord]
      BY <1>6
    <2> HIDE DEF r
    <2> QED
      BY <1>1, <2>1
  <1> HIDE DEF r
  <1>8. calls \in [EventThreads -> Seq(CallRecord)]
    BY DEF SourceTypes
  <1>9. calls'[t] = r /\ (\A u \in EventThreads : u # t => calls'[u] = calls[u])
        /\ calls' \in [EventThreads -> Seq(CallRecord)]
    BY <1>3, <1>7, <1>8
  <1> QED
    BY <1>0, <1>6, <1>7, <1>9 DEF CameBack

LEMMA KeepConnectSink ==
  ASSUME SourcesInv, NEW t \in EventThreads, ConnectSink(t)
  PROVE  SourcesInv'
  <1> DEFINE s == Call(t).on
             k == Call(t).with
             key == Call(t).key
             p == Place(sinks[s], key)
  <1>1. /\ In(t, "connect", "locked") /\ Free(t, k) /\ Relock(t, {}, {s})
        /\ UNCHANGED <<gone, erasing, soiled, unbalanced>>
    BY DEF ConnectSink, FinishCall
  <1>2. /\ sources' = [sources EXCEPT ![k] = Append(sources[k], s)]
        /\ sinks' = [sinks EXCEPT ![s] = Inserted(sinks[s], [key |-> key, sink |-> k])]
    BY DEF ConnectSink
  <1>3. calls' = [calls EXCEPT ![t] = [i \in DOMAIN Outer(t) |-> StaysOn(calls[t][i], s, p)]]
    BY DEF ConnectSink
  <1>4. /\ calls[t] # <<>> /\ Call(t).op = "connect" /\ Held(Call(t)) = {s} /\ s \in Sources /\ k \in Sinks
        /\ key \in Keys
    <2>1. Call(t) \in CallRecord
      BY <1>1, InFacts
    <2>2. key \in Keys
      BY <2>1 DEF CallRecord
    <2> QED
      BY <1>1, <2>2, InFacts DEF Plain
  <1>5. SourceTypes /\ EntriesRight /\ Balanced /\ ErasingRight /\ CallsRight /\ WalksInMap /\ UsersRight
    BY DEF SourcesInv
  <1>6. Len(calls[t]) \in 1 .. Len(calls[t]) /\ Call(t) = calls[t][Len(calls[t])] /\ Len(calls[t]) \in Nat
        /\ calls[t] \in Seq(CallRecord)
    BY <1>4, <1>5, CallFacts
  <1>7. s \notin gone /\ k \notin gone
    BY <1>5, <1>6 DEF UsersRight, Uses
  <1>8. p \in Nat
    <2>1. [key |-> key, sink |-> k] \in SinkEntry /\ sinks[s] \in Seq(SinkEntry)
      BY <1>4, <1>5 DEF SinkEntry, SourceTypes
    <2>2. Place(sinks[s], [key |-> key, sink |-> k].key) \in 1 .. Len(sinks[s]) + 1
      BY <1>5, <2>1, InsertedFacts
    <2>3. p \in 1 .. Len(sinks[s]) + 1
      BY <2>2
    <2> QED
      BY <2>3
  <1> HIDE DEF s, k, key, p
  <1>9. CameBack(t) /\ \A i \in 1 .. Len(calls'[t]) : \/ calls'[t][i] = calls[t][i]
                                                      \/ calls'[t][i].at = calls[t][i].at + 1 /\ calls[t][i].on = s
    BY <1>3, <1>4, <1>5, <1>8, MovedWalks
  <1>10. /\ sinks' \in [Sources -> Seq(SinkEntry)] /\ sources' \in [Sinks -> Seq(Sources)]
         /\ \A x \in Sources : Len(sinks'[x]) = Len(sinks[x]) + (IF x = s THEN 1 ELSE 0)
         /\ \A j \in Sinks : j # k => sources'[j] = sources[j]
         /\ EntriesRight' /\ Balanced'
    BY <1>1, <1>2, <1>4, <1>5, <1>7, ConnectedFacts
  <1>11. soiled' \subseteq erasing' /\ erasing' \subseteq Sources /\ erasing' = erasing /\ gone' = gone
    BY <1>1, <1>5 DEF SourceTypes
  <1>12. \A x \in Sources : Len(sinks[x]) \in Nat
    BY <1>5 DEF SourceTypes
  <1>13. \A x \in erasing' : Len(sinks[x]) <= Len(sinks'[x])
    <2> TAKE x \in erasing'
    <2>1. x \in Sources
      BY <1>11
    <2>2. Len(sinks'[x]) = Len(sinks[x]) \/ Len(sinks'[x]) = Len(sinks[x]) + 1
      <3>1. CASE x = s
        BY <1>10, <2>1, <3>1
      <3>2. CASE x # s
        <4>1. Len(sinks'[x]) = Len(sinks[x]) + 0
          BY <1>10, <2>1, <3>2
        <4> QED
          BY <1>12, <2>1, <4>1
      <3> QED
        BY <3>1, <3>2
    <2> QED
      BY <1>12, <2>1, <2>2
  <1>14. ErasingRight'
    BY <1>4, <1>5, <1>9, <1>11, ReturnedErasing
  <1>15. ASSUME NEW i \in 1 .. Len(calls'[t])
         PROVE  \/ calls'[t][i] = calls[t][i]
                \/ calls'[t][i].at <= Len(sinks'[calls'[t][i].on])
    <2>1. SUFFICES ASSUME calls'[t][i].at = calls[t][i].at + 1, calls[t][i].on = s
                   PROVE  calls'[t][i].at <= Len(sinks'[calls'[t][i].on])
      BY <1>9
    <2>2. Len(calls'[t]) = Len(calls[t]) - 1
      BY <1>9 DEF CameBack
    <2>3. i \in 1 .. Len(calls[t]) - 1 /\ i \in 1 .. Len(calls[t]) /\ i < Len(calls[t])
      BY <1>6, <2>2
    <2>4. calls[t][i].op = "send" /\ calls[t][i].pc = "handler"
      BY <1>5, <2>3 DEF CallsRight
    <2>5. calls[t][i].at <= Len(sinks[s])
      BY <1>5, <2>1, <2>3, <2>4 DEF WalksInMap
    <2>6. calls[t][i] \in CallRecord
      BY <1>6, <2>3
    <2>7. calls[t][i].at \in Nat
      BY <2>6 DEF CallRecord
    <2>8. calls'[t][i].on = s
      BY <1>9, <2>1, <2>3 DEF CameBack
    <2>9. Len(sinks'[s]) = Len(sinks[s]) + 1 /\ Len(sinks[s]) \in Nat
      BY <1>4, <1>10, <1>12
    <2> QED
      BY <2>1, <2>5, <2>7, <2>8, <2>9
  <1>16. Relock(t, {}, Held(Call(t)))
    BY <1>1, <1>4
  <1> QED
    BY <1>1, <1>4, <1>9, <1>10, <1>11, <1>13, <1>14, <1>15, <1>16, ReturnKeeps

\* A call begins.
LEMMA BeginKeeps ==
  ASSUME SourcesInv, NEW t \in EventThreads, NEW c \in CallRecord, Proper(c), c.pc = "start",
         calls[t] # <<>> => Call(t).pc = "handler",
         calls' = [calls EXCEPT ![t] = Append(calls[t], c)],
         UNCHANGED <<registered, owner, locks, gone, unbalanced>>,
         \A o \in gone : ~Uses(c, o),
         \A u \in EventThreads : \A j \in 1 .. Len(calls[u]) :
            /\ calls[u][j].op \in {"~source", "~sink"} => ~Uses(c, calls[u][j].on)
            /\ c.op \in {"~source", "~sink"} => ~Uses(calls[u][j], c.on),
         c.op \in {"send", "~source"} => \A i \in 1 .. Len(calls[t]) : calls[t][i].on # c.on
  PROVE  SourcesInv'
  <1>1. SourceTypes /\ CallsRight /\ TriesRight /\ LocksRight /\ ErasingRight /\ EntriesRight /\ WalksInMap
        /\ UsersRight /\ Balanced
    BY DEF SourcesInv
  <1>2. /\ sinks' = sinks /\ sources' = sources /\ erasing' = erasing /\ soiled' = soiled /\ gone' = gone
        /\ owner' = owner /\ locks' = locks /\ EntriesRight' /\ Balanced'
    BY MapsKept DEF registered
  <1>3. PICK n : n = Len(calls[t])
    OBVIOUS
  <1>4. calls[t] \in Seq(CallRecord) /\ n \in Nat /\ calls \in [EventThreads -> Seq(CallRecord)]
    BY <1>1, <1>3 DEF SourceTypes
  <1>5. Append(calls[t], c) \in Seq(CallRecord) /\ Len(Append(calls[t], c)) = n + 1 /\ Append(calls[t], c)[n + 1] = c
        /\ \A i \in 1 .. n : Append(calls[t], c)[i] = calls[t][i]
    BY <1>3, <1>4
  <1>6. /\ calls' \in [EventThreads -> Seq(CallRecord)] /\ Len(calls'[t]) = n + 1 /\ calls'[t][n + 1] = c
        /\ \A i \in 1 .. n : calls'[t][i] = calls[t][i]
        /\ \A u \in EventThreads : u # t => calls'[u] = calls[u]
    BY <1>4, <1>5
  <1>7. \A i : i \in 1 .. n + 1 <=> i \in 1 .. n \/ i = n + 1
    BY <1>4
  <1>8. n + 1 \notin 1 .. n /\ (\A i \in 1 .. n : i < n + 1 /\ ~(n + 1 < i)) /\ ~(n + 1 < n + 1)
    BY <1>4
  <1>9. SourceTypes'
    BY <1>1, <1>2, <1>6 DEF SourceTypes
  <1>10. CallsRight'
    <2>1. \A i \in 1 .. n : calls[t][i].op = "send" /\ calls[t][i].pc = "handler"
      <3>1. ASSUME NEW i \in 1 .. n
            PROVE  calls[t][i].op = "send" /\ calls[t][i].pc = "handler"
        <4>1. CASE i = n
          <5>1. calls[t] # <<>> /\ Call(t) = calls[t][n]
            BY <1>3, <1>4, <4>1 DEF Call, Last
          <5>2. calls[t][n].pc = "handler" /\ Proper(calls[t][n])
            BY <1>1, <1>3, <4>1, <5>1 DEF CallsRight
          <5>3. calls[t][n] \in CallRecord
            BY <1>3, <1>4, <4>1
          <5> QED
            BY <4>1, <5>2, <5>3 DEF CallRecord, Proper
        <4>2. CASE i # n
          <5>1. i < n
            BY <1>4, <4>2
          <5> QED
            BY <1>1, <1>3, <5>1 DEF CallsRight
        <4> QED
          BY <4>1, <4>2
      <3> QED
        BY <3>1
    <2>2. ASSUME NEW i \in 1 .. n + 1
          PROVE  /\ Proper(calls'[t][i])
                 /\ i < n + 1 => calls'[t][i].op = "send" /\ calls'[t][i].pc = "handler"
                 /\ \A j \in 1 .. n + 1 :
                      i < j /\ calls'[t][j].op \in {"send", "~source"} => calls'[t][i].on # calls'[t][j].on
      <3>1. CASE i = n + 1
        <4>1. ~(i < n + 1) /\ \A j \in 1 .. n + 1 : ~(i < j)
          BY <1>7, <1>8, <3>1
        <4> QED
          BY <1>6, <3>1, <4>1
      <3>2. CASE i \in 1 .. n
        <4>1. Proper(calls'[t][i]) /\ calls'[t][i].op = "send" /\ calls'[t][i].pc = "handler"
          BY <1>1, <1>3, <1>6, <2>1, <3>2 DEF CallsRight
        <4>2. ASSUME NEW j \in 1 .. n + 1, i < j, calls'[t][j].op \in {"send", "~source"}
              PROVE  calls'[t][i].on # calls'[t][j].on
          <5>1. CASE j = n + 1
            BY <1>3, <1>6, <3>2, <4>2, <5>1
          <5>2. CASE j \in 1 .. n
            BY <1>1, <1>3, <1>6, <3>2, <4>2, <5>2 DEF CallsRight
          <5> QED
            BY <1>7, <5>1, <5>2
        <4> QED
          BY <4>1, <4>2
      <3> QED
        BY <1>7, <3>1, <3>2
    <2> QED
      BY <1>1, <1>6, <2>2 DEF CallsRight
  <1>11. TriesRight'
    <2>1. \A i \in 1 .. n : i \in 1 .. Len(calls[t])
      BY <1>3
    <2> QED
      BY <1>1, <1>2, <1>6, <1>7, <2>1 DEF TriesRight
  <1>12. LocksRight'
    <2>1. Held(c) = {}
      BY HeldFacts
    <2>2. ASSUME NEW u \in EventThreads, NEW m
          PROVE  Holding(u, m)' = Holding(u, m)
      <3>1. CASE u = t
        <4>1. Holding(t, m)' = {i \in 1 .. n + 1 : m \in Held(calls'[t][i])}
          BY <1>6 DEF Holding
        <4>2. Holding(t, m) = {i \in 1 .. n : m \in Held(calls[t][i])}
          BY <1>3 DEF Holding
        <4>3. \A i : i \in 1 .. n + 1 /\ m \in Held(calls'[t][i]) <=> i \in 1 .. n /\ m \in Held(calls[t][i])
          BY <1>6, <1>7, <1>8, <2>1
        <4> QED
          BY <3>1, <4>1, <4>2, <4>3
      <3>2. CASE u # t
        BY <1>6, <3>2 DEF Holding
      <3> QED
        BY <3>1, <3>2
    <2> QED
      BY <1>1, <1>2, <2>2 DEF LocksRight
  <1>13. ErasingRight'
    <2>1. \A s : ~Walks(c, s)
      BY DEF Walks
    <2>2. \A u \in EventThreads, s \in Sources : (\E i \in 1 .. Len(calls'[u]) : Walks(calls'[u][i], s))
                                              <=> (\E i \in 1 .. Len(calls[u]) : Walks(calls[u][i], s))
      BY <1>3, <1>6, <1>7, <2>1
    <2> QED
      BY <1>1, <1>2, <2>2 DEF ErasingRight
  <1>14. WalksInMap'
    <2>1. \A i \in 1 .. n : i \in 1 .. Len(calls[t])
      BY <1>3
    <2> SUFFICES ASSUME NEW u \in EventThreads, NEW i \in 1 .. Len(calls'[u]),
                        calls'[u][i].op = "send", calls'[u][i].pc = "handler"
                 PROVE  calls'[u][i].at <= Len(sinks'[calls'[u][i].on])
      BY DEF WalksInMap
    <2>2. CASE u # t
      BY <1>1, <1>2, <1>6, <2>2 DEF WalksInMap
    <2>3. CASE u = t
      <3>1. i # n + 1
        BY <1>6, <2>3
      <3>2. i \in 1 .. n
        BY <1>6, <1>7, <2>3, <3>1
      <3> QED
        BY <1>1, <1>2, <1>6, <2>1, <2>3, <3>2 DEF WalksInMap
    <2> QED
      BY <2>2, <2>3
  <1>15. UsersRight'
    <2>1. \A u \in EventThreads : \A i \in 1 .. Len(calls'[u]) :
             \/ i \in 1 .. Len(calls[u]) /\ calls'[u][i] = calls[u][i]
             \/ u = t /\ i = n + 1 /\ calls'[u][i] = c
      BY <1>3, <1>6, <1>7
    <2>2. (\A o \in gone : \A u \in EventThreads : \A i \in 1 .. Len(calls[u]) : ~Uses(calls[u][i], o))'
      BY <1>1, <1>2, <2>1 DEF UsersRight
    <2>3. (\A u, v \in EventThreads : \A i \in 1 .. Len(calls[u]), j \in 1 .. Len(calls[v]) :
            calls[u][i].op \in {"~source", "~sink"} /\ Uses(calls[v][j], calls[u][i].on) => u = v /\ i = j)'
      <3> SUFFICES ASSUME NEW u \in EventThreads, NEW v \in EventThreads, NEW i \in 1 .. Len(calls'[u]),
                          NEW j \in 1 .. Len(calls'[v]), calls'[u][i].op \in {"~source", "~sink"},
                          Uses(calls'[v][j], calls'[u][i].on)
                   PROVE  u = v /\ i = j
        OBVIOUS
      <3>1. CASE i \in 1 .. Len(calls[u]) /\ calls'[u][i] = calls[u][i]
                 /\ j \in 1 .. Len(calls[v]) /\ calls'[v][j] = calls[v][j]
        BY <1>1, <3>1 DEF UsersRight
      <3>2. CASE i \in 1 .. Len(calls[u]) /\ calls'[u][i] = calls[u][i] /\ calls'[v][j] = c
        BY <3>2
      <3>3. CASE calls'[u][i] = c /\ j \in 1 .. Len(calls[v]) /\ calls'[v][j] = calls[v][j]
        BY <3>3
      <3>4. CASE u = t /\ i = n + 1 /\ v = t /\ j = n + 1
        BY <3>4
      <3> QED
        BY <2>1, <3>1, <3>2, <3>3, <3>4
    <2> QED
      BY <2>2, <2>3 DEF UsersRight
  <1> QED
    BY <1>2, <1>9, <1>10, <1>11, <1>12, <1>13, <1>14, <1>15 DEF SourcesInv

\* The call that begins, and who may not be using its objects.
BeginsWith(op, on, with, key) == [op |-> op, on |-> on, with |-> with, key |-> key, pc |-> "start", at |-> 0]

LEMMA BeginFacts ==
  ASSUME SourcesInv, NEW t \in EventThreads,
         NEW op \in Plain \cup {"send", "~source", "~sink"}, NEW on \in Sources \cup Sinks,
         NEW with \in Sinks \cup {NoSink}, NEW key \in Keys, Begin(t, op, on, with, key),
         Proper(BeginsWith(op, on, with, key)), Usable(on), with # NoSink => Usable(with),
         op \in {"~source", "~sink"} => OnlyUsedBy(t, on) /\ \A j \in 1 .. Len(calls[t]) : ~Uses(calls[t][j], on),
         op \in {"send", "~source"} => \A i \in 1 .. Len(calls[t]) : calls[t][i].on # on
  PROVE  SourcesInv'
  <1> DEFINE c == BeginsWith(op, on, with, key)
  <1>1. c \in CallRecord /\ c.pc = "start" /\ c.op = op /\ c.on = on /\ c.with = with
    BY DEF CallRecord, BeginsWith
  <1>2. SourceTypes
    BY DEF SourcesInv
  <1>3. /\ calls[t] # <<>> => Call(t).pc = "handler"
        /\ calls' = [calls EXCEPT ![t] = Append(calls[t], c)]
        /\ UNCHANGED <<registered, owner, locks, gone, unbalanced>>
    BY DEF Begin, MayCall, BeginsWith
  <1> HIDE DEF c
  <1>4. gone \subseteq Sources \cup Sinks /\ NoSink \notin Sources \cup Sinks
    BY <1>2, EventAssumption DEF SourceTypes
  <1>5. \A u \in EventThreads : Len(calls[u]) \in Nat /\ DOMAIN calls[u] = 1 .. Len(calls[u])
    BY <1>2 DEF SourceTypes
  <1>6. \A o \in gone : ~Uses(c, o)
    BY <1>1, <1>4 DEF Usable, Uses
  <1>7. ASSUME NEW u \in EventThreads, NEW j \in 1 .. Len(calls[u])
        PROVE  /\ calls[u][j].op \in {"~source", "~sink"} => ~Uses(c, calls[u][j].on)
               /\ c.op \in {"~source", "~sink"} => ~Uses(calls[u][j], c.on)
    <2>1. ASSUME calls[u][j].op \in {"~source", "~sink"}
          PROVE  ~Uses(c, calls[u][j].on)
      <3>1. calls[u][j].on # on
        BY <1>5, <2>1 DEF Usable, Dying
      <3>2. calls[u][j].on \in Sources \cup Sinks
        BY <2>1 DEF SourcesInv, CallsRight, Proper
      <3>3. calls[u][j].on # with
        BY <1>4, <1>5, <2>1, <3>2 DEF Usable, Dying
      <3> QED
        BY <1>1, <3>1, <3>3 DEF Uses
    <2>2. ASSUME c.op \in {"~source", "~sink"}
          PROVE  ~Uses(calls[u][j], c.on)
      <3>1. CASE u = t
        BY <1>1, <2>2, <3>1
      <3>2. CASE u # t
        BY <1>1, <1>5, <2>2, <3>2 DEF OnlyUsedBy, Uses
      <3> QED
        BY <3>1, <3>2
    <2> QED
      BY <2>1, <2>2
  <1>8. c.op \in {"send", "~source"} => \A i \in 1 .. Len(calls[t]) : calls[t][i].on # c.on
    BY <1>1
  <1>9. Proper(c)
    BY DEF c
  <1> QED
    BY <1>1, <1>3, <1>6, <1>7, <1>8, <1>9, BeginKeeps

LEMMA KeepBeginCall ==
  ASSUME SourcesInv, NEW t \in EventThreads, NEW op \in Plain, NEW s \in Sources, NEW k \in Sinks, NEW key \in Keys,
         BeginCall(t, op, s, k, key)
  PROVE  SourcesInv'
  <1>1. Usable(s) /\ Usable(k) /\ Begin(t, op, s, k, key)
    BY DEF BeginCall
  <1>2. Proper(BeginsWith(op, s, k, key))
    BY DEF Proper, BeginsWith, Plain
  <1>3. op \notin {"send", "~source", "~sink"}
    BY DEF Plain
  <1> QED
    BY <1>1, <1>2, <1>3, BeginFacts

LEMMA KeepBeginSend ==
  ASSUME SourcesInv, NEW t \in EventThreads, NEW s \in Sources, BeginSend(t, s)
  PROVE  SourcesInv'
  <1>1. Usable(s) /\ Begin(t, "send", s, NoSink, "all")
    BY DEF BeginSend
  <1>2. DOMAIN calls[t] = 1 .. Len(calls[t])
    BY DEF SourcesInv, SourceTypes
  <1>3. \A i \in 1 .. Len(calls[t]) : calls[t][i].on # s
    BY <1>2 DEF BeginSend
  <1>4. Proper(BeginsWith("send", s, NoSink, "all")) /\ "all" \in Keys
    BY DEF Proper, BeginsWith, Plain, Keys
  <1> QED
    BY <1>1, <1>3, <1>4, BeginFacts

\* The calls that a thread is in when it begins another are on sources, and with no sink.
LEMMA OuterCalls ==
  ASSUME SourcesInv, NEW t \in EventThreads, MayCall(t), NEW i \in 1 .. Len(calls[t])
  PROVE  calls[t][i].on \in Sources /\ calls[t][i].with = NoSink
  <1>1. SourceTypes /\ CallsRight
    BY DEF SourcesInv
  <1>2. calls[t] \in Seq(CallRecord) /\ Len(calls[t]) \in Nat
    BY <1>1 DEF SourceTypes
  <1>3. calls[t][i].op = "send"
    <2>1. CASE i = Len(calls[t])
      <3>1. calls[t] # <<>> /\ Call(t) = calls[t][i]
        BY <1>2, <2>1 DEF Call, Last
      <3>2. calls[t][i].pc = "handler" /\ Proper(calls[t][i])
        BY <1>1, <3>1 DEF CallsRight, MayCall
      <3>3. calls[t][i] \in CallRecord
        BY <1>2
      <3> QED
        BY <3>2, <3>3 DEF CallRecord, Proper
    <2>2. CASE i # Len(calls[t])
      <3>1. i < Len(calls[t])
        BY <1>2, <2>2
      <3> QED
        BY <1>1, <3>1 DEF CallsRight
    <2> QED
      BY <2>1, <2>2
  <1> QED
    BY <1>1, <1>3 DEF CallsRight, Proper

LEMMA KeepBeginDestroySource ==
  ASSUME SourcesInv, NEW t \in EventThreads, NEW s \in Sources, BeginDestroySource(t, s)
  PROVE  SourcesInv'
  <1>1. Usable(s) /\ Begin(t, "~source", s, NoSink, "all") /\ OnlyUsedBy(t, s)
    BY DEF BeginDestroySource
  <1>2. DOMAIN calls[t] = 1 .. Len(calls[t])
    BY DEF SourcesInv, SourceTypes
  <1>3. \A i \in 1 .. Len(calls[t]) : calls[t][i].on # s
    BY <1>2 DEF BeginDestroySource
  <1>4. Proper(BeginsWith("~source", s, NoSink, "all")) /\ "all" \in Keys
    BY DEF Proper, BeginsWith, Plain, Keys
  <1>5. s # NoSink /\ MayCall(t)
    BY <1>1, EventAssumption DEF Begin
  <1>6. \A j \in 1 .. Len(calls[t]) : ~Uses(calls[t][j], s)
    BY <1>3, <1>5, OuterCalls DEF Uses
  <1> QED
    BY <1>1, <1>3, <1>4, <1>6, BeginFacts

LEMMA KeepBeginDestroySink ==
  ASSUME SourcesInv, NEW t \in EventThreads, NEW k \in Sinks, BeginDestroySink(t, k)
  PROVE  SourcesInv'
  <1>1. Usable(k) /\ Begin(t, "~sink", k, NoSink, "all") /\ OnlyUsedBy(t, k)
    BY DEF BeginDestroySink
  <1>2. Proper(BeginsWith("~sink", k, NoSink, "all")) /\ "all" \in Keys
    BY DEF Proper, BeginsWith, Plain, Keys
  <1>3. k # NoSink /\ k \notin Sources /\ MayCall(t)
    BY <1>1, EventAssumption DEF Begin
  <1>4. \A j \in 1 .. Len(calls[t]) : ~Uses(calls[t][j], k)
    BY <1>3, OuterCalls DEF Uses
  <1> QED
    BY <1>1, <1>2, <1>4, BeginFacts

-----------------------------------------------------------------------------

LEMMA SourcesInit ==
  ASSUME EventInit
  PROVE  SourcesInv
  <1>1. /\ sinks = [s \in Sources |-> <<>>] /\ sources = [k \in Sinks |-> <<>>]
        /\ erasing = {} /\ soiled = {} /\ gone = {}
        /\ owner = [m \in Mutexes |-> Nobody] /\ locks = [m \in Mutexes |-> 0]
        /\ calls = [t \in EventThreads |-> <<>>]
    BY DEF EventInit
  <1>2. \A t \in EventThreads : \A i : i \notin 1 .. Len(calls[t])
    <2>1. \A t \in EventThreads : Len(calls[t]) = 0
      BY <1>1
    <2> QED
      BY <2>1
  <1>3. SourceTypes
    BY <1>1 DEF SourceTypes
  <1>4. CallsRight /\ TriesRight /\ WalksInMap
    BY <1>2, Zenon DEF CallsRight, TriesRight, WalksInMap
  <1>5. LocksRight
    <2>1. \A t \in EventThreads : \A m : Holding(t, m) = {}
      BY <1>2 DEF Holding
    <2> QED
      BY <1>1, <2>1, EventAssumption DEF LocksRight
  <1>6. ErasingRight
    BY <1>1, <1>2 DEF ErasingRight
  <1>7. EntriesRight
    BY <1>1 DEF EntriesRight
  <1>8. UsersRight
    BY <1>1, <1>2, Zenon DEF UsersRight
  <1>9. Balanced
    <2>1. \A A : Places(<<>>, A) = {}
      BY DEF Places
    <2>2. \A A : HowMany(<<>>, A) = 0
      BY <2>1, FS_EmptySet DEF HowMany
    <2> QED
      BY <1>1, <2>2 DEF Balanced
  <1> QED
    BY <1>3, <1>4, <1>5, <1>6, <1>7, <1>8, <1>9 DEF SourcesInv

LEMMA StepKeepsSources ==
  ASSUME SourcesInv, NEW t \in EventThreads, EventStep(t)
  PROVE  SourcesInv'
  <1>1. CASE LockSource(t)
    BY <1>1, KeepLockSource
  <1>2. CASE ConnectSink(t)
    BY <1>2, KeepConnectSink
  <1>3. CASE DisconnectSink(t)
    BY <1>3, KeepDisconnectSink
  <1>4. CASE Unsubscribe(t)
    BY <1>4, KeepUnsubscribe
  <1>5. CASE LockSend(t)
    BY <1>5, KeepLockSend
  <1>6. CASE CommitEvent(t)
    BY <1>6, KeepCommitEvent
  <1>7. CASE SkipErased(t)
    BY <1>7, NextKeeps DEF SkipErased
  <1>8. CASE Committed(t)
    BY <1>8, NextKeeps DEF Committed
  <1>9. CASE SendDone(t)
    BY <1>9, KeepSendDone
  <1>10. CASE LockDestructors(t)
    BY <1>10, KeepLockDestructors
  <1>11. CASE DestroyLocks(t)
    BY <1>11, KeepDestroyLocks
  <1>12. CASE DestroyDisconnects(t)
    BY <1>12, KeepDestroyDisconnects
  <1>13. CASE SourceDestroyed(t)
    BY <1>13, KeepSourceDestroyed
  <1>14. CASE SinkLocks(t)
    BY <1>14, KeepSinkLocks
  <1>15. CASE SinkYields(t)
    BY <1>15, KeepSinkYields
  <1>16. CASE SinkTries(t)
    BY <1>16, KeepSinkTries
  <1>17. CASE SinkDisconnects(t)
    BY <1>17, KeepSinkDisconnects
  <1>18. CASE SinkDestroyed(t)
    BY <1>18, KeepSinkDestroyed
  <1> QED
    BY <1>1, <1>2, <1>3, <1>4, <1>5, <1>6, <1>7, <1>8, <1>9, <1>10, <1>11, <1>12, <1>13, <1>14, <1>15, <1>16,
       <1>17, <1>18, Zenon DEF EventStep

LEMMA CallKeepsSources ==
  ASSUME SourcesInv, NEW t \in EventThreads, EventCall(t)
  PROVE  SourcesInv'
  <1>1. ASSUME NEW s \in Sources, BeginSend(t, s)
        PROVE  SourcesInv'
    BY <1>1, KeepBeginSend
  <1>2. ASSUME NEW s \in Sources, BeginDestroySource(t, s)
        PROVE  SourcesInv'
    BY <1>2, KeepBeginDestroySource
  <1>3. ASSUME NEW s \in Sources, NEW k \in Sinks, NEW key \in Keys, BeginCall(t, "connect", s, k, key)
        PROVE  SourcesInv'
    BY <1>3, KeepBeginCall DEF Plain
  <1>4. ASSUME NEW s \in Sources, NEW k \in Sinks, NEW op \in {"disconnect", "unsubscribe"},
               BeginCall(t, op, s, k, "type")
        PROVE  SourcesInv'
    <2>1. op \in Plain /\ "type" \in Keys
      BY DEF Plain, Keys
    <2> QED
      BY <1>4, <2>1, KeepBeginCall
  <1>5. ASSUME NEW k \in Sinks, BeginDestroySink(t, k)
        PROVE  SourcesInv'
    BY <1>5, KeepBeginDestroySink
  <1> QED
    BY <1>1, <1>2, <1>3, <1>4, <1>5, Zenon DEF EventCall

LEMMA StutterKeepsSources ==
  ASSUME SourcesInv, UNCHANGED eventVars
  PROVE  SourcesInv'
  <1>1. /\ sinks' = sinks /\ sources' = sources /\ erasing' = erasing /\ soiled' = soiled
        /\ owner' = owner /\ locks' = locks /\ calls' = calls /\ gone' = gone /\ unbalanced' = unbalanced
    BY DEF eventVars
  <1>2. SourceTypes' /\ CallsRight'
    BY <1>1 DEF SourcesInv, SourceTypes, CallsRight
  <1>3. TriesRight' /\ LocksRight'
    BY <1>1 DEF SourcesInv, TriesRight, LocksRight, Holding
  <1>4. ErasingRight' /\ EntriesRight' /\ WalksInMap'
    BY <1>1 DEF SourcesInv, ErasingRight, EntriesRight, WalksInMap
  <1>5. UsersRight' /\ Balanced'
    BY <1>1 DEF SourcesInv, UsersRight, Balanced
  <1> QED
    BY <1>2, <1>3, <1>4, <1>5 DEF SourcesInv

LEMMA SourcesInvIsSound ==
  ASSUME SourcesInv
  PROVE  SourcesSound
  <1>1. SourceTypes /\ LocksRight /\ EntriesRight /\ WalksInMap /\ Balanced
    BY DEF SourcesInv
  <1>2. EventTypeOK
    <2>1. sinks \in [Sources -> Seq([key : Keys, sink : Sinks \cup {NoSink}])]
      BY <1>1 DEF SourceTypes, SinkEntry
    <2>2. \A m \in Mutexes : (owner[m] = Nobody) <=> (locks[m] = 0)
      <3> TAKE m \in Mutexes
      <3>1. CASE owner[m] = Nobody
        BY <1>1, <3>1 DEF LocksRight
      <3>2. CASE owner[m] # Nobody
        <4>1. PICK t \in EventThreads : owner[m] = t
          BY <1>1, <3>2 DEF LocksRight
        <4>2. locks[m] = Cardinality(Holding(t, m)) /\ Holding(t, m) # {}
          BY <1>1, <4>1 DEF LocksRight
        <4>3. IsFiniteSet(Holding(t, m))
          BY <1>1, HoldingFacts
        <4>4. locks[m] # 0
          BY <4>2, <4>3, FS_EmptySet
        <4> QED
          BY <3>2, <4>4
      <3> QED
        BY <3>1, <3>2
    <2> QED
      BY <1>1, <2>1, <2>2 DEF EventTypeOK, SourceTypes, LocksRight
  <1>3. NoneIsDangling
    <2> SUFFICES ASSUME NEW s \in Sources, NEW k \in Sinks, <<s, k>> \notin unbalanced
                 PROVE  /\ s \notin gone => (k \in gone => Entries(s, k, Keys) = {})
                        /\ k \notin gone => (s \in gone => \A i \in DOMAIN sources[k] : sources[k][i] # s)
      BY DEF NoneIsDangling
    <2>1. /\ HowMany(sinks[s], EntryOf(k, Keys)) = HowMany(sources[k], {s})
          /\ s \in gone \/ k \in gone => HowMany(sinks[s], EntryOf(k, Keys)) = 0
      BY <1>1 DEF Balanced
    <2>2. Entries(s, k, Keys) = {} <=> HowMany(sinks[s], EntryOf(k, Keys)) = 0
      BY <1>1, MapFacts
    <2>3. sources[k] \in Seq(Sources) /\ DOMAIN sources[k] = 1 .. Len(sources[k])
      BY <1>1, MapFacts
    <2>4. HowMany(sources[k], {s}) = 0 => \A i \in 1 .. Len(sources[k]) : sources[k][i] \notin {s}
      BY <2>3, NumberFacts
    <2> QED
      BY <2>1, <2>2, <2>3, <2>4
  <1>4. EmptiedIsSwept
    <2> SUFFICES ASSUME NEW s \in Sources \ erasing, NEW i \in DOMAIN sinks[s]
                 PROVE  sinks[s][i].sink # NoSink
      BY DEF EmptiedIsSwept
    <2>1. s \in Sources \ soiled /\ i \in 1 .. Len(sinks[s])
      BY <1>1 DEF SourceTypes
    <2> QED
      BY <1>1, <2>1 DEF EntriesRight
  <1>5. SendIsInTheMap
    <2>1. \A t \in EventThreads : DOMAIN calls[t] = 1 .. Len(calls[t])
      BY <1>1 DEF SourceTypes
    <2> QED
      BY <1>1, <2>1 DEF WalksInMap, SendIsInTheMap
  <1> QED
    BY <1>2, <1>3, <1>4, <1>5 DEF SourcesSound

\* The entries of the sources and the lists of the sinks agree, the walk of
\* send() stays in the map, and a mutex is locked by who holds it: however many
\* sources, sinks and threads, and however deep the handlers call.
THEOREM EventSourcesInvariant == EventSpec => []SourcesInv
  <1>1. EventInit => SourcesInv
    BY SourcesInit
  <1>2. SourcesInv /\ [EventNext]_eventVars => SourcesInv'
    <2> SUFFICES ASSUME SourcesInv, [EventNext]_eventVars
                 PROVE  SourcesInv'
      OBVIOUS
    <2>1. CASE EventNext
      <3>1. PICK t \in EventThreads : EventStep(t) \/ EventCall(t)
        BY <2>1 DEF EventNext
      <3> QED
        BY <3>1, StepKeepsSources, CallKeepsSources
    <2>2. CASE UNCHANGED eventVars
      BY <2>2, StutterKeepsSources
    <2> QED
      BY <2>1, <2>2
  <1> QED
    BY <1>1, <1>2, PTL DEF EventSpec

\* No source knows a sink that is destroyed and no sink such a source, emptied
\* entries are swept, and send() is at an entry that exists.
THEOREM EventSourcesSound == EventSpec => []SourcesSound
  <1>1. EventSpec => []SourcesInv
    BY EventSourcesInvariant
  <1>2. SourcesInv => SourcesSound
    BY SourcesInvIsSound
  <1> QED
    BY <1>1, <1>2, PTL

-----------------------------------------------------------------------------
(* The signal for events.                                                  *)

RouteType == [id : 1 .. MaxRoutes, key : {"all", "type"}, to : Listeners]

Frame == [type : {"type", "other"}, part : {"all", "type"}, at : 0 .. MaxRoutes, attached : BOOLEAN,
          pc : {"loop", "handler"}, dead : BOOLEAN]

RouteRight ==
  /\ RouteTypeOK /\ isSending \in BOOLEAN /\ isDirty \in BOOLEAN /\ hangs \in BOOLEAN /\ renested \in BOOLEAN
  /\ sendings \in Seq(Frame) /\ Len(sendings) <= MaxSends

\* No connection has two routes, and a new one gets an id of its own.
OneRouteEach(rs) == \A i, j \in 1 .. Len(rs) : rs[i].id = rs[j].id => i = j

IdsAreFresh ==
  /\ open \subseteq 1 .. last
  /\ \A i \in 1 .. Len(routes) : routes[i].id <= last
  /\ OneRouteEach(routes)

\* The sentry is that of the only attached send(), unless it was sent while sending.
SentryRight ==
  /\ theSentry # 0 => theSentry \in 1 .. Len(sendings) /\ sendings[theSentry].attached
  /\ ~renested => \A i \in 1 .. Len(sendings) : sendings[i].attached => i = theSentry
  /\ \A i \in 1 .. Len(sendings) : sendings[i].pc = "loop" => i = Len(sendings) /\ sendings[i].attached

HasPlace(rs, c) == \E i \in 1 .. Len(rs) : rs[i].id = c

\* RoutesMatch, said of every route instead of every connection.
Matched ==
  ~renested /\ ~hangs =>
    /\ \A c \in open : HasPlace(routes, c)
    /\ \A i \in 1 .. Len(routes) : routes[i].id \in open =>
         routes[i].to \notin deleted /\ routes[i].id \in known[routes[i].to]
    /\ \A i \in 1 .. Len(routes) : routes[i].id \in open \/ (isSending /\ isDirty)

WalksRight ==
  ~renested => \A i \in 1 .. Len(sendings) :
    sendings[i].attached => Exists /\ (sendings[i].at # NoRoute => HasPlace(routes, sendings[i].at))

RouteInv == RouteRight /\ IdsAreFresh /\ SentryRight /\ Matched /\ WalksRight /\ DestructorEnds

LEMMA RouteFacts ==
  ASSUME RouteRight
  PROVE  /\ routes \in Seq(RouteType) /\ DOMAIN routes = 1 .. Len(routes) /\ Len(routes) \in Nat
         /\ sendings \in Seq(Frame) /\ DOMAIN sendings = 1 .. Len(sendings) /\ Len(sendings) \in Nat
         /\ \A i \in 1 .. Len(routes) : routes[i] \in RouteType /\ routes[i].id \in 1 .. MaxRoutes
              /\ routes[i].id \in Nat /\ routes[i].id # NoRoute /\ routes[i].to \in Listeners
         /\ \A c : HasRoute(c) <=> HasPlace(routes, c)
         /\ \A c : HasRoute(c) => IndexOf(c) \in 1 .. Len(routes) /\ routes[IndexOf(c)].id = c
         /\ \A i : RouteAt(i) \in 0 .. MaxRoutes /\ (RouteAt(i) # NoRoute => HasPlace(routes, RouteAt(i)))
         /\ sendings # <<>> => Len(sendings) \in 1 .. Len(sendings) /\ Inner \in Frame
         /\ last \in Nat /\ MaxRoutes \in Nat
  <1>1. routes \in Seq(RouteType) /\ sendings \in Seq(Frame) /\ last \in Nat /\ MaxRoutes \in Nat
    BY EventSignalAssumption DEF RouteRight, RouteTypeOK, RouteType
  <1>2. DOMAIN routes = 1 .. Len(routes) /\ Len(routes) \in Nat
        /\ DOMAIN sendings = 1 .. Len(sendings) /\ Len(sendings) \in Nat
    BY <1>1
  <1>3. \A i \in 1 .. Len(routes) : routes[i] \in RouteType /\ routes[i].id \in 1 .. MaxRoutes
              /\ routes[i].id \in Nat /\ routes[i].id # NoRoute /\ routes[i].to \in Listeners
    <2> TAKE i \in 1 .. Len(routes)
    <2>1. routes[i] \in RouteType
      BY <1>1
    <2> QED
      BY <1>1, <2>1 DEF RouteType, NoRoute
  <1>4. \A c : HasRoute(c) <=> HasPlace(routes, c)
    BY <1>2 DEF HasRoute, HasPlace
  <1>5. \A c : HasRoute(c) => IndexOf(c) \in 1 .. Len(routes) /\ routes[IndexOf(c)].id = c
    BY <1>2 DEF HasRoute, IndexOf
  <1>6. \A i : RouteAt(i) \in 0 .. MaxRoutes /\ (RouteAt(i) # NoRoute => HasPlace(routes, RouteAt(i)))
    <2> TAKE i
    <2>1. CASE i \in 1 .. Len(routes)
      <3>1. RouteAt(i) = routes[i].id
        BY <1>2, <2>1 DEF RouteAt
      <3>2. HasPlace(routes, routes[i].id)
        BY <2>1 DEF HasPlace
      <3> QED
        BY <1>1, <1>3, <2>1, <3>1, <3>2
    <2>2. CASE i \notin 1 .. Len(routes)
      <3>1. RouteAt(i) = 0 /\ NoRoute = 0
        BY <1>2, <2>2 DEF RouteAt, NoRoute
      <3> QED
        BY <1>1, <3>1
    <2> QED
      BY <2>1, <2>2
  <1>7. sendings # <<>> => Len(sendings) \in 1 .. Len(sendings) /\ Inner \in Frame
    BY <1>1 DEF Inner
  <1> QED
    BY <1>1, <1>2, <1>3, <1>4, <1>5, <1>6, <1>7

\* The frames when the innermost has changed.
LEMMA TopFacts ==
  ASSUME NEW T, NEW s \in Seq(T), s # <<>>, NEW f \in T
  PROVE  LET t == Append(SubSeq(s, 1, Len(s) - 1), f)
         IN /\ t \in Seq(T) /\ Len(t) = Len(s) /\ t[Len(s)] = f
            /\ \A i \in 1 .. Len(s) : i # Len(s) => t[i] = s[i]
  <1> DEFINE u == SubSeq(s, 1, Len(s) - 1)
  <1>2. Len(s) \in Nat /\ Len(s) # 0
    OBVIOUS
  <1>3. Len(s) - 1 \in 0 .. Len(s)
    BY <1>2
  <1>4. \A m \in 0 .. Len(s) : /\ SubSeq(s, 1, m) \in Seq(T) /\ Len(SubSeq(s, 1, m)) = m
                              /\ \A i \in 1 .. m : SubSeq(s, 1, m)[i] = s[i]
    OBVIOUS
  <1>5. \A i \in 1 .. Len(s) : i # Len(s) => i \in 1 .. Len(s) - 1
    BY <1>2
  <1>1. u \in Seq(T) /\ Len(u) = Len(s) - 1 /\ \A i \in 1 .. Len(s) : i # Len(s) => u[i] = s[i]
    BY <1>3, <1>4, <1>5
  <1> HIDE DEF u
  <1> QED
    BY <1>1, <1>2

\* A send() walks on: only its frame changes.
LEMMA WalkKeeps ==
  ASSUME RouteInv, sendings # <<>>, NEW f \in Frame,
         f.attached = Inner.attached, f.pc = "loop" => f.attached,
         f.attached /\ ~renested /\ f.at # NoRoute => HasPlace(routes, f.at),
         sendings' = Append(Rest, f),
         UNCHANGED <<routes, open, known, isSending, isDirty, theSentry, deleted, last, renested, hangs>>
  PROVE  RouteInv'
  <1>1. RouteRight /\ IdsAreFresh /\ SentryRight /\ Matched /\ WalksRight /\ DestructorEnds
    BY DEF RouteInv
  <1>2. sendings \in Seq(Frame) /\ Len(sendings) \in Nat /\ Len(sendings) \in 1 .. Len(sendings)
    BY <1>1, RouteFacts
  <1>3. /\ sendings' \in Seq(Frame) /\ Len(sendings') = Len(sendings) /\ sendings'[Len(sendings)] = f
        /\ \A i \in 1 .. Len(sendings) : i # Len(sendings) => sendings'[i] = sendings[i]
    BY <1>2, TopFacts DEF Rest
  <1>4. \A i \in 1 .. Len(sendings) : sendings'[i].attached = sendings[i].attached
    BY <1>3 DEF Inner
  <1>5. RouteRight'
    BY <1>1, <1>3 DEF RouteRight, RouteTypeOK
  <1>6. IdsAreFresh' /\ Matched' /\ DestructorEnds'
    BY <1>1 DEF IdsAreFresh, Matched, DestructorEnds, Exists, OneRouteEach, HasPlace
  <1>7. SentryRight'
    BY <1>1, <1>3, <1>4 DEF SentryRight
  <1>8. WalksRight'
    <2> SUFFICES ASSUME ~renested, NEW i \in 1 .. Len(sendings), sendings'[i].attached
                 PROVE  Exists /\ (sendings'[i].at # NoRoute => HasPlace(routes, sendings'[i].at))
      BY <1>3 DEF WalksRight, Exists, HasPlace
    <2>1. Exists /\ (sendings[i].at # NoRoute => HasPlace(routes, sendings[i].at))
      BY <1>1, <1>4 DEF WalksRight
    <2>2. CASE i = Len(sendings)
      BY <1>3, <2>1, <2>2
    <2>3. CASE i # Len(sendings)
      BY <1>3, <2>1, <2>3
    <2> QED
      BY <2>2, <2>3
  <1> QED
    BY <1>5, <1>6, <1>7, <1>8 DEF RouteInv

\* The routes at some of the places.
LEMMA KeptRoutes ==
  ASSUME RouteRight, NEW places \in SUBSET (1 .. Len(routes))
  PROVE  /\ RoutesAt(places) \in Seq(RouteType)
         /\ \A i \in 1 .. Len(RoutesAt(places)) : \E k \in places : RoutesAt(places)[i] = routes[k]
         /\ \A k \in places : \E i \in 1 .. Len(RoutesAt(places)) : RoutesAt(places)[i] = routes[k]
         /\ OneRouteEach(routes) => OneRouteEach(RoutesAt(places))
  <1>1. routes \in Seq(RouteType) /\ Len(routes) \in Nat
    BY RouteFacts
  <1>2. RoutesAt(places) = Kept(routes, places)
    BY DEF RoutesAt, Kept, Count
  <1> DEFINE rs == RoutesAt(places)
             n == Cardinality(places)
  <1>3. rs \in Seq(RouteType) /\ Len(rs) = n /\ n \in Nat
    BY <1>1, <1>2, KeptFacts
  <1>4. PICK f \in [1 .. n -> places] :
              /\ \A j \in 1 .. n : rs[j] = routes[f[j]]
              /\ \A i \in places : \E j \in 1 .. n : f[j] = i
              /\ \A j, k \in 1 .. n : j < k => f[j] < f[k]
    BY <1>1, <1>2, KeptFacts
  <1> HIDE DEF n, rs
  <1>5. ASSUME OneRouteEach(routes)
        PROVE  OneRouteEach(rs)
    <2> SUFFICES ASSUME NEW i \in 1 .. n, NEW j \in 1 .. n, rs[i].id = rs[j].id
                 PROVE  i = j
      BY <1>3 DEF OneRouteEach
    <2>1. f[i] \in 1 .. Len(routes) /\ f[j] \in 1 .. Len(routes) /\ rs[i] = routes[f[i]] /\ rs[j] = routes[f[j]]
      BY <1>4
    <2>2. f[i] = f[j]
      BY <1>5, <2>1 DEF OneRouteEach
    <2>3. ~(i < j) /\ ~(j < i)
      <3>1. f[i] \in Nat /\ ~(f[i] < f[i])
        BY <1>1, <2>1
      <3> QED
        BY <1>4, <2>2, <3>1
    <2> QED
      BY <1>3, <2>3
  <1>6. (\A i \in 1 .. n : \E k \in places : rs[i] = routes[k]) /\ \A k \in places : \E i \in 1 .. n : rs[i] = routes[k]
    <2>1. \A i \in 1 .. n : f[i] \in places /\ rs[i] = routes[f[i]]
      BY <1>4
    <2>2. \A k \in places : \E i \in 1 .. n : f[i] = k
      BY <1>4
    <2>3. \A i \in 1 .. n : \E k \in places : rs[i] = routes[k]
      BY <2>1, Zenon
    <2>4. \A k \in places : \E i \in 1 .. n : rs[i] = routes[k]
      <3> TAKE k \in places
      <3>1. PICK i \in 1 .. n : f[i] = k
        BY <2>2, Zenon
      <3>2. rs[i] = routes[k]
        BY <2>1, <3>1, Zenon
      <3> QED
        BY <3>2, Zenon
    <2> QED
      BY <2>3, <2>4, Zenon
  <1> QED
    BY <1>3, <1>5, <1>6 DEF rs

\* Only the routes of the connections stays remain.
Staying(stays) == {i \in DOMAIN routes : routes[i].id \in stays}

LEMMA RoutesOf ==
  ASSUME RouteRight, IdsAreFresh, NEW stays
  PROVE  /\ RoutesAt(Staying(stays)) \in Seq(RouteType) /\ OneRouteEach(RoutesAt(Staying(stays)))
         /\ \A i \in 1 .. Len(RoutesAt(Staying(stays))) : RoutesAt(Staying(stays))[i].id \in stays
              /\ \E k \in 1 .. Len(routes) : RoutesAt(Staying(stays))[i] = routes[k]
         /\ \A c \in stays : HasPlace(routes, c) => HasPlace(RoutesAt(Staying(stays)), c)
         /\ \A c : HasPlace(RoutesAt(Staying(stays)), c) => HasPlace(routes, c) /\ c \in stays
  <1> DEFINE places == Staying(stays)
  <1>1. places = {i \in 1 .. Len(routes) : routes[i].id \in stays}
    BY RouteFacts DEF Staying
  <1>2. places \in SUBSET (1 .. Len(routes)) /\ OneRouteEach(routes)
    BY <1>1 DEF IdsAreFresh
  <1> HIDE DEF places
  <1> DEFINE rs == RoutesAt(places)
  <1>3. /\ rs \in Seq(RouteType) /\ OneRouteEach(rs)
        /\ \A i \in 1 .. Len(rs) : \E k \in places : rs[i] = routes[k]
        /\ \A k \in places : \E i \in 1 .. Len(rs) : rs[i] = routes[k]
    BY <1>2, KeptRoutes
  <1> HIDE DEF rs, places
  <1>4. \A c \in stays : HasPlace(routes, c) => HasPlace(rs, c)
    BY <1>1, <1>3, Zenon DEF HasPlace
  <1>5. \A i \in 1 .. Len(rs) : rs[i].id \in stays /\ \E k \in 1 .. Len(routes) : rs[i] = routes[k]
    BY <1>1, <1>3, Zenon
  <1>6. \A c : HasPlace(rs, c) => HasPlace(routes, c) /\ c \in stays
    BY <1>5, Zenon DEF HasPlace
  <1> QED
    BY <1>3, <1>4, <1>5, <1>6 DEF rs, places

\* Connections are closed, and receivers that had no other are deleted.
LEMMA ClosingKeeps ==
  ASSUME RouteInv, ~hangs, NEW cs, CloseRoutes(cs), NEW away \in SUBSET Listeners,
         deleted' = deleted \cup away, \A r \in away : known[r] \subseteq cs,
         UNCHANGED <<sendings, isSending, theSentry, last, renested, hangs>>
  PROVE  RouteInv'
  <1>1. RouteRight /\ IdsAreFresh /\ SentryRight /\ Matched /\ WalksRight /\ DestructorEnds
    BY DEF RouteInv
  <1>2. open' = open \ cs /\ known' = [r \in Listeners |-> known[r] \ cs]
    BY DEF CloseRoutes
  <1>3. Exists' <=> Exists
    BY EventSignalAssumption DEF Exists
  <1>4. /\ routes \in Seq(RouteType) /\ Len(routes) \in Nat
        /\ \A i \in 1 .. Len(routes) : routes[i] \in RouteType /\ routes[i].id \in 1 .. MaxRoutes
              /\ routes[i].id # NoRoute /\ routes[i].to \in Listeners
    BY <1>1, RouteFacts
  <1>5. known \in [Listeners -> SUBSET (1 .. MaxRoutes)] /\ open \subseteq 1 .. MaxRoutes /\ open \subseteq 1 .. last
    BY <1>1 DEF RouteRight, RouteTypeOK, IdsAreFresh
  <1>6. known' \in [Listeners -> SUBSET (1 .. MaxRoutes)] /\ open' \subseteq 1 .. MaxRoutes /\ open' \subseteq 1 .. last
    BY <1>2, <1>5
  <1>7. SentryRight' /\ DestructorEnds'
    BY <1>1, <1>3 DEF SentryRight, DestructorEnds
  <1>8. \A i \in 1 .. Len(routes) : ~renested /\ routes[i].id \in open' =>
          routes[i].to \notin deleted' /\ routes[i].id \in known'[routes[i].to]
    <2> TAKE i \in 1 .. Len(routes)
    <2> HAVE ~renested /\ routes[i].id \in open'
    <2>1. routes[i].id \in open /\ routes[i].id \notin cs
      BY <1>2
    <2>2. routes[i].to \notin deleted /\ routes[i].id \in known[routes[i].to] /\ routes[i].to \in Listeners
      BY <1>1, <1>4, <2>1 DEF Matched
    <2> QED
      BY <1>2, <2>1, <2>2
  <1>9. CASE isSending
    <2>1. UNCHANGED routes /\ isDirty' = (isDirty \/ cs # {})
      BY <1>9 DEF CloseRoutes
    <2>2. RouteRight'
      BY <1>1, <1>6, <1>9, <2>1 DEF RouteRight, RouteTypeOK
    <2>3. IdsAreFresh'
      BY <1>1, <1>6, <2>1 DEF IdsAreFresh
    <2>4. WalksRight'
      BY <1>1, <1>3, <2>1 DEF WalksRight
    <2>5. Matched'
      <3> SUFFICES ASSUME ~renested
                   PROVE  /\ \A c \in open' : HasPlace(routes, c)
                          /\ \A i \in 1 .. Len(routes) : routes[i].id \in open' \/ (isSending /\ isDirty')
        BY <1>8, <2>1 DEF Matched
      <3>1. /\ \A c \in open : HasPlace(routes, c)
            /\ \A i \in 1 .. Len(routes) : routes[i].id \in open \/ (isSending /\ isDirty)
        BY <1>1 DEF Matched
      <3> QED
        BY <1>2, <1>9, <2>1, <3>1
    <2> QED
      BY <1>7, <2>2, <2>3, <2>4, <2>5 DEF RouteInv
  <1>10. CASE ~isSending
    <2> DEFINE places == {i \in DOMAIN routes : routes[i].id \notin cs}
               stays == {c \in 1 .. MaxRoutes : c \notin cs}
    <2>0. routes' = RoutesAt(places) /\ UNCHANGED isDirty
      BY <1>10 DEF CloseRoutes, RoutesWithout
    <2>1. places = Staying(stays)
      BY <1>1, <1>4, RouteFacts DEF Staying
    <2> HIDE DEF places
    <2>2. /\ routes' \in Seq(RouteType) /\ OneRouteEach(routes')
          /\ \A i \in 1 .. Len(routes') : routes'[i].id \in stays
               /\ \E k \in 1 .. Len(routes) : routes'[i] = routes[k]
          /\ \A c \in stays : HasPlace(routes, c) => HasPlace(routes', c)
      <3> HIDE DEF stays
      <3>1. /\ RoutesAt(Staying(stays)) \in Seq(RouteType) /\ OneRouteEach(RoutesAt(Staying(stays)))
            /\ \A i \in 1 .. Len(RoutesAt(Staying(stays))) : RoutesAt(Staying(stays))[i].id \in stays
               /\ \E k \in 1 .. Len(routes) : RoutesAt(Staying(stays))[i] = routes[k]
            /\ \A c \in stays : HasPlace(routes, c) => HasPlace(RoutesAt(Staying(stays)), c)
        BY <1>1, RoutesOf
      <3> QED
        BY <2>0, <2>1, <3>1, Zenon
    <2>3. RouteRight'
      BY <1>1, <1>6, <1>10, <2>0, <2>2 DEF RouteRight, RouteTypeOK, RouteType
    <2>4. IdsAreFresh'
      BY <1>1, <1>6, <2>2 DEF IdsAreFresh
    <2>5. theSentry = 0 /\ ~isDirty
      BY <1>1, <1>10 DEF RouteRight, RouteTypeOK
    <2>6. ~renested => \A i \in 1 .. Len(sendings) : ~sendings[i].attached
      BY <1>1, <2>5 DEF SentryRight
    <2>7. WalksRight'
      BY <2>6 DEF WalksRight
    <2>8. Matched'
      <3> SUFFICES ASSUME ~renested
                   PROVE  /\ \A c \in open' : HasPlace(routes', c)
                          /\ \A i \in 1 .. Len(routes') : routes'[i].id \in open'
                               /\ routes'[i].to \notin deleted' /\ routes'[i].id \in known'[routes'[i].to]
        BY DEF Matched
      <3>1. /\ \A c \in open : HasPlace(routes, c)
            /\ \A i \in 1 .. Len(routes) : routes[i].id \in open
        BY <1>1, <2>5 DEF Matched
      <3>2. open' \subseteq stays
        BY <1>2, <1>5
      <3>3. \A c \in open' : HasPlace(routes', c)
        BY <1>2, <2>2, <3>1, <3>2
      <3>4. ASSUME NEW i \in 1 .. Len(routes')
            PROVE  routes'[i].id \in open' /\ routes'[i].to \notin deleted' /\ routes'[i].id \in known'[routes'[i].to]
        <4>1. PICK k \in 1 .. Len(routes) : routes'[i] = routes[k]
          BY <2>2
        <4>2. routes[k].id \in open' 
          BY <1>2, <2>2, <3>1, <4>1
        <4> QED
          BY <1>8, <4>1, <4>2
      <3> QED
        BY <3>3, <3>4
    <2> QED
      BY <1>7, <2>3, <2>4, <2>7, <2>8 DEF RouteInv
  <1> QED
    BY <1>1, <1>9, <1>10 DEF RouteRight

LEMMA CloseRouteKeeps ==
  ASSUME RouteInv, NEW c, CloseRoute(c)
  PROVE  RouteInv'
  <1>1. ~hangs /\ CloseRoutes({c})
    BY DEF CloseRoute, Running
  <1>3. deleted' = deleted \cup {} /\ {} \in SUBSET Listeners /\ \A q \in {} : known[q] \subseteq {c}
    BY DEF CloseRoute
  <1>2. UNCHANGED <<sendings, isSending, theSentry, last, renested, hangs>>
    BY DEF CloseRoute
  <1> QED
    BY <1>1, <1>2, <1>3, ClosingKeeps

LEMMA DeleteListenerKeeps ==
  ASSUME RouteInv, NEW r \in Listeners, DeleteListener(r)
  PROVE  RouteInv'
  <1>1. ~hangs /\ CloseRoutes(known[r]) /\ deleted' = deleted \cup {r}
    BY DEF DeleteListener, Running
  <1>2. UNCHANGED <<sendings, isSending, theSentry, last, renested, hangs>>
    BY DEF DeleteListener
  <1>3. {r} \in SUBSET Listeners /\ \A q \in {r} : known[q] \subseteq known[r]
    OBVIOUS
  <1> QED
    BY <1>1, <1>2, <1>3, ClosingKeeps

LEMMA RemoveRouteKeeps ==
  ASSUME RouteInv, NEW r \in Listeners, NEW key, RemoveRoute(r, key)
  PROVE  RouteInv'
  <1>1. ~hangs /\ Exists /\ UNCHANGED <<sendings, isSending, theSentry, deleted, last, renested>>
    BY DEF RemoveRoute, Running
  <1>2. \/ hangs' = hangs /\ \E cs : CloseRoutes(cs)
        \/ hangs' \in BOOLEAN /\ UNCHANGED <<open, known, routes, isDirty>>
    BY DEF RemoveRoute
  <1>3. CASE hangs' = hangs /\ \E cs : CloseRoutes(cs)
    <2>1. PICK cs : CloseRoutes(cs)
      BY <1>3
    <2>2. deleted' = deleted \cup {} /\ {} \in SUBSET Listeners /\ \A q \in {} : known[q] \subseteq cs
      BY <1>1
    <2> HIDE DEF CloseRoutes
    <2> QED
      BY <1>1, <1>3, <2>1, <2>2, ClosingKeeps
  <1>4. CASE hangs' \in BOOLEAN /\ UNCHANGED <<open, known, routes, isDirty>>
    BY <1>1, <1>4 DEF RouteInv, RouteRight, RouteTypeOK, IdsAreFresh, OneRouteEach, SentryRight, Matched, HasPlace,
       WalksRight, Exists, DestructorEnds
  <1> QED
    BY <1>2, <1>3, <1>4

LEMMA SendEventKeeps ==
  ASSUME RouteInv, NEW type \in {"type", "other"}, SendEvent(type)
  PROVE  RouteInv'
  <1> DEFINE f == [type |-> type, part |-> "all", at |-> RouteAt(1), attached |-> TRUE, pc |-> "loop", dead |-> FALSE]
             n == Len(sendings)
  <1>1. RouteRight /\ IdsAreFresh /\ SentryRight /\ Matched /\ WalksRight /\ DestructorEnds
    BY DEF RouteInv
  <1>2. /\ ~hangs /\ Exists /\ n < MaxSends /\ sendings' = Append(sendings, f)
        /\ theSentry' = n + 1 /\ isSending' = TRUE /\ isDirty' = FALSE
        /\ renested' = (renested \/ \E i \in DOMAIN sendings : sendings[i].attached)
        /\ UNCHANGED <<routes, open, known, deleted, last, hangs>>
    BY DEF SendEvent, Running
  <1>3. sendings # <<>> => sendings[n].pc = "handler"
    BY DEF SendEvent, Running, Inner
  <1>4. /\ sendings \in Seq(Frame) /\ DOMAIN sendings = 1 .. n /\ n \in Nat /\ MaxSends \in Nat
        /\ RouteAt(1) \in 0 .. MaxRoutes /\ (RouteAt(1) # NoRoute => HasPlace(routes, RouteAt(1)))
    BY <1>1, RouteFacts, EventSignalAssumption
  <1>5. f \in Frame
    BY <1>4 DEF Frame
  <1>6. f.attached = TRUE /\ f.at = RouteAt(1)
    OBVIOUS
  <1> HIDE DEF f, n
  <1>7. /\ sendings' \in Seq(Frame) /\ Len(sendings') = n + 1 /\ sendings'[n + 1] = f
        /\ \A i \in 1 .. n : sendings'[i] = sendings[i]
    BY <1>2, <1>4, <1>5 DEF n
  <1>8. \A i \in 1 .. n : sendings[i].pc # "loop"
    <2> SUFFICES ASSUME NEW i \in 1 .. n, sendings[i].pc = "loop"
                 PROVE  FALSE
      OBVIOUS
    <2>1. i = n
      BY <1>1 DEF SentryRight, n
    <2> QED
      BY <1>3, <1>4, <2>1 DEF n
  <1>9. 1 .. n + 1 = (1 .. n) \cup {n + 1} /\ n + 1 \in 1 .. n + 1 /\ n + 1 # 0 /\ n + 1 <= MaxSends
        /\ n + 1 \in 0 .. MaxSends
    BY <1>2, <1>4
  <1>10. RouteRight'
    <2>1. RouteTypeOK'
      BY <1>1, <1>2, <1>9 DEF RouteRight, RouteTypeOK
    <2>2. renested' \in BOOLEAN
      BY <1>1, <1>2 DEF RouteRight
    <2> QED
      BY <1>1, <1>2, <1>7, <1>9, <2>1, <2>2 DEF RouteRight
  <1>11. IdsAreFresh' /\ DestructorEnds'
    BY <1>1, <1>2 DEF IdsAreFresh, OneRouteEach, DestructorEnds
  <1>12. ~renested' => ~renested /\ \A i \in 1 .. n : ~sendings[i].attached
    BY <1>2, <1>4
  <1>13. SentryRight'
    <2>1. (theSentry # 0 => theSentry \in 1 .. Len(sendings) /\ sendings[theSentry].attached)'
      BY <1>2, <1>6, <1>7, <1>9
    <2>2. (~renested => \A i \in 1 .. Len(sendings) : sendings[i].attached => i = theSentry)'
      BY <1>2, <1>7, <1>9, <1>12
    <2>3. (\A i \in 1 .. Len(sendings) : sendings[i].pc = "loop" => i = Len(sendings) /\ sendings[i].attached)'
      BY <1>6, <1>7, <1>8, <1>9
    <2> QED
      BY <2>1, <2>2, <2>3 DEF SentryRight
  <1>14. Matched'
    <2> SUFFICES ASSUME ~renested'
                 PROVE  ~isSending /\ ~isDirty
      BY <1>1, <1>2, <1>12 DEF Matched
    <2>1. theSentry = 0
      BY <1>1, <1>12 DEF SentryRight, n
    <2> QED
      BY <1>1, <2>1 DEF RouteRight, RouteTypeOK
  <1>15. WalksRight'
    BY <1>1, <1>2, <1>4, <1>6, <1>7, <1>9, <1>12 DEF WalksRight, Exists
  <1> QED
    BY <1>10, <1>11, <1>13, <1>14, <1>15 DEF RouteInv

LEMMA ToTypedKeeps ==
  ASSUME RouteInv, ToTyped
  PROVE  RouteInv'
  <1> DEFINE at == IF Inner.type = "type" THEN RouteAt(Untyped(routes) + 1) ELSE NoRoute
             f == [Inner EXCEPT !.part = "type", !.at = at]
  <1>1. sendings # <<>> /\ sendings' = Append(Rest, f) /\ Inner.pc = "loop"
        /\ UNCHANGED <<routes, open, known, isSending, isDirty, theSentry, deleted, last, renested, hangs>>
    BY DEF ToTyped, Walk, Set
  <1>2. Inner \in Frame /\ Len(sendings) \in 1 .. Len(sendings)
    BY <1>1, RouteFacts DEF RouteInv
  <1>3. Inner.attached
    BY <1>1, <1>2 DEF RouteInv, SentryRight, Inner
  <1>4. at \in 0 .. MaxRoutes /\ (at # NoRoute => HasPlace(routes, at))
    BY RouteFacts DEF RouteInv, NoRoute
  <1> HIDE DEF at
  <1>5. f \in Frame /\ f.attached = Inner.attached /\ f.at = at /\ f.pc = "loop"
    BY <1>1, <1>2, <1>4 DEF Frame
  <1> HIDE DEF f
  <1> QED
    BY <1>1, <1>3, <1>4, <1>5, WalkKeeps

LEMMA PassRouteKeeps ==
  ASSUME RouteInv, PassRoute
  PROVE  RouteInv'
  <1> DEFINE at == RouteAt(IndexOf(Inner.at) + 1)
             f == [Inner EXCEPT !.at = at]
  <1>1. sendings # <<>> /\ sendings' = Append(Rest, f) /\ Inner.pc = "loop"
        /\ UNCHANGED <<routes, open, known, isSending, isDirty, theSentry, deleted, last, renested, hangs>>
    BY DEF PassRoute, Walk, Set
  <1>2. Inner \in Frame /\ Len(sendings) \in 1 .. Len(sendings)
    BY <1>1, RouteFacts DEF RouteInv
  <1>3. Inner.attached
    BY <1>1, <1>2 DEF RouteInv, SentryRight, Inner
  <1>4. at \in 0 .. MaxRoutes /\ (at # NoRoute => HasPlace(routes, at))
    BY RouteFacts DEF RouteInv
  <1> HIDE DEF at
  <1>5. f \in Frame /\ f.attached = Inner.attached /\ f.at = at /\ f.pc = "loop"
    BY <1>1, <1>2, <1>4 DEF Frame
  <1> HIDE DEF f
  <1> QED
    BY <1>1, <1>3, <1>4, <1>5, WalkKeeps

LEMMA RouteKeeps ==
  ASSUME RouteInv, Route
  PROVE  RouteInv'
  <1> DEFINE d == Inner.at \notin open
             f == [Inner EXCEPT !.pc = "handler", !.dead = d]
  <1>1. sendings # <<>> /\ sendings' = Append(Rest, f) /\ HasRoute(Inner.at)
        /\ UNCHANGED <<routes, open, known, isSending, isDirty, theSentry, deleted, last, renested, hangs>>
    BY DEF Route, Walk, Set
  <1>2. Inner \in Frame /\ HasPlace(routes, Inner.at)
    BY <1>1, RouteFacts DEF RouteInv
  <1>3. d \in BOOLEAN
    OBVIOUS
  <1> HIDE DEF d
  <1>4. f \in Frame /\ f.attached = Inner.attached /\ f.at = Inner.at /\ f.pc = "handler"
    BY <1>2, <1>3 DEF Frame
  <1> HIDE DEF f
  <1> QED
    BY <1>1, <1>2, <1>4, WalkKeeps

\* The frames below the innermost.
LEMMA RestFacts ==
  ASSUME RouteRight, sendings # <<>>
  PROVE  /\ Rest \in Seq(Frame) /\ Len(Rest) = Len(sendings) - 1 /\ Len(sendings) \in Nat \ {0}
         /\ 1 .. Len(sendings) = (1 .. Len(Rest)) \cup {Len(sendings)} /\ Len(sendings) \notin 1 .. Len(Rest)
         /\ \A i \in 1 .. Len(Rest) : Rest[i] = sendings[i]
  <1>1. sendings \in Seq(Frame)
    BY RouteFacts
  <1>2. Len(sendings) \in Nat /\ Len(sendings) # 0
    BY <1>1
  <1>3. Len(sendings) - 1 \in 0 .. Len(sendings)
    BY <1>2
  <1>4. \A m \in 0 .. Len(sendings) : /\ SubSeq(sendings, 1, m) \in Seq(Frame) /\ Len(SubSeq(sendings, 1, m)) = m
                                     /\ \A i \in 1 .. m : SubSeq(sendings, 1, m)[i] = sendings[i]
    BY <1>1
  <1>5. Rest \in Seq(Frame) /\ Len(Rest) = Len(sendings) - 1 /\ \A i \in 1 .. Len(Rest) : Rest[i] = sendings[i]
    BY <1>3, <1>4 DEF Rest
  <1> HIDE DEF Rest
  <1> QED
    BY <1>2, <1>5

LEMMA RouteReturnedKeeps ==
  ASSUME RouteInv, RouteReturned
  PROVE  RouteInv'
  <1>1. RouteRight /\ IdsAreFresh /\ SentryRight /\ Matched /\ WalksRight /\ DestructorEnds
    BY DEF RouteInv
  <1>2. sendings # <<>> /\ Inner.pc = "handler"
        /\ UNCHANGED <<routes, open, known, isSending, isDirty, theSentry, deleted, last, renested, hangs>>
    BY DEF RouteReturned
  <1>3. Inner \in Frame /\ Len(sendings) \in 1 .. Len(sendings) /\ Inner = sendings[Len(sendings)]
    BY <1>1, <1>2, RouteFacts DEF Inner
  <1>4. CASE ~Inner.attached /\ Inner.part = "all" /\ sendings' = Rest
    <2>1. /\ Rest \in Seq(Frame) /\ Len(Rest) = Len(sendings) - 1 /\ Len(sendings) \in Nat \ {0}
          /\ 1 .. Len(sendings) = (1 .. Len(Rest)) \cup {Len(sendings)} /\ Len(sendings) \notin 1 .. Len(Rest)
          /\ \A i \in 1 .. Len(Rest) : Rest[i] = sendings[i]
      BY <1>1, <1>2, RestFacts
    <2>2. RouteRight'
      <3> HIDE DEF Rest
      <3>1. RouteTypeOK'
        BY <1>1, <1>2 DEF RouteRight, RouteTypeOK
      <3>2. MaxSends \in Nat /\ Len(sendings) <= MaxSends
        BY <1>1, EventSignalAssumption DEF RouteRight
      <3>3. Len(Rest) <= MaxSends
        BY <2>1, <3>2
      <3> QED
        BY <1>1, <1>2, <1>4, <2>1, <3>1, <3>3 DEF RouteRight
    <2>3. IdsAreFresh' /\ Matched' /\ DestructorEnds'
      BY <1>1, <1>2 DEF IdsAreFresh, OneRouteEach, Matched, HasPlace, DestructorEnds, Exists
    <2>4. theSentry # Len(sendings) \/ theSentry = 0
      BY <1>1, <1>3, <1>4 DEF SentryRight
    <2>5. \A i \in 1 .. Len(Rest) : i \in 1 .. Len(sendings) /\ i # Len(sendings)
      BY <2>1
    <2>6. \A i \in 1 .. Len(Rest) : sendings[i].pc # "loop"
      BY <1>1, <2>5 DEF SentryRight
    <2>7. SentryRight'
      <3> HIDE DEF Rest
      <3>1. (theSentry # 0 => theSentry \in 1 .. Len(sendings) /\ sendings[theSentry].attached)'
        BY <1>1, <1>2, <1>4, <2>1, <2>4 DEF SentryRight
      <3>2. (~renested => \A i \in 1 .. Len(sendings) : sendings[i].attached => i = theSentry)'
        BY <1>1, <1>2, <1>4, <2>1, <2>5 DEF SentryRight
      <3>3. (\A i \in 1 .. Len(sendings) : sendings[i].pc = "loop" => i = Len(sendings) /\ sendings[i].attached)'
        BY <1>4, <2>1, <2>6
      <3> QED
        BY <3>1, <3>2, <3>3 DEF SentryRight
    <2>8. WalksRight'
      BY <1>1, <1>2, <1>4, <2>1, <2>5 DEF WalksRight, Exists, HasPlace
    <2> QED
      BY <2>2, <2>3, <2>7, <2>8 DEF RouteInv
  <1>5. CASE ~(~Inner.attached /\ Inner.part = "all" /\ sendings' = Rest)
    <2> DEFINE at == RouteAt(IndexOf(Inner.at) + 1)
               f == [Inner EXCEPT !.pc = "loop", !.dead = FALSE, !.at = at]
    <2>1. Inner.attached /\ sendings' = Append(Rest, f)
      BY <1>5 DEF RouteReturned, Set
    <2>2. at \in 0 .. MaxRoutes /\ (at # NoRoute => HasPlace(routes, at))
      BY <1>1, RouteFacts
    <2> HIDE DEF at
    <2>3. f \in Frame /\ f.attached = Inner.attached /\ f.at = at
      BY <1>3, <2>2 DEF Frame
    <2> HIDE DEF f
    <2> QED
      BY <1>2, <2>1, <2>2, <2>3, WalkKeeps
  <1> QED
    BY <1>4, <1>5

\* The routes after the closed ones are erased, when there may be some.
LEMMA SweptRoutesFacts ==
  ASSUME RouteRight, IdsAreFresh, Matched
  PROVE  /\ SweptRoutes \in Seq(RouteType) /\ OneRouteEach(SweptRoutes)
         /\ \A i \in 1 .. Len(SweptRoutes) : \E k \in 1 .. Len(routes) : SweptRoutes[i] = routes[k]
         /\ ~renested /\ ~hangs =>
              /\ \A i \in 1 .. Len(SweptRoutes) : SweptRoutes[i].id \in open
              /\ \A c \in open : HasPlace(SweptRoutes, c)
  <1>1. CASE isDirty
    <2>1. SweptRoutes = RoutesAt(Staying(open))
      BY <1>1 DEF SweptRoutes, Staying
    <2>2. /\ RoutesAt(Staying(open)) \in Seq(RouteType) /\ OneRouteEach(RoutesAt(Staying(open)))
          /\ \A i \in 1 .. Len(RoutesAt(Staying(open))) : RoutesAt(Staying(open))[i].id \in open
               /\ \E k \in 1 .. Len(routes) : RoutesAt(Staying(open))[i] = routes[k]
          /\ \A c \in open : HasPlace(routes, c) => HasPlace(RoutesAt(Staying(open)), c)
      BY RoutesOf
    <2> QED
      BY <2>1, <2>2 DEF Matched
  <1>2. CASE ~isDirty
    <2>1. SweptRoutes = routes
      BY <1>2 DEF SweptRoutes
    <2>2. routes \in Seq(RouteType) /\ OneRouteEach(routes)
      BY RouteFacts DEF IdsAreFresh
    <2> QED
      BY <1>2, <2>1, <2>2 DEF Matched
  <1> QED
    BY <1>1, <1>2

LEMMA RoutingEndsKeeps ==
  ASSUME RouteInv, RoutingEnds
  PROVE  RouteInv'
  <1>1. RouteRight /\ IdsAreFresh /\ SentryRight /\ Matched /\ WalksRight /\ DestructorEnds
    BY DEF RouteInv
  <1>2. /\ ~hangs /\ sendings # <<>> /\ sendings[Len(sendings)].pc = "loop" /\ sendings' = Rest
        /\ routes' = SweptRoutes /\ isSending' = FALSE /\ isDirty' = FALSE /\ theSentry' = 0
        /\ UNCHANGED <<open, known, deleted, last, renested, hangs>>
    BY DEF RoutingEnds, Walk, Inner
  <1>3. /\ Rest \in Seq(Frame) /\ Len(Rest) = Len(sendings) - 1 /\ Len(sendings) \in Nat \ {0}
        /\ 1 .. Len(sendings) = (1 .. Len(Rest)) \cup {Len(sendings)} /\ Len(sendings) \notin 1 .. Len(Rest)
        /\ \A i \in 1 .. Len(Rest) : Rest[i] = sendings[i]
    BY <1>1, <1>2, RestFacts
  <1> HIDE DEF Rest
  <1>4. /\ routes' \in Seq(RouteType) /\ OneRouteEach(routes')
        /\ \A i \in 1 .. Len(routes') : \E k \in 1 .. Len(routes) : routes'[i] = routes[k]
        /\ ~renested /\ ~hangs =>
              /\ \A i \in 1 .. Len(routes') : routes'[i].id \in open
              /\ \A c \in open : HasPlace(routes', c)
    BY <1>1, <1>2, SweptRoutesFacts
  <1>5. \A i \in 1 .. Len(Rest) : i \in 1 .. Len(sendings) /\ i # Len(sendings)
    BY <1>3
  <1>6. ~renested => \A i \in 1 .. Len(Rest) : ~sendings[i].attached
    <2>1. sendings[Len(sendings)].attached
      BY <1>1, <1>2, <1>3 DEF SentryRight
    <2> QED
      BY <1>1, <1>3, <1>5, <2>1 DEF SentryRight
  <1>7. \A i \in 1 .. Len(Rest) : sendings[i].pc # "loop"
    BY <1>1, <1>5 DEF SentryRight
  <1>8. RouteRight'
    <2>1. 0 \in 0 .. MaxSends
      BY EventSignalAssumption
    <2>2. RouteTypeOK'
      BY <1>1, <1>2, <1>4, <2>1 DEF RouteRight, RouteTypeOK, RouteType
    <2>3. MaxSends \in Nat /\ Len(sendings) <= MaxSends
      BY <1>1, EventSignalAssumption DEF RouteRight
    <2>4. Len(Rest) <= MaxSends
      BY <1>3, <2>3
    <2> QED
      BY <1>1, <1>2, <1>3, <2>2, <2>4 DEF RouteRight
  <1>9. IdsAreFresh' /\ DestructorEnds'
    BY <1>1, <1>2, <1>4 DEF IdsAreFresh, DestructorEnds
  <1>10. SentryRight' /\ WalksRight'
    BY <1>2, <1>3, <1>6, <1>7 DEF SentryRight, WalksRight
  <1>11. Matched'
    BY <1>1, <1>2, <1>4 DEF Matched
  <1> QED
    BY <1>8, <1>9, <1>10, <1>11 DEF RouteInv

LEMMA DeleteEventSignalKeeps ==
  ASSUME RouteInv, DeleteEventSignal
  PROVE  RouteInv'
  <1> DEFINE rs == IF theSentry = 0 THEN routes ELSE SweptRoutes
             ids == {rs[i].id : i \in DOMAIN rs}
  <1>1. RouteRight /\ IdsAreFresh /\ SentryRight /\ Matched /\ WalksRight /\ DestructorEnds
    BY DEF RouteInv
  <1>2. /\ ~hangs /\ (sendings # <<>> => sendings[Len(sendings)].pc = "handler")
        /\ hangs' = (ids \ open # {})
        /\ open' = open \ ids /\ known' = [r \in Listeners |-> known[r] \ ids]
        /\ routes' = <<>> /\ isSending' = FALSE /\ isDirty' = FALSE /\ theSentry' = 0
        /\ UNCHANGED <<last, renested>>
    BY DEF DeleteEventSignal, Running, Inner
  <1>3. sendings' = [i \in 1 .. Len(sendings) |->
          IF i = theSentry THEN [sendings[i] EXCEPT !.attached = FALSE] ELSE sendings[i]]
    BY <1>1, RouteFacts DEF DeleteEventSignal
  <1>4. sendings \in Seq(Frame) /\ Len(sendings) \in Nat /\ routes \in Seq(RouteType) /\ DOMAIN routes = 1 .. Len(routes)
    BY <1>1, RouteFacts
  <1>5. ~renested => ids = open
    <2> SUFFICES ASSUME ~renested
                 PROVE  ids = open
      OBVIOUS
    <2>1. rs \in Seq(RouteType) /\ (\A i \in 1 .. Len(rs) : rs[i].id \in open) /\ \A c \in open : HasPlace(rs, c)
      <3>1. CASE theSentry = 0
        <4>1. ~isSending
          BY <1>1, <3>1 DEF RouteRight, RouteTypeOK
        <4> QED
          BY <1>1, <1>2, <1>4, <3>1, <4>1 DEF Matched
      <3>2. CASE theSentry # 0
        BY <1>1, <1>2, <3>2, SweptRoutesFacts
      <3> QED
        BY <3>1, <3>2
    <2> HIDE DEF rs
    <2>2. DOMAIN rs = 1 .. Len(rs)
      BY <2>1
    <2> QED
      BY <2>1, <2>2 DEF HasPlace
  <1> HIDE DEF ids, rs
  <1>6. hangs' \in BOOLEAN /\ (~renested => ~hangs' /\ open' = {})
    BY <1>2, <1>5
  <1>7. ASSUME NEW i \in 1 .. Len(sendings)
        PROVE  sendings'[i] \in Frame /\ sendings'[i].pc = "handler" /\ (~renested => ~sendings'[i].attached)
    <2>1. sendings[i] \in Frame
      BY <1>4
    <2>2. sendings[i].pc = "handler"
      <3>1. sendings[i].pc # "loop"
        BY <1>1, <1>2, <1>4 DEF SentryRight
      <3> QED
        BY <2>1, <3>1 DEF Frame
    <2>3. CASE i = theSentry
      <3>1. sendings'[i] = [sendings[i] EXCEPT !.attached = FALSE]
        BY <1>3, <2>3
      <3> QED
        BY <2>1, <2>2, <3>1 DEF Frame
    <2>4. CASE i # theSentry
      <3>1. sendings'[i] = sendings[i]
        BY <1>3, <2>4
      <3> QED
        BY <1>1, <2>1, <2>2, <2>4, <3>1 DEF SentryRight
    <2> QED
      BY <2>3, <2>4
  <1>8. sendings' \in Seq(Frame) /\ Len(sendings') = Len(sendings)
    <2>1. sendings' \in [1 .. Len(sendings) -> Frame]
      BY <1>3, <1>7
    <2> QED
      BY <1>3, <1>4, <2>1
  <1>9. RouteRight'
    <2>1. 0 \in 0 .. MaxSends /\ <<>> \in Seq(RouteType)
      BY EventSignalAssumption
    <2>2. RouteTypeOK'
      BY <1>1, <1>2, <2>1 DEF RouteRight, RouteTypeOK, RouteType
    <2> QED
      BY <1>1, <1>2, <1>6, <1>8, <2>2 DEF RouteRight
  <1>10. IdsAreFresh'
    <2>1. Len(routes') = 0 /\ 1 .. 0 = {}
      BY <1>2
    <2>2. open' \subseteq 1 .. last
      BY <1>1, <1>2 DEF IdsAreFresh
    <2> HIDE DEF ids
    <2> QED
      BY <1>2, <2>1, <2>2 DEF IdsAreFresh, OneRouteEach
  <1>11. SentryRight' /\ WalksRight'
    BY <1>2, <1>7, <1>8 DEF SentryRight, WalksRight
  <1>12. Matched' /\ DestructorEnds'
    BY <1>2, <1>6 DEF Matched, DestructorEnds
  <1> QED
    BY <1>9, <1>10, <1>11, <1>12 DEF RouteInv

\* A new element behind the first p.
WithRoute(s, p, e) == SubSeq(s, 1, p) \o <<e>> \o SubSeq(s, p + 1, Len(s))

LEMMA WithRouteFacts ==
  ASSUME NEW s \in Seq(RouteType), NEW e \in RouteType, NEW p \in 0 .. Len(s)
  PROVE  /\ WithRoute(s, p, e) \in Seq(RouteType) /\ Len(WithRoute(s, p, e)) = Len(s) + 1 /\ WithRoute(s, p, e)[p + 1] = e
         /\ \A i \in 1 .. p : WithRoute(s, p, e)[i] = s[i]
         /\ \A i \in 1 .. Len(s) : p < i => WithRoute(s, p, e)[i + 1] = s[i]
  <1> DEFINE u == SubSeq(s, 1, p)
             w == SubSeq(s, p + 1, Len(s))
             v == u \o <<e>>
  <1>1. Len(s) \in Nat /\ p \in Nat /\ p <= Len(s)
    OBVIOUS
  <1>2. u \in Seq(RouteType) /\ Len(u) = p /\ \A i \in 1 .. p : u[i] = s[i]
    BY <1>1
  <1>3. w \in Seq(RouteType) /\ Len(w) = Len(s) - p /\ \A i \in 1 .. Len(s) - p : w[i] = s[p + i]
    BY <1>1
  <1> HIDE DEF u, w
  <1>4. v \in Seq(RouteType) /\ Len(v) = p + 1 /\ v[p + 1] = e /\ \A i \in 1 .. p : v[i] = s[i]
    BY <1>1, <1>2
  <1> HIDE DEF v
  <1>5. /\ v \o w \in Seq(RouteType) /\ Len(v \o w) = Len(v) + Len(w)
        /\ \A i \in 1 .. Len(v) : (v \o w)[i] = v[i]
        /\ \A i \in 1 .. Len(w) : (v \o w)[Len(v) + i] = w[i]
    <2>1. \A x, y \in Seq(RouteType) :
            /\ x \o y \in Seq(RouteType) /\ Len(x \o y) = Len(x) + Len(y)
            /\ \A i \in 1 .. Len(x) : (x \o y)[i] = x[i]
            /\ \A i \in 1 .. Len(y) : (x \o y)[Len(x) + i] = y[i]
      OBVIOUS
    <2>2. v \in Seq(RouteType) /\ w \in Seq(RouteType)
      BY <1>3, <1>4
    <2> QED
      BY <2>1, <2>2, Zenon
  <1>6. Len(v \o w) = Len(s) + 1
    BY <1>1, <1>3, <1>4, <1>5
  <1>7. \A i \in 1 .. p : (v \o w)[i] = s[i]
    BY <1>1, <1>4, <1>5
  <1>8. (v \o w)[p + 1] = e
    BY <1>1, <1>4, <1>5
  <1>9. ASSUME NEW i \in 1 .. Len(s), p < i
        PROVE  (v \o w)[i + 1] = s[i]
    <2> DEFINE k == i - p
    <2>1. k \in 1 .. Len(s) - p /\ i + 1 = (p + 1) + k /\ p + k = i
      BY <1>1, <1>9
    <2> HIDE DEF k
    <2>2. (v \o w)[Len(v) + k] = w[k] /\ w[k] = s[p + k]
      BY <1>3, <1>5, <2>1
    <2> QED
      BY <1>4, <2>1, <2>2
  <1> QED
    BY <1>5, <1>6, <1>7, <1>8, <1>9 DEF u, v, w, WithRoute

LEMMA AddRouteKeeps ==
  ASSUME RouteInv, NEW r \in Listeners, NEW key \in {"all", "type"}, AddRoute(r, key)
  PROVE  RouteInv'
  <1> DEFINE p == IF key = "all" THEN Untyped(routes) ELSE Len(routes)
             c == last + 1
             e == [id |-> c, key |-> key, to |-> r]
  <1>1. RouteRight /\ IdsAreFresh /\ SentryRight /\ Matched /\ WalksRight /\ DestructorEnds
    BY DEF RouteInv
  <1>2. /\ ~hangs /\ Exists /\ r \notin deleted /\ last < MaxRoutes
        /\ last' = c /\ open' = open \cup {c}
        /\ known' = [known EXCEPT ![r] = @ \cup {c}]
        /\ routes' = SubSeq(routes, 1, p) \o <<e>> \o SubSeq(routes, p + 1, Len(routes))
        /\ UNCHANGED <<sendings, isSending, isDirty, theSentry, deleted, renested, hangs>>
    BY Zenon DEF AddRoute, Running
  <1>3. /\ routes \in Seq(RouteType) /\ DOMAIN routes = 1 .. Len(routes) /\ Len(routes) \in Nat
        /\ last \in Nat /\ MaxRoutes \in Nat
    BY <1>1, RouteFacts
  <1>4. p \in 0 .. Len(routes)
    <2>1. Untyped(routes) \in 0 .. Len(routes)
      <3> DEFINE U == {i \in 1 .. Len(routes) : routes[i].key = "all"}
      <3>1. U \in SUBSET (1 .. Len(routes)) /\ Untyped(routes) = Cardinality(U)
        BY <1>3 DEF Untyped
      <3> HIDE DEF U
      <3>2. IsFiniteSet(1 .. Len(routes)) /\ Cardinality(1 .. Len(routes)) = Len(routes)
        BY <1>3, FS_Interval
      <3>3. IsFiniteSet(U) /\ Cardinality(U) <= Len(routes)
        <4>1. IsFiniteSet(U) /\ Cardinality(U) <= Cardinality(1 .. Len(routes))
          BY <3>1, <3>2, FS_Subset
        <4> QED
          BY <3>2, <4>1
      <3> QED
        BY <1>3, <3>1, <3>3, FS_CardinalityType
    <2> QED
      BY <1>3, <2>1
  <1>5. c \in 1 .. MaxRoutes /\ c \in Nat /\ c # 0 /\ c \in 0 .. MaxRoutes /\ (\A k \in 1 .. last : k # c /\ k \in 1 .. c)
        /\ \A k \in Nat : k <= last => k # c /\ k <= c
    BY <1>2, <1>3
  <1>6. e \in RouteType /\ e.id = c /\ e.to = r
    BY <1>5 DEF RouteType
  <1> HIDE DEF p, e, c
  <1>7. /\ routes' \in Seq(RouteType) /\ Len(routes') = Len(routes) + 1 /\ routes'[p + 1] = e
        /\ \A i \in 1 .. p : routes'[i] = routes[i]
        /\ \A i \in 1 .. Len(routes) : p < i => routes'[i + 1] = routes[i]
    <2> DEFINE t == WithRoute(routes, p, e)
    <2>1. /\ t \in Seq(RouteType) /\ Len(t) = Len(routes) + 1 /\ t[p + 1] = e
          /\ \A i \in 1 .. p : t[i] = routes[i]
          /\ \A i \in 1 .. Len(routes) : p < i => t[i + 1] = routes[i]
      <3> HIDE DEF t
      <3>1. \A s \in Seq(RouteType), x \in RouteType : \A q \in 0 .. Len(s) :
              /\ WithRoute(s, q, x) \in Seq(RouteType) /\ Len(WithRoute(s, q, x)) = Len(s) + 1
              /\ WithRoute(s, q, x)[q + 1] = x
              /\ \A i \in 1 .. q : WithRoute(s, q, x)[i] = s[i]
              /\ \A i \in 1 .. Len(s) : q < i => WithRoute(s, q, x)[i + 1] = s[i]
        BY WithRouteFacts
      <3>2. routes \in Seq(RouteType) /\ e \in RouteType /\ p \in 0 .. Len(routes)
        BY <1>3, <1>4, <1>6
      <3> QED
        BY <3>1, <3>2, Zenon DEF t
    <2>2. routes' = t
      BY <1>2, Zenon DEF WithRoute
    <2> HIDE DEF t
    <2> QED
      BY <2>1, <2>2, Zenon
  \* Where an old or the new route is now.
  <1>8. \A i \in 1 .. Len(routes) : (IF i <= p THEN i ELSE i + 1) \in 1 .. Len(routes')
           /\ routes'[IF i <= p THEN i ELSE i + 1] = routes[i]
    <2> TAKE i \in 1 .. Len(routes)
    <2>1. i \in Nat /\ p \in Nat
      BY <1>4
    <2>2. CASE i <= p
      BY <1>3, <1>7, <2>1, <2>2
    <2>3. CASE ~(i <= p)
      BY <1>3, <1>7, <2>1, <2>3
    <2> QED
      BY <2>2, <2>3
  <1>9. \A i \in 1 .. Len(routes') : i = p + 1
          \/ \E k \in 1 .. Len(routes) : routes'[i] = routes[k] /\ i = IF k <= p THEN k ELSE k + 1
    <2> TAKE i \in 1 .. Len(routes')
    <2>1. i \in Nat /\ p \in Nat /\ p <= Len(routes) /\ i <= Len(routes) + 1 /\ 1 <= i
      BY <1>3, <1>4, <1>7
    <2>2. CASE i <= p
      <3>1. i \in 1 .. Len(routes) /\ i \in 1 .. p
        BY <1>3, <2>1, <2>2
      <3> QED
        BY <1>7, <2>2, <3>1
    <2>3. CASE p + 1 < i
      <3>1. i - 1 \in 1 .. Len(routes) /\ p < i - 1 /\ (i - 1) + 1 = i /\ ~(i - 1 <= p)
        BY <1>3, <2>1, <2>3
      <3> QED
        BY <1>7, <3>1
    <2> QED
      BY <2>1, <2>2, <2>3
  <1>10. p + 1 \in 1 .. Len(routes')
    BY <1>3, <1>4, <1>7
  <1>11. \A i \in 1 .. Len(routes') : (i = p + 1 /\ routes'[i] = e) \/ \E k \in 1 .. Len(routes) : routes'[i] = routes[k]
    BY <1>7, <1>9
  <1>12. \A i \in 1 .. Len(routes) : routes[i] \in RouteType /\ routes[i].id \in Nat /\ routes[i].id <= last
           /\ routes[i].id # c /\ routes[i].to \in Listeners
    <2> TAKE i \in 1 .. Len(routes)
    <2>1. routes[i] \in RouteType /\ routes[i].id \in Nat /\ routes[i].id <= last /\ routes[i].to \in Listeners
      BY <1>1, RouteFacts DEF IdsAreFresh
    <2> QED
      BY <1>5, <2>1
  <1>13. known \in [Listeners -> SUBSET (1 .. MaxRoutes)] /\ open \subseteq 1 .. MaxRoutes /\ open \subseteq 1 .. last
         /\ theSentry \in 0 .. MaxSends /\ (isDirty => isSending) /\ (isSending <=> theSentry # 0)
    BY <1>1 DEF RouteRight, RouteTypeOK, IdsAreFresh
  <1>14. known' \in [Listeners -> SUBSET (1 .. MaxRoutes)] /\ c \in known'[r]
         /\ \A q \in Listeners : known[q] \subseteq known'[q]
    BY <1>2, <1>5, <1>13
  <1>15. RouteRight'
    <2>1. RouteTypeOK'
      BY <1>2, <1>5, <1>7, <1>13, <1>14 DEF RouteTypeOK, RouteType
    <2> QED
      BY <1>1, <1>2, <2>1 DEF RouteRight
  <1>16. OneRouteEach(routes')
    <2> SUFFICES ASSUME NEW i \in 1 .. Len(routes'), NEW j \in 1 .. Len(routes'), routes'[i].id = routes'[j].id
                 PROVE  i = j
      BY DEF OneRouteEach
    <2>1. CASE i = p + 1 \/ j = p + 1
      <3>1. routes'[i].id = c /\ routes'[j].id = c
        BY <1>6, <1>7, <2>1
      <3> QED
        BY <1>9, <1>12, <3>1
    <2>2. CASE i # p + 1 /\ j # p + 1
      <3>1. PICK k \in 1 .. Len(routes) : routes'[i] = routes[k] /\ i = IF k <= p THEN k ELSE k + 1
        BY <1>9, <2>2
      <3>2. PICK m \in 1 .. Len(routes) : routes'[j] = routes[m] /\ j = IF m <= p THEN m ELSE m + 1
        BY <1>9, <2>2
      <3>3. k = m
        BY <1>1, <3>1, <3>2 DEF IdsAreFresh, OneRouteEach
      <3> QED
        BY <3>1, <3>2, <3>3
    <2> QED
      BY <2>1, <2>2
  <1>17. IdsAreFresh'
    <2>1. open' \subseteq 1 .. last'
      BY <1>2, <1>5, <1>13
    <2>2. \A i \in 1 .. Len(routes') : routes'[i].id <= last'
      <3> TAKE i \in 1 .. Len(routes')
      <3>1. CASE routes'[i] = e
        <4>1. routes'[i].id = c /\ last' = c
          BY <1>2, <1>6, <3>1, Zenon
        <4>2. c <= c
          BY <1>5
        <4> QED
          BY <4>1, <4>2, Zenon
      <3>2. ASSUME NEW k \in 1 .. Len(routes), routes'[i] = routes[k]
            PROVE  routes'[i].id <= last'
        BY <1>2, <1>5, <1>12, <3>2
      <3> QED
        BY <1>11, <3>1, <3>2
    <2> QED
      BY <1>16, <2>1, <2>2 DEF IdsAreFresh
  <1>18. \A x : HasPlace(routes, x) => HasPlace(routes', x)
    BY <1>8, Zenon DEF HasPlace
  <1>19. HasPlace(routes', c)
    BY <1>6, <1>7, <1>10 DEF HasPlace
  <1>20. SentryRight' /\ DestructorEnds' /\ WalksRight'
    BY <1>1, <1>2, <1>18 DEF SentryRight, DestructorEnds, WalksRight, Exists
  <1>21. Matched'
    <2> SUFFICES ASSUME ~renested
                 PROVE  /\ \A x \in open' : HasPlace(routes', x)
                        /\ \A i \in 1 .. Len(routes') : routes'[i].id \in open' =>
                             routes'[i].to \notin deleted /\ routes'[i].id \in known'[routes'[i].to]
                        /\ \A i \in 1 .. Len(routes') : routes'[i].id \in open' \/ (isSending /\ isDirty)
      BY <1>2 DEF Matched
    <2>1. /\ \A x \in open : HasPlace(routes, x)
          /\ \A i \in 1 .. Len(routes) : routes[i].id \in open =>
               routes[i].to \notin deleted /\ routes[i].id \in known[routes[i].to]
          /\ \A i \in 1 .. Len(routes) : routes[i].id \in open \/ (isSending /\ isDirty)
      BY <1>1, <1>2 DEF Matched
    <2>2. \A x \in open' : HasPlace(routes', x)
      BY <1>2, <1>18, <1>19, <2>1
    <2>3. ASSUME NEW i \in 1 .. Len(routes')
          PROVE  /\ routes'[i].id \in open' => routes'[i].to \notin deleted /\ routes'[i].id \in known'[routes'[i].to]
                 /\ routes'[i].id \in open' \/ (isSending /\ isDirty)
      <3>1. CASE routes'[i] = e
        BY <1>2, <1>6, <1>14, <3>1
      <3>2. ASSUME NEW k \in 1 .. Len(routes), routes'[i] = routes[k]
            PROVE  /\ routes'[i].id \in open' => routes'[i].to \notin deleted /\ routes'[i].id \in known'[routes'[i].to]
                   /\ routes'[i].id \in open' \/ (isSending /\ isDirty)
        BY <1>2, <1>12, <1>14, <2>1, <3>2
      <3> QED
        BY <1>11, <3>1, <3>2
    <2> QED
      BY <2>2, <2>3
  <1> QED
    BY <1>15, <1>17, <1>20, <1>21 DEF RouteInv

LEMMA RouteStarts ==
  ASSUME RouteInit
  PROVE  RouteInv
  <1>1. Len(<<>>) = 0 /\ <<>> \in Seq(RouteType) /\ <<>> \in Seq(Frame) /\ 1 .. 0 = {} /\ 0 \in 0 .. MaxSends
        /\ 0 \in 0 .. MaxRoutes /\ 0 <= MaxSends
    BY EventSignalAssumption
  <1>2. known \in [Listeners -> SUBSET (1 .. MaxRoutes)]
    BY DEF RouteInit
  <1> QED
    BY <1>1, <1>2 DEF RouteInit, RouteInv, RouteRight, RouteTypeOK, RouteType, IdsAreFresh, OneRouteEach, SentryRight,
       Matched, WalksRight, DestructorEnds

LEMMA RouteStutters ==
  ASSUME RouteInv, UNCHANGED routeVars
  PROVE  RouteInv'
  BY DEF routeVars, RouteInv, RouteRight, RouteTypeOK, IdsAreFresh, OneRouteEach, SentryRight, Matched, HasPlace,
     WalksRight, Exists, DestructorEnds

LEMMA RouteKept ==
  ASSUME RouteInv, [RouteNext]_routeVars
  PROVE  RouteInv'
  <1>1. CASE UNCHANGED routeVars
    BY <1>1, RouteStutters
  <1>2. CASE RouteNext
    BY <1>2, DeleteEventSignalKeeps, ToTypedKeeps, PassRouteKeeps, RouteKeeps, RouteReturnedKeeps, RoutingEndsKeeps,
       SendEventKeeps, CloseRouteKeeps, DeleteListenerKeeps, AddRouteKeeps, RemoveRouteKeeps, Zenon DEF RouteNext
  <1> QED
    BY <1>1, <1>2

\* The connections and their routes belong together, a walk stands on a route
\* that exists, and ~Signal() ends, as long as it is not sent while sending.
LEMMA RouteInvSound ==
  ASSUME RouteInv
  PROVE  RoutesSound
  <1>1. RouteRight /\ IdsAreFresh /\ SentryRight /\ Matched /\ WalksRight /\ DestructorEnds
    BY DEF RouteInv
  <1>2. DOMAIN routes = 1 .. Len(routes) /\ DOMAIN sendings = 1 .. Len(sendings)
        /\ \A c : HasRoute(c) <=> HasPlace(routes, c)
    BY <1>1, RouteFacts
  <1>3. \A c : HasRoute(c) => IndexOf(c) \in 1 .. Len(routes) /\ routes[IndexOf(c)].id = c
    BY <1>1, RouteFacts
  <1>4. StaysOnItsRoute
    BY <1>1, <1>2 DEF StaysOnItsRoute, WalksRight
  <1>5. RoutesMatch
    <2> SUFFICES ASSUME ~renested, ~hangs
                 PROVE  /\ \A c \in open : HasRoute(c) /\ routes[IndexOf(c)].to \notin deleted
                              /\ c \in known[routes[IndexOf(c)].to]
                        /\ \A i \in DOMAIN routes : routes[i].id \in open \/ (isSending /\ isDirty)
      BY DEF RoutesMatch
    <2> QED
      BY <1>1, <1>2, <1>3 DEF Matched
  <1> QED
    BY <1>1, <1>4, <1>5 DEF RoutesSound, RouteRight

THEOREM EventSignalInvariant == RouteSpec => []RouteInv
  <1>1. RouteInit => RouteInv
    BY RouteStarts
  <1>2. RouteInv /\ [RouteNext]_routeVars => RouteInv'
    BY RouteKept
  <1> QED
    BY <1>1, <1>2, PTL DEF RouteSpec

THEOREM EventRoutesSound == RouteSpec => []RoutesSound
  <1>1. RouteInv => RoutesSound
    BY RouteInvSound
  <1> QED
    BY <1>1, EventSignalInvariant, PTL

-----------------------------------------------------------------------------
(* Signals.                                                                *)

\* A list of connections is in the order in which they were made.
Rising(s) == \A i, j \in 1 .. Len(s) : i < j => s[i] < s[j]
Elements(s) == {s[i] : i \in 1 .. Len(s)}

ConnectionType == [from : SignalSet, to : Objects]
Connections == 1 .. Len(ends)

NetSet ==
  [valid : SUBSET Connections, list : [Objects -> Seq(Connections)], sending : SUBSET SignalSet, dirty : SUBSET SignalSet]

FrameSet ==
  [signal : SignalSet, at : Nat, attached : BOOLEAN, state : {"loop", "handler", "chained"},
   due : SUBSET Connections, called : Seq(Connections)]

SignalTypes ==
  /\ alive \subseteq Objects /\ ends \in Seq(ConnectionType) /\ Len(ends) <= MaxConnections
  /\ sentry \in [SignalSet -> 0 .. MaxDepth] /\ throwing \in BOOLEAN /\ nested \subseteq SignalSet

\* An object has connections of its own only, each once.
Orderly(n) ==
  /\ n \in NetSet /\ n.dirty \subseteq n.sending
  /\ \A o \in Objects : Rising(n.list[o]) /\ \A c \in Elements(n.list[o]) : o \in EndsOf(c)

BothWays(n, living) == \A c \in n.valid : \A o \in EndsOf(c) : o \in living /\ c \in Elements(n.list[o])

Dropped(n, excepted) ==
  \A o \in Objects \ excepted : Elements(n.list[o]) \subseteq n.valid \/ o \in n.sending \cap n.dirty

\* The sentry of a signal is in one of its send()s, and in the only one unless it was sent while sending.
SentriesRight(st) ==
  /\ \A s \in SignalSet :
       /\ s \in net.sending <=> sentry[s] # 0
       /\ sentry[s] # 0 => /\ s \in alive /\ sentry[s] \in 1 .. Len(st)
                           /\ st[sentry[s]].signal = s /\ st[sentry[s]].attached
  /\ \A i \in 1 .. Len(st) : st[i].attached /\ st[i].signal \notin nested => i = sentry[st[i].signal]

\* A send() has called what is in front of its place, in the order of the list,
\* and what it still has to call is not.
Ahead(f, c) == f.at # End /\ (IF f.state = "loop" THEN f.at <= c ELSE f.at < c)

CalledRight(f, valid) ==
  /\ Rising(f.called)
  /\ f.at # End => \A c \in Elements(f.called) : c < f.at \/ (f.state # "loop" /\ c = f.at)
  /\ \A c \in f.due : ends[c].from = f.signal
  /\ f.attached => \A c \in f.due \cap valid : c \in Elements(f.called) \/ Ahead(f, c)

InList(f) == f.attached /\ f.signal \notin nested /\ f.at # End => f.at \in Elements(net.list[f.signal])

StackRight(st) ==
  /\ st \in Seq(FrameSet) /\ Len(st) <= MaxDepth /\ SentriesRight(st)
  /\ \A i \in 1 .. Len(st) : CalledRight(st[i], net.valid) /\ InList(st[i])

SignalInv ==
  SignalTypes /\ Orderly(net) /\ BothWays(net, alive) /\ Dropped(net, nested) /\ StackRight(stack)

\* r consists of what is in s at the places ps, in the order of s.
Selects(r, s, ps) ==
  \E f \in [1 .. Cardinality(ps) -> ps] :
    /\ \A j \in 1 .. Cardinality(ps) : r[j] = s[f[j]]
    /\ \A i \in ps : \E j \in 1 .. Cardinality(ps) : f[j] = i
    /\ \A j, k \in 1 .. Cardinality(ps) : j < k => f[j] < f[k]

\* The connections cs of a list, in their order.
LEMMA OnlyKept ==
  ASSUME NEW T, NEW s \in Seq(T), NEW cs
  PROVE  \E ps \in SUBSET (1 .. Len(s)) :
           /\ Only(s, cs) \in Seq(T) /\ Len(Only(s, cs)) = Cardinality(ps)
           /\ \A i \in 1 .. Len(s) : i \in ps <=> s[i] \in cs
           /\ Selects(Only(s, cs), s, ps)
  <1> DEFINE ps == {i \in DOMAIN s : s[i] \in cs}
  <1>1. ps \in SUBSET (1 .. Len(s)) /\ \A i \in 1 .. Len(s) : i \in ps <=> s[i] \in cs
    OBVIOUS
  <1>2. Only(s, cs) = Kept(s, ps)
    BY DEF Only, Kept
  <1> HIDE DEF ps
  <1>3. Kept(s, ps) \in Seq(T) /\ Len(Kept(s, ps)) = Cardinality(ps)
    BY <1>1, KeptFacts
  <1>4. Selects(Kept(s, ps), s, ps)
    BY <1>1, KeptFacts DEF Selects
  <1> QED
    BY <1>1, <1>2, <1>3, <1>4, Zenon

LEMMA OnlyFacts ==
  ASSUME NEW n \in Nat, NEW s \in Seq(1 .. n), NEW cs
  PROVE  /\ Only(s, cs) \in Seq(1 .. n) /\ Elements(Only(s, cs)) = Elements(s) \cap cs
         /\ Rising(s) => Rising(Only(s, cs))
  <1> DEFINE r == Only(s, cs)
  <1>0. \A i \in 1 .. Len(s) : s[i] \in 1 .. n
    OBVIOUS
  <1>1. PICK ps \in SUBSET (1 .. Len(s)) :
           /\ r \in Seq(1 .. n) /\ Len(r) = Cardinality(ps)
           /\ \A i \in 1 .. Len(s) : i \in ps <=> s[i] \in cs
           /\ Selects(r, s, ps)
    BY OnlyKept, Zenon
  <1> DEFINE m == Cardinality(ps)
  <1>3. r \in Seq(1 .. n) /\ Len(r) = m /\ Len(r) \in Nat
    BY <1>1
  <1>4. PICK f \in [1 .. m -> ps] :
              /\ \A j \in 1 .. m : r[j] = s[f[j]]
              /\ \A i \in ps : \E j \in 1 .. m : f[j] = i
              /\ \A j, k \in 1 .. m : j < k => f[j] < f[k]
    BY <1>1, Zenon DEF Selects
  <1> HIDE DEF m, r
  <1>5. \A j \in 1 .. m : f[j] \in ps /\ f[j] \in 1 .. Len(s) /\ s[f[j]] \in cs
    BY <1>1, <1>4
  <1>6. Elements(r) \subseteq Elements(s) \cap cs
    <2> SUFFICES ASSUME NEW j \in 1 .. Len(r)
                 PROVE  r[j] \in Elements(s) \cap cs
      BY DEF Elements
    <2>1. f[j] \in 1 .. Len(s) /\ s[f[j]] \in cs /\ r[j] = s[f[j]]
      BY <1>3, <1>4, <1>5
    <2> QED
      BY <2>1 DEF Elements
  <1>7. ASSUME NEW c \in Elements(s) \cap cs
        PROVE  c \in Elements(r)
    <2>1. PICK i \in 1 .. Len(s) : s[i] = c
      BY DEF Elements
    <2>2. PICK j \in 1 .. m : f[j] = i
      BY <1>1, <1>4, <2>1
    <2> QED
      BY <1>3, <1>4, <2>1, <2>2 DEF Elements
  <1>8. ASSUME Rising(s)
        PROVE  Rising(r)
    <2> SUFFICES ASSUME NEW j \in 1 .. m, NEW k \in 1 .. m, j < k
                 PROVE  r[j] < r[k]
      BY <1>3 DEF Rising
    <2>1. f[j] \in 1 .. Len(s) /\ f[k] \in 1 .. Len(s) /\ r[j] = s[f[j]] /\ r[k] = s[f[k]] /\ f[j] < f[k]
      BY <1>4, <1>5
    <2> QED
      BY <1>8, <2>1 DEF Rising
  <1> QED
    BY <1>3, <1>6, <1>7, <1>8 DEF r

\* A connection is made at the end of a list.
LEMMA JoinedLists ==
  ASSUME NEW n \in Nat, NEW m \in Nat, n <= m, NEW s \in Seq(1 .. n), NEW t \in Seq(n + 1 .. m), Rising(s), Rising(t)
  PROVE  s \o t \in Seq(1 .. m) /\ Elements(s \o t) = Elements(s) \cup Elements(t) /\ Rising(s \o t)
  <1> DEFINE r == s \o t
  <1>1. Len(s) \in Nat /\ Len(t) \in Nat /\ Len(r) = Len(s) + Len(t)
    OBVIOUS
  <1>2. /\ \A i \in 1 .. Len(s) : r[i] = s[i] /\ s[i] \in 1 .. n
        /\ \A i \in 1 .. Len(t) : r[Len(s) + i] = t[i] /\ t[i] \in n + 1 .. m
    OBVIOUS
  <1>3. s \in Seq(1 .. m) /\ t \in Seq(1 .. m)
    BY 1 .. n \subseteq 1 .. m, n + 1 .. m \subseteq 1 .. m
  <1>4. r \in Seq(1 .. m)
    BY <1>3
  <1> HIDE DEF r
  <1>5. \A i \in 1 .. Len(r) : i \in 1 .. Len(s) \/ \E k \in 1 .. Len(t) : i = Len(s) + k
    <2> TAKE i \in 1 .. Len(r)
    <2>1. CASE i <= Len(s)
      BY <1>1, <2>1
    <2>2. CASE ~(i <= Len(s))
      <3>1. i - Len(s) \in 1 .. Len(t) /\ i = Len(s) + (i - Len(s))
        BY <1>1, <2>2
      <3> QED
        BY <3>1, Zenon
    <2> QED
      BY <2>1, <2>2
  <1>6. Elements(r) = Elements(s) \cup Elements(t)
    <2>1. Elements(r) \subseteq Elements(s) \cup Elements(t)
      <3> SUFFICES ASSUME NEW i \in 1 .. Len(r)
                   PROVE  r[i] \in Elements(s) \cup Elements(t)
        BY DEF Elements
      <3>1. CASE i \in 1 .. Len(s)
        BY <1>2, <3>1 DEF Elements
      <3>2. CASE \E k \in 1 .. Len(t) : i = Len(s) + k
        BY <1>2, <3>2 DEF Elements
      <3> QED
        BY <1>5, <3>1, <3>2
    <2>2. Elements(s) \subseteq Elements(r)
      <3>1. 1 .. Len(s) \subseteq 1 .. Len(r)
        BY <1>1
      <3> QED
        BY <1>2, <3>1 DEF Elements
    <2>3. Elements(t) \subseteq Elements(r)
      <3>1. \A k \in 1 .. Len(t) : Len(s) + k \in 1 .. Len(r)
        BY <1>1
      <3> QED
        BY <1>2, <3>1 DEF Elements
    <2> QED
      BY <2>1, <2>2, <2>3
  <1>7. Rising(r)
    <2> SUFFICES ASSUME NEW i \in 1 .. Len(r), NEW j \in 1 .. Len(r), i < j
                 PROVE  r[i] < r[j]
      BY DEF Rising
    <2>1. CASE j \in 1 .. Len(s)
      <3>1. i \in 1 .. Len(s)
        BY <1>1, <2>1
      <3> QED
        BY <1>2, <2>1, <3>1 DEF Rising
    <2>2. CASE j \notin 1 .. Len(s)
      <3>1. PICK k \in 1 .. Len(t) : j = Len(s) + k
        BY <1>5, <2>2
      <3>2. r[j] = t[k] /\ t[k] \in n + 1 .. m
        BY <1>2, <3>1
      <3>3. CASE i \in 1 .. Len(s)
        <4>1. r[i] \in 1 .. n
          BY <1>2, <3>3
        <4> QED
          BY <3>2, <4>1
      <3>4. CASE i \notin 1 .. Len(s)
        <4>1. PICK l \in 1 .. Len(t) : i = Len(s) + l
          BY <1>5, <3>4
        <4>2. l < k
          BY <1>1, <3>1, <4>1
        <4> QED
          BY <1>2, <3>2, <4>1, <4>2 DEF Rising
      <3> QED
        BY <3>3, <3>4
    <2> QED
      BY <2>1, <2>2
  <1> QED
    BY <1>4, <1>6, <1>7 DEF r

\* m is n after close() of the connections cs.
Closes(n, m, cs) ==
  /\ Orderly(m) /\ m.valid = n.valid \ cs /\ m.sending = n.sending /\ n.dirty \subseteq m.dirty
  /\ \A o \in Objects : Elements(m.list[o]) = IF o \in n.sending THEN Elements(n.list[o])
                                              ELSE Elements(n.list[o]) \ (cs \cap n.valid)
  /\ \A o \in n.sending : \A c \in cs \cap n.valid : o \in EndsOf(c) => o \in m.dirty

\* m is n after clear() of x.
Clears(n, m, x) ==
  /\ Orderly(m) /\ m.valid = n.valid \ Elements(n.list[x]) /\ m.sending = n.sending /\ n.dirty \subseteq m.dirty
  /\ m.list[x] = <<>>
  /\ \A o \in Objects \ {x} : Elements(m.list[o]) = IF o \in n.sending THEN Elements(n.list[o])
                                     ELSE Elements(n.list[o]) \ (Elements(n.list[x]) \cap n.valid)
  /\ \A o \in n.sending : \A c \in Elements(n.list[x]) \cap n.valid : o \in EndsOf(c) => o \in m.dirty

\* m is n after a send() of x has ended.
Cleans(n, m, x) ==
  /\ Orderly(m) /\ m.valid = n.valid /\ m.sending = n.sending \ {x} /\ m.dirty = n.dirty \ {x}
  /\ \A o \in Objects \ {x} : m.list[o] = n.list[o]
  /\ Elements(m.list[x]) = IF x \in n.dirty THEN Elements(n.list[x]) \cap n.valid ELSE Elements(n.list[x])

LEMMA NetFacts ==
  ASSUME ends \in Seq(ConnectionType), NEW n, Orderly(n)
  PROVE  /\ n = [valid |-> n.valid, list |-> n.list, sending |-> n.sending, dirty |-> n.dirty]
         /\ n.valid \subseteq Connections /\ n.sending \subseteq SignalSet /\ n.dirty \subseteq n.sending
         /\ n.list \in [Objects -> Seq(Connections)] /\ Len(ends) \in Nat /\ DOMAIN ends = Connections
         /\ \A o \in Objects : /\ n.list[o] \in Seq(Connections) /\ Len(n.list[o]) \in Nat
                               /\ DOMAIN n.list[o] = 1 .. Len(n.list[o])
                               /\ Elements(n.list[o]) \subseteq Connections /\ Rising(n.list[o])
                               /\ \A c \in Elements(n.list[o]) : o \in EndsOf(c)
  <1>1. n \in NetSet /\ n.dirty \subseteq n.sending
    BY DEF Orderly
  <1>2. n = [valid |-> n.valid, list |-> n.list, sending |-> n.sending, dirty |-> n.dirty]
        /\ n.valid \subseteq Connections /\ n.sending \subseteq SignalSet /\ n.list \in [Objects -> Seq(Connections)]
    BY <1>1 DEF NetSet
  <1>3. Len(ends) \in Nat /\ DOMAIN ends = Connections
    BY DEF Connections
  <1>4. ASSUME NEW o \in Objects
        PROVE  /\ n.list[o] \in Seq(Connections) /\ Len(n.list[o]) \in Nat
               /\ DOMAIN n.list[o] = 1 .. Len(n.list[o]) /\ Elements(n.list[o]) \subseteq Connections
    <2>1. n.list[o] \in Seq(Connections)
      BY <1>2
    <2> QED
      BY <2>1 DEF Elements
  <1> QED
    BY <1>1, <1>2, <1>3, <1>4 DEF Orderly

LEMMA NetMade ==
  ASSUME NEW v \in SUBSET Connections, NEW l \in [Objects -> Seq(Connections)], NEW s \in SUBSET SignalSet,
         NEW d \in SUBSET s, \A o \in Objects : Rising(l[o]) /\ \A c \in Elements(l[o]) : o \in EndsOf(c)
  PROVE  Orderly([valid |-> v, list |-> l, sending |-> s, dirty |-> d])
  <1> DEFINE m == [valid |-> v, list |-> l, sending |-> s, dirty |-> d]
  <1>1. m \in NetSet /\ m.dirty = d /\ m.sending = s /\ m.list = l
    BY DEF NetSet
  <1> HIDE DEF m
  <1>2. Orderly(m)
    BY <1>1 DEF Orderly
  <1> QED
    BY <1>2 DEF m

LEMMA CloseAllFacts ==
  ASSUME ends \in Seq(ConnectionType), NEW n, Orderly(n), NEW cs \in SUBSET Connections
  PROVE  Closes(n, CloseAll(n, cs), cs)
  <1> DEFINE now == cs \cap n.valid
             l == [o \in Objects |-> ClosedAt(n, o, now)]
             d == n.dirty \cup {o \in n.sending : \E c \in now : o \in EndsOf(c)}
             m == CloseAll(n, cs)
  <1>1. n = [valid |-> n.valid, list |-> n.list, sending |-> n.sending, dirty |-> n.dirty]
        /\ n.valid \subseteq Connections /\ n.sending \subseteq SignalSet /\ n.dirty \subseteq n.sending /\ Len(ends) \in Nat
    BY NetFacts
  <1>2. ASSUME NEW o \in Objects
        PROVE  /\ l[o] \in Seq(Connections) /\ Rising(l[o]) /\ \A c \in Elements(l[o]) : o \in EndsOf(c)
               /\ Elements(l[o]) = IF o \in n.sending THEN Elements(n.list[o]) ELSE Elements(n.list[o]) \ now
    <2>1. /\ n.list[o] \in Seq(Connections) /\ Elements(n.list[o]) \subseteq Connections /\ Rising(n.list[o])
          /\ \A c \in Elements(n.list[o]) : o \in EndsOf(c) /\ DOMAIN ends = Connections
      BY NetFacts
    <2>2. CASE o \in n.sending
      BY <2>1, <2>2 DEF ClosedAt
    <2>3. CASE o \notin n.sending
      <3>1. l[o] = Only(n.list[o], Connections \ now)
        BY <2>3, NetFacts DEF ClosedAt
      <3>2. /\ l[o] \in Seq(Connections) /\ Rising(l[o])
            /\ Elements(l[o]) = Elements(n.list[o]) \cap (Connections \ now)
        <4> HIDE DEF l, now
        <4> QED
          BY <1>1, <2>1, <3>1, OnlyFacts DEF Connections
      <3> HIDE DEF l
      <3> QED
        BY <2>1, <2>3, <3>2
    <2> QED
      BY <2>2, <2>3
  <1>3. m = [valid |-> n.valid \ now, list |-> l, sending |-> n.sending, dirty |-> d]
    <2> HIDE DEF l, d, now
    <2>1. CloseAll(n, cs) = [n EXCEPT !.valid = n.valid \ now, !.list = l, !.dirty = d]
      BY DEF CloseAll, l, d, now
    <2> QED
      BY <1>1, <2>1
  <1>4. Orderly(m)
    <2>1. n.valid \ now \in SUBSET Connections /\ n.sending \in SUBSET SignalSet /\ d \in SUBSET n.sending
      BY <1>1
    <2>2. l \in [Objects -> Seq(Connections)]
      <3>1. \A o \in Objects : l[o] \in Seq(Connections)
        BY <1>2
      <3> QED
        BY <3>1
    <2> HIDE DEF l, d, now, m
    <2> QED
      BY <1>2, <1>3, <2>1, <2>2, NetMade
  <1>5. m.valid = n.valid \ now /\ m.list = l /\ m.sending = n.sending /\ m.dirty = d
    <2> HIDE DEF l, d, now, m
    <2> QED
      BY <1>3
  <1>6. n.valid \ now = n.valid \ cs /\ n.dirty \subseteq d
        /\ \A o \in n.sending : \A c \in now : o \in EndsOf(c) => o \in d
    OBVIOUS
  <1>7. Closes(n, m, cs)
    <2> HIDE DEF l, d, m
    <2> QED
      BY <1>2, <1>4, <1>5, <1>6 DEF Closes
  <1> QED
    BY <1>7 DEF m

LEMMA ClearFacts ==
  ASSUME ends \in Seq(ConnectionType), NEW n, Orderly(n), NEW x \in Objects
  PROVE  Clears(n, Clear(n, x), x)
  <1> DEFINE cs == {n.list[x][i] : i \in DOMAIN n.list[x]}
             k == CloseAll(n, cs)
             l == [k.list EXCEPT ![x] = <<>>]
             m == Clear(n, x)
  <1>1. cs = Elements(n.list[x]) /\ cs \in SUBSET Connections
    <2>1. DOMAIN n.list[x] = 1 .. Len(n.list[x]) /\ Elements(n.list[x]) \subseteq Connections
      BY NetFacts
    <2>2. cs = Elements(n.list[x])
      BY <2>1 DEF Elements
    <2> QED
      BY <2>1, <2>2
  <1> HIDE DEF cs
  <1>2. Closes(n, k, cs)
    BY <1>1, CloseAllFacts
  <1>3. m = [k EXCEPT !.list = l]
    BY DEF Clear, cs
  <1> HIDE DEF k, m
  <1>4. Orderly(k) /\ k.list \in [Objects -> Seq(Connections)]
        /\ k = [valid |-> k.valid, list |-> k.list, sending |-> k.sending, dirty |-> k.dirty]
        /\ k.valid \subseteq Connections /\ k.sending \subseteq SignalSet /\ k.dirty \subseteq k.sending
    BY <1>2, NetFacts DEF Closes
  <1>5. /\ l \in [Objects -> Seq(Connections)] /\ l[x] = <<>>
        /\ \A o \in Objects \ {x} : l[o] = k.list[o]
    BY <1>4
  <1>6. \A o \in Objects : Rising(l[o]) /\ \A c \in Elements(l[o]) : o \in EndsOf(c)
    <2> TAKE o \in Objects
    <2>1. CASE o = x
      <3>1. l[o] = <<>> /\ Len(<<>>) = 0 /\ 1 .. 0 = {}
        BY <1>5, <2>1
      <3> HIDE DEF l
      <3> QED
        BY <3>1 DEF Rising, Elements
    <2>2. CASE o # x
      <3>1. l[o] = k.list[o]
        BY <1>5, <2>2
      <3> HIDE DEF l
      <3> QED
        BY <1>4, <3>1, NetFacts
    <2> QED
      BY <2>1, <2>2
  <1> HIDE DEF l
  <1>7. m = [valid |-> k.valid, list |-> l, sending |-> k.sending, dirty |-> k.dirty]
    BY <1>3, <1>4
  <1>8. Orderly(m)
    BY <1>4, <1>5, <1>6, <1>7, NetMade
  <1>9. m.valid = k.valid /\ m.list = l /\ m.sending = k.sending /\ m.dirty = k.dirty
    BY <1>7
  <1>10. Clears(n, m, x)
    BY <1>1, <1>2, <1>5, <1>8, <1>9 DEF Clears, Closes
  <1> QED
    BY <1>10 DEF m

LEMMA CleanedFacts ==
  ASSUME ends \in Seq(ConnectionType), NEW n, Orderly(n), NEW x \in SignalSet
  PROVE  Cleans(n, Cleaned(n, x), x)
  <1> DEFINE l == IF x \in n.dirty THEN [n.list EXCEPT ![x] = Only(n.list[x], n.valid)] ELSE n.list
             m == Cleaned(n, x)
  <1>1. n = [valid |-> n.valid, list |-> n.list, sending |-> n.sending, dirty |-> n.dirty]
        /\ n.valid \subseteq Connections /\ n.sending \subseteq SignalSet /\ n.dirty \subseteq n.sending
        /\ n.list \in [Objects -> Seq(Connections)] /\ Len(ends) \in Nat /\ x \in Objects
    BY NetFacts DEF Objects
  <1>2. m = [valid |-> n.valid, list |-> l, sending |-> n.sending \ {x}, dirty |-> n.dirty \ {x}]
    <2> HIDE DEF l
    <2>1. m = [n EXCEPT !.sending = n.sending \ {x}, !.dirty = n.dirty \ {x}, !.list = l]
      BY DEF Cleaned, l
    <2> QED
      BY <1>1, <2>1
  <1> HIDE DEF m
  <1>3. /\ n.list[x] \in Seq(Connections) /\ Elements(n.list[x]) \subseteq Connections /\ Rising(n.list[x])
        /\ \A c \in Elements(n.list[x]) : x \in EndsOf(c)
    BY <1>1, NetFacts
  <1>4. LET r == Only(n.list[x], n.valid)
        IN r \in Seq(Connections) /\ Elements(r) = Elements(n.list[x]) \cap n.valid /\ Rising(r)
    BY <1>1, <1>3, OnlyFacts DEF Connections
  <1>5. /\ l \in [Objects -> Seq(Connections)] /\ \A o \in Objects \ {x} : l[o] = n.list[o]
        /\ l[x] = IF x \in n.dirty THEN Only(n.list[x], n.valid) ELSE n.list[x]
    BY <1>1, <1>4
  <1> HIDE DEF l
  <1>6. Elements(l[x]) = (IF x \in n.dirty THEN Elements(n.list[x]) \cap n.valid ELSE Elements(n.list[x]))
        /\ Rising(l[x])
    BY <1>3, <1>4, <1>5
  <1>7. \A o \in Objects : Rising(l[o]) /\ \A c \in Elements(l[o]) : o \in EndsOf(c)
    <2> TAKE o \in Objects
    <2>1. CASE o = x
      BY <1>3, <1>6, <2>1
    <2>2. CASE o # x
      BY <1>5, <2>2, NetFacts
    <2> QED
      BY <2>1, <2>2
  <1>8. Orderly(m)
    <2>1. n.valid \in SUBSET Connections /\ n.sending \ {x} \in SUBSET SignalSet /\ n.dirty \ {x} \in SUBSET (n.sending \ {x})
      BY <1>1
    <2> QED
      BY <1>2, <1>5, <1>7, <2>1, NetMade
  <1>9. m.valid = n.valid /\ m.list = l /\ m.sending = n.sending \ {x} /\ m.dirty = n.dirty \ {x}
    BY <1>2
  <1>10. Cleans(n, m, x)
    BY <1>5, <1>6, <1>8, <1>9 DEF Cleans
  <1> QED
    BY <1>10 DEF m

LEMMA SignalFacts ==
  ASSUME SignalInv
  PROVE  /\ ends \in Seq(ConnectionType) /\ Len(ends) \in Nat /\ DOMAIN ends = Connections
         /\ \A c \in Connections : ends[c] \in ConnectionType /\ EndsOf(c) \subseteq Objects /\ ends[c].from \in EndsOf(c)
         /\ Orderly(net) /\ BothWays(net, alive) /\ Dropped(net, nested) /\ StackRight(stack) /\ SignalTypes
         /\ SignalSet \subseteq Objects /\ Receivers \subseteq Objects
         /\ alive \subseteq Objects /\ sentry \in [SignalSet -> 0 .. MaxDepth] /\ nested \subseteq SignalSet
         /\ net.valid \subseteq Connections /\ net.sending \subseteq SignalSet /\ net.dirty \subseteq net.sending
  <1>1. SignalTypes /\ Orderly(net) /\ BothWays(net, alive) /\ Dropped(net, nested) /\ StackRight(stack)
    BY DEF SignalInv
  <1>2. ends \in Seq(ConnectionType) /\ alive \subseteq Objects /\ sentry \in [SignalSet -> 0 .. MaxDepth]
        /\ nested \subseteq SignalSet
    BY <1>1 DEF SignalTypes
  <1>3. Len(ends) \in Nat /\ DOMAIN ends = Connections /\ \A c \in Connections : ends[c] \in ConnectionType
    BY <1>2 DEF Connections
  <1>4. \A c \in Connections : EndsOf(c) \subseteq Objects /\ ends[c].from \in EndsOf(c)
    BY <1>3 DEF ConnectionType, EndsOf, Objects
  <1> QED
    BY <1>1, <1>2, <1>3, <1>4, NetFacts DEF Objects

LEMMA StackFacts ==
  ASSUME NEW st, StackRight(st)
  PROVE  /\ st \in Seq(FrameSet) /\ Len(st) \in Nat /\ DOMAIN st = 1 .. Len(st) /\ Len(st) <= MaxDepth
         /\ \A i \in 1 .. Len(st) : /\ st[i] \in FrameSet /\ st[i].signal \in SignalSet /\ st[i].at \in Nat
                                    /\ st[i].due \subseteq Connections /\ st[i].called \in Seq(Connections)
                                    /\ CalledRight(st[i], net.valid) /\ InList(st[i])
  <1>1. st \in Seq(FrameSet)
    BY DEF StackRight
  <1>2. \A i \in 1 .. Len(st) : st[i] \in FrameSet
    BY <1>1
  <1> QED
    BY <1>1, <1>2 DEF StackRight, FrameSet

\* The invariant holds for the next state if it does for its parts.
LEMMA SignalsStay ==
  ASSUME UNCHANGED ends, SignalTypes', Orderly(net'), BothWays(net', alive'), Dropped(net', nested'), StackRight(stack)'
  PROVE  SignalInv'
  <1>1. Orderly(net)' /\ BothWays(net, alive)' /\ Dropped(net, nested)'
    BY DEF Orderly, BothWays, Dropped, EndsOf, NetSet, Connections
  <1> QED
    BY <1>1 DEF SignalInv

\* The frames and what they are about have stayed.
LEMMA SameStack ==
  ASSUME UNCHANGED <<ends, net, alive, sentry, nested>>, StackRight(stack')
  PROVE  StackRight(stack)'
  BY DEF StackRight, SentriesRight, CalledRight, Ahead, InList, FrameSet, Connections

LEMMA NetsStay ==
  ASSUME UNCHANGED <<ends, net, alive, nested>>, SignalInv, SignalTypes', StackRight(stack)'
  PROVE  SignalInv'
  <1>1. Orderly(net') /\ BothWays(net', alive') /\ Dropped(net', nested')
    BY SignalFacts
  <1> QED
    BY <1>1, SignalsStay

\* The innermost send() goes on.
LEMMA TopStays ==
  ASSUME SignalInv, stack # <<>>, NEW f \in FrameSet,
         f.signal = Top.signal, f.attached = Top.attached, CalledRight(f, net.valid), InList(f)
  PROVE  /\ StackRight(Append(Below, f)) /\ Len(Append(Below, f)) = Len(stack)
         /\ \A i \in 1 .. Len(stack) : Append(Below, f)[i].signal = stack[i].signal
                                       /\ Append(Below, f)[i].attached = stack[i].attached
  <1> DEFINE st == Append(Below, f)
  <1>1. StackRight(stack)
    BY SignalFacts
  <1>2. /\ stack \in Seq(FrameSet) /\ Len(stack) \in Nat /\ Len(stack) <= MaxDepth
        /\ \A i \in 1 .. Len(stack) : CalledRight(stack[i], net.valid) /\ InList(stack[i])
    BY <1>1, StackFacts
  <1>3. /\ st \in Seq(FrameSet) /\ Len(st) = Len(stack) /\ st[Len(stack)] = f
        /\ \A i \in 1 .. Len(stack) : i # Len(stack) => st[i] = stack[i]
    BY <1>2, TopFacts DEF Below
  <1> HIDE DEF st
  <1>4. \A i \in 1 .. Len(stack) : st[i].signal = stack[i].signal /\ st[i].attached = stack[i].attached
    BY <1>3 DEF Top
  <1>5. \A i \in 1 .. Len(stack) : CalledRight(st[i], net.valid) /\ InList(st[i])
    BY <1>2, <1>3
  <1>6. SentriesRight(st)
    BY <1>1, <1>3, <1>4 DEF StackRight, SentriesRight
  <1>7. StackRight(st)
    BY <1>2, <1>3, <1>5, <1>6 DEF StackRight
  <1> QED
    BY <1>3, <1>4, <1>7 DEF st

\* What is in the list behind a connection is behind it in the order, too.
LEMMA FollowingFacts ==
  ASSUME SignalInv, NEW s \in SignalSet, NEW c \in Elements(net.list[s])
  PROVE  /\ Following(s, c) \in Nat
         /\ Following(s, c) # End => c < Following(s, c) /\ Following(s, c) \in Elements(net.list[s])
         /\ \A d \in Elements(net.list[s]) : c < d => Following(s, c) # End /\ Following(s, c) <= d
  <1> DEFINE l == net.list[s]
             p == CHOOSE j \in DOMAIN l : l[j] = c
  <1>0. s \in Objects /\ End = 0
    BY DEF Objects, End
  <1>1. l \in Seq(Connections) /\ DOMAIN l = 1 .. Len(l) /\ Len(l) \in Nat /\ Rising(l)
    BY <1>0, SignalFacts, NetFacts
  <1>2. \A j \in 1 .. Len(l) : l[j] \in Nat /\ l[j] # 0 /\ l[j] \in Elements(l)
    <2> TAKE j \in 1 .. Len(l)
    <2>1. l[j] \in Connections /\ l[j] \in Elements(l)
      BY <1>1 DEF Elements
    <2> QED
      BY <2>1, SignalFacts DEF Connections
  <1>3. Following(s, c) = IF p = Len(l) THEN End ELSE l[p + 1]
    BY DEF Following
  <1>4. p \in 1 .. Len(l) /\ l[p] = c
    <2>1. \E j \in DOMAIN l : l[j] = c
      BY <1>1 DEF Elements
    <2> QED
      BY <1>1, <2>1
  <1> HIDE DEF l, p
  <1>7. Len(l) \in Nat /\ p \in 1 .. Len(l)
    BY <1>1, <1>4
  <1>5. CASE p = Len(l)
    <2>1. Following(s, c) = 0
      BY <1>0, <1>3, <1>5
    <2>2. ASSUME NEW d \in Elements(l), c < d
          PROVE  FALSE
      <3>1. PICK j \in 1 .. Len(l) : l[j] = d
        BY DEF Elements
      <3>2. j < p \/ j = p
        BY <1>5, <1>7
      <3>3. d < c \/ d = c
        BY <1>1, <1>4, <3>1, <3>2 DEF Rising
      <3> QED
        BY <1>2, <1>4, <2>2, <3>1, <3>3
    <2> QED
      BY <1>0, <2>1, <2>2 DEF l
  <1>6. CASE p # Len(l)
    <2>0. p + 1 \in 1 .. Len(l) /\ p < p + 1
      BY <1>6, <1>7
    <2>1. p + 1 \in 1 .. Len(l) /\ p < p + 1 /\ Following(s, c) = l[p + 1]
      BY <1>3, <1>6, <2>0, Zenon
    <2>2. Following(s, c) \in Nat /\ Following(s, c) # 0 /\ c < Following(s, c) /\ Following(s, c) \in Elements(l)
      BY <1>1, <1>2, <1>4, <2>1 DEF Rising
    <2>3. ASSUME NEW d \in Elements(l), c < d
          PROVE  Following(s, c) <= d
      <3>1. PICK j \in 1 .. Len(l) : l[j] = d
        BY DEF Elements
      <3>2. c \in Nat /\ d \in Nat
        BY <1>2, <1>4, <3>1
      <3>3. ~(j < p) /\ j # p
        BY <1>1, <1>4, <2>3, <3>1, <3>2 DEF Rising
      <3>4. j = p + 1 \/ p + 1 < j
        BY <1>1, <1>4, <3>3
      <3>5. l[p + 1] = d \/ l[p + 1] < d
        BY <1>1, <2>1, <3>1, <3>4 DEF Rising
      <3> QED
        BY <2>1, <2>2, <3>2, <3>5
    <2> QED
      BY <1>0, <2>2, <2>3 DEF l
  <1> QED
    BY <1>5, <1>6

\* The send() at the top of the stack goes to the following connection.
LEMMA TopFollows ==
  ASSUME SignalInv, stack # <<>>, InPlace(Top),
         NEW f \in FrameSet, f = [Top EXCEPT !.at = Following(Top.signal, Top.at), !.state = "loop"],
         Top.state = "loop" => ~(Top.at \in net.valid /\ ends[Top.at].from = Top.signal)
  PROVE  f.signal = Top.signal /\ f.attached = Top.attached /\ CalledRight(f, net.valid) /\ InList(f)
  <1> DEFINE s == Top.signal
             c == Top.at
  <1>0. /\ stack \in Seq(FrameSet) /\ Len(stack) \in 1 .. Len(stack) /\ Top \in FrameSet /\ s \in SignalSet /\ c \in Nat
        /\ CalledRight(Top, net.valid) /\ Top.due \subseteq Connections /\ Top.called \in Seq(Connections)
    <2>1. stack \in Seq(FrameSet) /\ StackRight(stack)
      BY SignalFacts, StackFacts
    <2>2. Len(stack) \in 1 .. Len(stack)
      BY <2>1
    <2> QED
      BY <2>1, <2>2, StackFacts DEF Top
  <1>1. c \in Elements(net.list[s]) /\ c # End /\ s \in Objects
    <2>1. s \in Objects
      BY <1>0 DEF Objects
    <2>2. DOMAIN net.list[s] = 1 .. Len(net.list[s])
      BY <2>1, SignalFacts, NetFacts
    <2> QED
      BY <2>1, <2>2 DEF InPlace, Elements
  <1>2. /\ Following(s, c) \in Nat
        /\ Following(s, c) # End => c < Following(s, c) /\ Following(s, c) \in Elements(net.list[s])
        /\ \A d \in Elements(net.list[s]) : c < d => Following(s, c) # End /\ Following(s, c) <= d
    BY <1>0, <1>1, FollowingFacts
  <1>3. /\ f.signal = s /\ f.attached = Top.attached /\ f.at = Following(s, c) /\ f.state = "loop"
        /\ f.due = Top.due /\ f.called = Top.called
    BY <1>0 DEF FrameSet
  <1>4. Rising(f.called) /\ \A d \in f.due : ends[d].from = f.signal
    BY <1>0, <1>3 DEF CalledRight
  <1>5. f.at # End => \A d \in Elements(f.called) : d < f.at
    <2> SUFFICES ASSUME f.at # End, NEW d \in Elements(f.called)
                 PROVE  d < f.at
      OBVIOUS
    <2>1. d < c \/ d = c
      BY <1>0, <1>1, <1>3 DEF CalledRight
    <2>2. d \in Connections
      BY <1>0, <1>3 DEF Elements
    <2>3. c < f.at /\ f.at \in Nat /\ d \in Nat
      BY <1>2, <1>3, <2>2, SignalFacts DEF Connections
    <2> QED
      BY <1>0, <2>1, <2>3
  <1>6. ASSUME f.attached, NEW d \in f.due \cap net.valid
        PROVE  d \in Elements(f.called) \/ Ahead(f, d)
    <2>1. CASE d \in Elements(Top.called)
      BY <1>3, <2>1
    <2>2. CASE d \notin Elements(Top.called)
      <3>1. Ahead(Top, d)
        BY <1>0, <1>3, <1>6, <2>2 DEF CalledRight
      <3>2. ends[d].from = s /\ d \in net.valid /\ d \in Connections /\ d \in Nat
        BY <1>3, <1>4, <1>0, SignalFacts DEF Connections
      <3>3. c < d
        <4>1. CASE Top.state = "loop"
          <5>1. c <= d /\ c # d
            BY <3>1, <3>2, <4>1 DEF Ahead
          <5> QED
            BY <1>0, <3>2, <5>1
        <4>2. CASE Top.state # "loop"
          BY <3>1, <4>2 DEF Ahead
        <4> QED
          BY <4>1, <4>2
      <3>4. d \in Elements(net.list[s])
        BY <3>2, SignalFacts DEF BothWays
      <3> QED
        BY <1>2, <1>3, <3>3, <3>4 DEF Ahead
    <2> QED
      BY <2>1, <2>2
  <1>7. CalledRight(f, net.valid)
    BY <1>4, <1>5, <1>6 DEF CalledRight
  <1>8. InList(f)
    BY <1>2, <1>3 DEF InList
  <1> QED
    BY <1>3, <1>7, <1>8

LEMMA TopFrame ==
  ASSUME SignalInv, stack # <<>>
  PROVE  /\ stack \in Seq(FrameSet) /\ Len(stack) \in 1 .. Len(stack) /\ Len(stack) \in Nat /\ Top \in FrameSet
         /\ Top.signal \in SignalSet /\ Top.signal \in Objects /\ Top.at \in Nat
         /\ CalledRight(Top, net.valid) /\ InList(Top) /\ Top.called \in Seq(Connections)
         /\ InPlace(Top) => Top.at \in Elements(net.list[Top.signal])
  <1>1. stack \in Seq(FrameSet) /\ StackRight(stack)
    BY SignalFacts, StackFacts
  <1>2. Len(stack) \in 1 .. Len(stack) /\ Len(stack) \in Nat
    BY <1>1
  <1>3. /\ Top \in FrameSet /\ Top.signal \in SignalSet /\ Top.signal \in Objects /\ Top.at \in Nat
        /\ CalledRight(Top, net.valid) /\ InList(Top) /\ Top.called \in Seq(Connections)
    BY <1>1, <1>2, StackFacts DEF Top, Objects
  <1>4. DOMAIN net.list[Top.signal] = 1 .. Len(net.list[Top.signal])
    BY <1>3, SignalFacts, NetFacts
  <1>5. InPlace(Top) => Top.at \in Elements(net.list[Top.signal])
    BY <1>4 DEF InPlace, Elements
  <1> QED
    BY <1>1, <1>2, <1>3, <1>5

\* The connection at the place of the innermost send() is called.
LEMMA TopCalls ==
  ASSUME SignalInv, stack # <<>>, Top.state = "loop", InPlace(Top), NEW state \in {"handler", "chained"},
         NEW f, f = [Top EXCEPT !.state = state, !.called = Append(Top.called, Top.at)]
  PROVE  f \in FrameSet /\ f.signal = Top.signal /\ f.attached = Top.attached /\ CalledRight(f, net.valid) /\ InList(f)
  <1>0. /\ Top \in FrameSet /\ Top.signal \in SignalSet /\ Top.at \in Nat
        /\ CalledRight(Top, net.valid) /\ InList(Top) /\ Top.called \in Seq(Connections) /\ Top.signal \in Objects
    <2>1. stack \in Seq(FrameSet) /\ StackRight(stack)
      BY SignalFacts, StackFacts
    <2>2. Len(stack) \in 1 .. Len(stack)
      BY <2>1
    <2> QED
      BY <2>1, <2>2, StackFacts DEF Top, Objects
  <1>1. Top.at \in Connections /\ Top.at # End
    <2>1. DOMAIN net.list[Top.signal] = 1 .. Len(net.list[Top.signal]) /\ Elements(net.list[Top.signal]) \subseteq Connections
      BY <1>0, SignalFacts, NetFacts
    <2> QED
      BY <2>1 DEF InPlace, Elements
  <1> DEFINE called == Append(Top.called, Top.at)
  <1>2. /\ called \in Seq(Connections) /\ Len(called) = Len(Top.called) + 1 /\ called[Len(Top.called) + 1] = Top.at
        /\ Len(Top.called) \in Nat
        /\ \A i \in 1 .. Len(Top.called) : called[i] = Top.called[i] /\ Top.called[i] \in Connections
    BY <1>0, <1>1
  <1> HIDE DEF called
  <1>3. \A i \in 1 .. Len(called) : i \in 1 .. Len(Top.called) \/ i = Len(Top.called) + 1
    BY <1>2
  <1>4. \A d \in Elements(Top.called) : d < Top.at /\ d \in Nat
    <2> TAKE d \in Elements(Top.called)
    <2>1. d < Top.at
      BY <1>0, <1>1 DEF CalledRight
    <2>2. d \in Connections
      BY <1>2 DEF Elements
    <2> QED
      BY <2>1, <2>2, SignalFacts DEF Connections
  <1>5. Elements(called) = Elements(Top.called) \cup {Top.at}
    <2>1. Elements(called) \subseteq Elements(Top.called) \cup {Top.at}
      BY <1>2, <1>3 DEF Elements
    <2>2. Elements(Top.called) \subseteq Elements(called)
      <3>1. 1 .. Len(Top.called) \subseteq 1 .. Len(called)
        BY <1>2
      <3> QED
        BY <1>2, <3>1 DEF Elements
    <2>3. Top.at \in Elements(called)
      <3>1. Len(Top.called) + 1 \in 1 .. Len(called)
        BY <1>2
      <3> QED
        BY <1>2, <3>1 DEF Elements
    <2> QED
      BY <2>1, <2>2, <2>3
  <1>6. Rising(called)
    <2> SUFFICES ASSUME NEW i \in 1 .. Len(called), NEW j \in 1 .. Len(called), i < j
                 PROVE  called[i] < called[j]
      BY DEF Rising
    <2>1. i \in 1 .. Len(Top.called)
      BY <1>2
    <2>2. CASE j \in 1 .. Len(Top.called)
      BY <1>0, <1>2, <2>1, <2>2 DEF CalledRight, Rising
    <2>3. CASE j = Len(Top.called) + 1
      <3>1. Top.called[i] \in Elements(Top.called)
        BY <2>1 DEF Elements
      <3> QED
        BY <1>2, <1>4, <2>1, <2>3, <3>1
    <2> QED
      BY <1>3, <2>2, <2>3
  <1>7. /\ f \in FrameSet /\ f.signal = Top.signal /\ f.attached = Top.attached /\ f.at = Top.at
        /\ f.state = state /\ f.state # "loop" /\ f.due = Top.due /\ f.called = called
    BY <1>0, <1>2 DEF FrameSet, called
  <1>8. InList(f)
    BY <1>0, <1>7 DEF InList
  <1>9. CalledRight(f, net.valid)
    <2>1. \A c \in Elements(f.called) : c < f.at \/ (f.state # "loop" /\ c = f.at)
      BY <1>4, <1>5, <1>7
    <2>2. ASSUME f.attached, NEW c \in f.due \cap net.valid
          PROVE  c \in Elements(f.called) \/ Ahead(f, c)
      <3>1. c \in Elements(Top.called) \/ Ahead(Top, c)
        BY <1>0, <1>7, <2>2 DEF CalledRight
      <3>2. CASE c \in Elements(Top.called)
        BY <1>5, <1>7, <3>2
      <3>3. CASE Ahead(Top, c)
        <4>1. Top.at <= c /\ c \in Nat
          BY <2>2, <3>3, SignalFacts DEF Ahead, Connections
        <4>2. Top.at = c \/ Top.at < c
          BY <1>0, <4>1
        <4> QED
          BY <1>1, <1>5, <1>7, <4>2 DEF Ahead
      <3> QED
        BY <3>1, <3>2, <3>3
    <2>3. \A c \in f.due : ends[c].from = f.signal
      BY <1>0, <1>7 DEF CalledRight
    <2> QED
      BY <1>6, <1>7, <2>1, <2>2, <2>3 DEF CalledRight
  <1> QED
    BY <1>7, <1>8, <1>9

LEMMA KeepWalk ==
  ASSUME SignalInv, stack # <<>>, NEW f \in FrameSet,
         f.signal = Top.signal, f.attached = Top.attached, CalledRight(f, net.valid), InList(f),
         stack' = Append(Below, f), UNCHANGED <<alive, ends, net, sentry, throwing, nested>>
  PROVE  SignalInv'
  <1>1. StackRight(stack')
    BY TopStays
  <1>2. StackRight(stack)'
    BY <1>1, SameStack
  <1>3. SignalTypes'
    BY SignalFacts DEF SignalTypes
  <1> QED
    BY <1>2, <1>3, NetsStay

LEMMA KeepPassOver ==
  ASSUME SignalInv, PassOver
  PROVE  SignalInv'
  <1> DEFINE f == [Top EXCEPT !.at = Following(Top.signal, Top.at), !.state = "loop"]
  <1>1. /\ stack # <<>> /\ Top.state = "loop" /\ InPlace(Top)
        /\ ~(Top.at \in net.valid /\ ends[Top.at].from = Top.signal)
        /\ stack' = Append(Below, [Top EXCEPT !.at = Following(Top.signal, Top.at)])
        /\ UNCHANGED <<alive, ends, net, sentry, throwing, nested>>
    BY DEF PassOver
  <1>2. Top \in FrameSet /\ Top.signal \in SignalSet /\ Top.at \in Elements(net.list[Top.signal])
    BY <1>1, TopFrame
  <1>3. f \in FrameSet
    BY <1>2, FollowingFacts DEF FrameSet
  <1>4. f = [Top EXCEPT !.at = Following(Top.signal, Top.at)]
    BY <1>1, <1>2 DEF FrameSet
  <1> HIDE DEF f
  <1>5. f.signal = Top.signal /\ f.attached = Top.attached /\ CalledRight(f, net.valid) /\ InList(f)
    BY <1>1, <1>3, TopFollows DEF f
  <1> QED
    BY <1>1, <1>3, <1>4, <1>5, KeepWalk

LEMMA KeepCallMethod ==
  ASSUME SignalInv, CallMethod
  PROVE  SignalInv'
  <1> DEFINE f == [Top EXCEPT !.state = "handler", !.called = Append(Top.called, Top.at)]
  <1>1. /\ stack # <<>> /\ Top.state = "loop" /\ InPlace(Top) /\ stack' = Append(Below, f)
        /\ UNCHANGED <<alive, ends, net, sentry, throwing, nested>>
    BY DEF CallMethod, Calling
  <1> HIDE DEF f
  <1>2. f \in FrameSet /\ f.signal = Top.signal /\ f.attached = Top.attached /\ CalledRight(f, net.valid) /\ InList(f)
    BY <1>1, TopCalls DEF f
  <1> QED
    BY <1>1, <1>2, KeepWalk

\* The innermost send() has ended: what remains of the stack.
LEMMA PoppedStack ==
  ASSUME SignalInv, stack # <<>>
  PROVE  /\ Below \in Seq(FrameSet) /\ Len(Below) = Len(stack) - 1 /\ Len(Below) \in Nat /\ Len(stack) \in Nat
         /\ \A i \in 1 .. Len(Below) : i \in 1 .. Len(stack) /\ i # Len(stack) /\ Below[i] = stack[i]
         /\ \A i \in 1 .. Len(stack) : i # Len(stack) => i \in 1 .. Len(Below)
  <1>1. stack \in Seq(FrameSet) /\ Len(stack) \in Nat /\ Len(stack) \in 1 .. Len(stack)
    BY TopFrame
  <1> DEFINE m == Len(stack) - 1
  <1>2. m \in 0 .. Len(stack) /\ m \in Nat
    BY <1>1
  <1>3. \A k \in 0 .. Len(stack) : /\ SubSeq(stack, 1, k) \in Seq(FrameSet) /\ Len(SubSeq(stack, 1, k)) = k
                                   /\ \A i \in 1 .. k : SubSeq(stack, 1, k)[i] = stack[i]
    BY <1>1
  <1>4. Below \in Seq(FrameSet) /\ Len(Below) = m /\ \A i \in 1 .. m : Below[i] = stack[i]
    BY <1>2, <1>3 DEF Below
  <1>5. /\ \A i \in 1 .. m : i \in 1 .. Len(stack) /\ i # Len(stack)
        /\ \A i \in 1 .. Len(stack) : i # Len(stack) => i \in 1 .. m
    BY <1>1
  <1> QED
    BY <1>1, <1>2, <1>4, <1>5

LEMMA KeepReturn ==
  ASSUME SignalInv, stack # <<>>, ~Top.attached, stack' = Below, throwing' \in BOOLEAN,
         UNCHANGED <<alive, ends, net, sentry, nested>>
  PROVE  SignalInv'
  <1>1. StackRight(stack) /\ SignalTypes
    BY SignalFacts
  <1>2. /\ Below \in Seq(FrameSet) /\ Len(Below) = Len(stack) - 1 /\ Len(Below) \in Nat /\ Len(stack) \in Nat
        /\ \A i \in 1 .. Len(Below) : i \in 1 .. Len(stack) /\ i # Len(stack) /\ Below[i] = stack[i]
        /\ \A i \in 1 .. Len(stack) : i # Len(stack) => i \in 1 .. Len(Below)
    BY PoppedStack
  <1>3. SentriesRight(Below)
    <2>1. SentriesRight(stack)
      BY <1>1 DEF StackRight
    <2>2. ASSUME NEW s \in SignalSet, sentry[s] # 0
          PROVE  /\ s \in alive /\ sentry[s] \in 1 .. Len(Below)
                 /\ Below[sentry[s]].signal = s /\ Below[sentry[s]].attached
      <3>1. s \in alive /\ sentry[s] \in 1 .. Len(stack) /\ stack[sentry[s]].signal = s /\ stack[sentry[s]].attached
        BY <2>1, <2>2 DEF SentriesRight
      <3>2. sentry[s] # Len(stack)
        BY <3>1 DEF Top
      <3> QED
        BY <1>2, <3>1, <3>2
    <2>3. \A s \in SignalSet : s \in net.sending <=> sentry[s] # 0
      BY <2>1 DEF SentriesRight
    <2>4. \A i \in 1 .. Len(Below) :
            Below[i].attached /\ Below[i].signal \notin nested => i = sentry[Below[i].signal]
      BY <1>2, <2>1 DEF SentriesRight
    <2> QED
      BY <2>2, <2>3, <2>4 DEF SentriesRight
  <1>4. \A i \in 1 .. Len(Below) : CalledRight(Below[i], net.valid) /\ InList(Below[i])
    BY <1>1, <1>2 DEF StackRight
  <1>5. Len(Below) <= MaxDepth
    BY <1>1, <1>2, SignalAssumption DEF StackRight
  <1>6. StackRight(Below)
    BY <1>2, <1>3, <1>4, <1>5 DEF StackRight
  <1>7. StackRight(stack)'
    BY <1>6, SameStack
  <1>8. SignalTypes'
    BY <1>1 DEF SignalTypes
  <1> QED
    BY <1>7, <1>8, NetsStay

LEMMA KeepLeave ==
  ASSUME SignalInv, stack # <<>>, Leave, throwing' \in BOOLEAN
  PROVE  SignalInv'
  <1> DEFINE s == Top.signal
  <1>1. StackRight(stack) /\ SignalTypes /\ ends \in Seq(ConnectionType) /\ Orderly(net) /\ SentriesRight(stack)
        /\ sentry \in [SignalSet -> 0 .. MaxDepth] /\ BothWays(net, alive) /\ Dropped(net, nested)
    BY SignalFacts DEF StackRight
  <1>2. /\ Below \in Seq(FrameSet) /\ Len(Below) = Len(stack) - 1 /\ Len(Below) \in Nat /\ Len(stack) \in Nat
        /\ \A i \in 1 .. Len(Below) : i \in 1 .. Len(stack) /\ i # Len(stack) /\ Below[i] = stack[i]
        /\ \A i \in 1 .. Len(stack) : i # Len(stack) => i \in 1 .. Len(Below)
    BY PoppedStack
  <1>3. s \in SignalSet /\ s \in Objects /\ Len(stack) \in 1 .. Len(stack) /\ Top = stack[Len(stack)]
    BY TopFrame DEF Top
  <1>4. CASE ~Top.attached
    BY <1>4, KeepReturn DEF Leave
  <1>5. CASE Top.attached
    <2>1. net' = Cleaned(net, s) /\ sentry' = [sentry EXCEPT ![s] = 0] /\ stack' = Below
          /\ UNCHANGED <<alive, ends, nested>>
      BY <1>5 DEF Leave
    <2>2. Cleans(net, net', s)
      BY <1>1, <1>3, <2>1, CleanedFacts
    <2>3. Orderly(net') /\ net'.valid = net.valid /\ net'.sending = net.sending \ {s}
          /\ \A o \in Objects \ {s} : net'.list[o] = net.list[o]
      BY <2>2 DEF Cleans
    <2>4. BothWays(net', alive)
      <3> SUFFICES ASSUME NEW c \in net.valid, NEW o \in EndsOf(c)
                   PROVE  o \in alive /\ c \in Elements(net'.list[o])
        BY <2>3 DEF BothWays
      <3>1. o \in alive /\ c \in Elements(net.list[o]) /\ o \in Objects
        BY <1>1, SignalFacts DEF BothWays
      <3> QED
        BY <2>2, <3>1 DEF Cleans
    <2>5. Dropped(net', nested)
      <3> SUFFICES ASSUME NEW o \in Objects \ nested
                   PROVE  Elements(net'.list[o]) \subseteq net'.valid \/ o \in net'.sending \cap net'.dirty
        BY DEF Dropped
      <3>1. Elements(net.list[o]) \subseteq net.valid \/ o \in net.sending \cap net.dirty
        BY <1>1 DEF Dropped
      <3>2. CASE o = s
        BY <2>2, <3>1, <3>2 DEF Cleans
      <3>3. CASE o # s
        BY <2>2, <3>1, <3>3 DEF Cleans
      <3> QED
        BY <3>2, <3>3
    <2>6. /\ sentry' \in [SignalSet -> 0 .. MaxDepth] /\ sentry'[s] = 0
          /\ \A x \in SignalSet \ {s} : sentry'[x] = sentry[x]
      <3>1. 0 \in 0 .. MaxDepth
        BY SignalAssumption
      <3> QED
        BY <1>1, <1>3, <2>1, <3>1
    <2>7. SignalTypes'
      BY <1>1, <2>1, <2>6 DEF SignalTypes
    <2>8. \A i \in 1 .. Len(Below) : Below[i].signal \in SignalSet
                 /\ (Below[i].attached /\ Below[i].signal \notin nested => Below[i].signal # s)
      <3> SUFFICES ASSUME NEW i \in 1 .. Len(Below), Below[i].attached, Below[i].signal \notin nested
                   PROVE  Below[i].signal # s
        BY <1>1, <1>2, StackFacts
      <3>1. i \in 1 .. Len(stack) /\ i # Len(stack) /\ Below[i] = stack[i]
        BY <1>2
      <3>2. i = sentry[stack[i].signal]
        BY <1>1, <3>1 DEF SentriesRight
      <3>3. s \notin nested => Len(stack) = sentry[s]
        BY <1>1, <1>3, <1>5 DEF SentriesRight
      <3> QED
        BY <3>1, <3>2, <3>3
    <2>9. ASSUME NEW x \in SignalSet
          PROVE  /\ x \in net'.sending <=> sentry'[x] # 0
                 /\ sentry'[x] # 0 => /\ x \in alive /\ sentry'[x] \in 1 .. Len(Below)
                                      /\ Below[sentry'[x]].signal = x /\ Below[sentry'[x]].attached
      <3>1. /\ x \in net.sending <=> sentry[x] # 0
            /\ sentry[x] # 0 => /\ x \in alive /\ sentry[x] \in 1 .. Len(stack)
                                /\ stack[sentry[x]].signal = x /\ stack[sentry[x]].attached
        BY <1>1 DEF SentriesRight
      <3>2. CASE x = s
        BY <2>3, <2>6, <3>2
      <3>3. CASE x # s
        <4>1. sentry'[x] = sentry[x] /\ (x \in net'.sending <=> x \in net.sending)
          BY <2>3, <2>6, <3>3
        <4>2. sentry[x] # 0 => sentry[x] # Len(stack)
          BY <1>3, <3>1, <3>3
        <4> QED
          BY <1>2, <3>1, <4>1, <4>2
      <3> QED
        BY <3>2, <3>3
    <2>10. SentriesRight(stack)'
      <3>1. \A i \in 1 .. Len(Below) :
              Below[i].attached /\ Below[i].signal \notin nested => i = sentry'[Below[i].signal]
        BY <1>1, <1>2, <2>6, <2>8 DEF SentriesRight
      <3> QED
        BY <2>1, <2>9, <3>1 DEF SentriesRight
    <2>11. ASSUME NEW i \in 1 .. Len(Below)
           PROVE  CalledRight(Below[i], net'.valid) /\ (Below[i].attached /\ Below[i].signal \notin nested
                    /\ Below[i].at # End => Below[i].at \in Elements(net'.list[Below[i].signal]))
      <3>1. CalledRight(Below[i], net.valid) /\ InList(Below[i]) /\ Below[i].signal \in SignalSet
        BY <1>1, <1>2, StackFacts
      <3> QED
        BY <2>3, <2>8, <3>1 DEF InList, Objects
    <2>12. \A i \in 1 .. Len(stack') : (CalledRight(stack[i], net.valid) /\ InList(stack[i]))'
      BY <2>1, <2>11 DEF CalledRight, InList, Ahead
    <2>13. StackRight(stack)'
      <3>1. Len(Below) <= MaxDepth
        BY <1>1, <1>2, SignalAssumption DEF StackRight
      <3>2. (stack \in Seq(FrameSet))'
        BY <1>2, <2>1 DEF FrameSet, Connections
      <3> QED
        BY <2>1, <2>10, <2>12, <3>1, <3>2 DEF StackRight
    <2> QED
      BY <2>1, <2>3, <2>4, <2>5, <2>7, <2>13, SignalsStay
  <1> QED
    BY <1>4, <1>5

LEMMA KeepReturned ==
  ASSUME SignalInv, Returned
  PROVE  SignalInv'
  <1>1. stack # <<>> /\ Top.state # "loop" /\ UNCHANGED <<alive, ends, net, sentry, throwing, nested>>
    BY DEF Returned
  <1>2. CASE ~Top.attached /\ stack' = Below
    BY <1>1, <1>2, KeepReturn, SignalFacts DEF SignalTypes
  <1>3. CASE InPlace(Top) /\ stack' = Append(Below, [Top EXCEPT !.at = Following(Top.signal, Top.at), !.state = "loop"])
    <2> DEFINE f == [Top EXCEPT !.at = Following(Top.signal, Top.at), !.state = "loop"]
    <2>1. Top \in FrameSet /\ Top.signal \in SignalSet /\ Top.at \in Elements(net.list[Top.signal])
      BY <1>1, <1>3, TopFrame
    <2>2. f \in FrameSet
      BY <2>1, FollowingFacts DEF FrameSet
    <2> HIDE DEF f
    <2>3. f.signal = Top.signal /\ f.attached = Top.attached /\ CalledRight(f, net.valid) /\ InList(f)
      BY <1>1, <1>3, <2>2, TopFollows DEF f
    <2> QED
      BY <1>1, <1>3, <2>2, <2>3, KeepWalk DEF f
  <1> QED
    BY <1>2, <1>3 DEF Returned

\* The frame of a send() that begins.
LEMMA NewFrameFacts ==
  ASSUME SignalInv, NEW s \in SignalSet
  PROVE  /\ NewFrame(s) \in FrameSet /\ NewFrame(s).signal = s /\ NewFrame(s).attached
         /\ CalledRight(NewFrame(s), net.valid)
         /\ NewFrame(s).at # End => NewFrame(s).at \in Elements(net.list[s])
  <1> DEFINE l == net.list[s]
             f == NewFrame(s)
  <1>0. s \in Objects /\ End = 0
    BY DEF Objects, End
  <1>1. l \in Seq(Connections) /\ Len(l) \in Nat /\ Rising(l) /\ Elements(l) \subseteq Connections
    BY <1>0, SignalFacts, NetFacts
  <1>2. l # <<>> => 1 \in 1 .. Len(l) /\ Head(l) = l[1]
    BY <1>1
  <1>3. \A c \in Connections : c \in Nat /\ c # 0
    BY SignalFacts DEF Connections
  <1> DEFINE at == IF l = <<>> THEN End ELSE Head(l)
             due == {c \in net.valid : ends[c].from = s}
  <1>4. f = [signal |-> s, at |-> at, attached |-> TRUE, state |-> "loop", due |-> due, called |-> <<>>]
    BY DEF NewFrame
  <1>5. at \in Nat /\ (at # End => at \in Elements(l))
    <2>1. CASE l = <<>>
      BY <1>0, <2>1
    <2>2. CASE l # <<>>
      <3>1. at = l[1] /\ l[1] \in Elements(l)
        BY <1>2, <2>2 DEF Elements
      <3> HIDE DEF at, l
      <3> QED
        BY <1>1, <1>3, <3>1
    <2> QED
      BY <2>1, <2>2
  <1>6. due \in SUBSET Connections /\ \A c \in due : c \in net.valid /\ ends[c].from = s
    BY SignalFacts
  <1>7. \A c \in due : at # End /\ at <= c
    <2> TAKE c \in due
    <2>1. c \in Elements(l)
      BY <1>6, SignalFacts DEF BothWays
    <2>2. PICK j \in 1 .. Len(l) : l[j] = c
      BY <2>1 DEF Elements
    <2>3. l # <<>> /\ (1 = j \/ 1 < j)
      BY <1>1, <2>2
    <2>4. at = l[1] /\ l[1] \in Elements(l)
      BY <1>2, <2>3 DEF Elements
    <2>5. l[1] = c \/ l[1] < c
      BY <1>1, <1>2, <2>2, <2>3 DEF Rising
    <2> HIDE DEF at, l
    <2> QED
      BY <1>0, <1>1, <1>3, <2>1, <2>4, <2>5
  <1> HIDE DEF f, at, due, l
  <1>8. <<>> \in Seq(Connections) /\ Rising(<<>>) /\ Elements(<<>>) = {}
    <2>1. <<>> \in Seq(Connections) /\ Len(<<>>) = 0 /\ 1 .. 0 = {}
      OBVIOUS
    <2> QED
      BY <2>1 DEF Rising, Elements
  <1>9. f \in FrameSet /\ f.signal = s /\ f.attached /\ f.at = at /\ f.state = "loop" /\ f.due = due /\ f.called = <<>>
    BY <1>4, <1>5, <1>6, <1>8 DEF FrameSet
  <1>10. CalledRight(f, net.valid)
    BY <1>6, <1>7, <1>8, <1>9 DEF CalledRight, Ahead
  <1> QED
    BY <1>5, <1>9, <1>10 DEF f, l

\* A send() begins on top of st.
LEMMA KeepEnter ==
  ASSUME SignalInv, NEW STATE st, StackRight(st), NEW s \in SignalSet, Enter(s, st)
  PROVE  SignalInv'
  <1> DEFINE f == NewFrame(s)
             n == Len(st)
  <1>1. /\ s \in alive /\ n < MaxDepth /\ stack' = Append(st, f) /\ sentry' = [sentry EXCEPT ![s] = n + 1]
        /\ net' = [net EXCEPT !.sending = net.sending \cup {s}, !.dirty = net.dirty \ {s}]
        /\ nested' = IF \E i \in DOMAIN st : st[i].signal = s /\ st[i].attached THEN nested \cup {s} ELSE nested
        /\ UNCHANGED <<alive, ends, throwing>>
    BY DEF Enter
  <1>2. /\ st \in Seq(FrameSet) /\ n \in Nat /\ DOMAIN st = 1 .. n /\ n <= MaxDepth /\ SentriesRight(st)
        /\ \A i \in 1 .. n : st[i] \in FrameSet /\ st[i].signal \in SignalSet /\ CalledRight(st[i], net.valid)
                             /\ InList(st[i])
    BY StackFacts DEF StackRight
  <1>3. /\ f \in FrameSet /\ f.signal = s /\ f.attached /\ CalledRight(f, net.valid)
        /\ f.at # End => f.at \in Elements(net.list[s])
    BY NewFrameFacts
  <1> HIDE DEF f
  <1>4. /\ stack' \in Seq(FrameSet) /\ Len(stack') = n + 1 /\ stack'[n + 1] = f
        /\ \A i \in 1 .. n : stack'[i] = st[i]
    BY <1>1, <1>2, <1>3
  <1>5. \A i \in 1 .. n + 1 : i \in 1 .. n \/ i = n + 1
    BY <1>2
  <1>6. nested \subseteq nested' /\ nested' \subseteq SignalSet /\ nested' \subseteq nested \cup {s}
        /\ (s \notin nested' => \A i \in 1 .. n : st[i].signal = s => ~st[i].attached)
    BY <1>1, <1>2, SignalFacts
  <1>7. s \notin nested' => s \notin net.sending
    BY <1>2, <1>6 DEF SentriesRight
  <1>8. /\ net'.valid = net.valid /\ net'.list = net.list /\ net'.sending = net.sending \cup {s}
        /\ net'.dirty = net.dirty \ {s} /\ Orderly(net')
    <2>1. /\ net = [valid |-> net.valid, list |-> net.list, sending |-> net.sending, dirty |-> net.dirty]
          /\ net.valid \subseteq Connections /\ net.list \in [Objects -> Seq(Connections)]
          /\ net.sending \cup {s} \in SUBSET SignalSet /\ net.dirty \ {s} \in SUBSET (net.sending \cup {s})
          /\ \A o \in Objects : Rising(net.list[o]) /\ \A c \in Elements(net.list[o]) : o \in EndsOf(c)
      BY SignalFacts, NetFacts
    <2>2. net' = [valid |-> net.valid, list |-> net.list, sending |-> net.sending \cup {s}, dirty |-> net.dirty \ {s}]
      BY <1>1, <2>1
    <2> QED
      BY <2>1, <2>2, NetMade
  <1>9. BothWays(net', alive')
    BY <1>1, <1>8, SignalFacts DEF BothWays
  <1>10. Dropped(net', nested')
    <2> SUFFICES ASSUME NEW o \in Objects \ nested'
                 PROVE  Elements(net.list[o]) \subseteq net.valid \/ o \in net'.sending \cap net'.dirty
      BY <1>8 DEF Dropped
    <2>1. Elements(net.list[o]) \subseteq net.valid \/ o \in net.sending \cap net.dirty
      BY <1>6, SignalFacts DEF Dropped
    <2> QED
      BY <1>7, <1>8, <2>1
  <1>11. /\ sentry' \in [SignalSet -> 0 .. MaxDepth] /\ sentry'[s] = n + 1
         /\ \A x \in SignalSet \ {s} : sentry'[x] = sentry[x]
    <2>1. n + 1 \in 0 .. MaxDepth /\ sentry \in [SignalSet -> 0 .. MaxDepth]
      BY <1>1, <1>2, SignalAssumption, SignalFacts
    <2> QED
      BY <1>1, <2>1
  <1>12. SignalTypes'
    BY <1>1, <1>6, <1>11, SignalFacts DEF SignalTypes
  <1>13. ASSUME NEW x \in SignalSet
         PROVE  /\ x \in net'.sending <=> sentry'[x] # 0
                /\ sentry'[x] # 0 => /\ x \in alive /\ sentry'[x] \in 1 .. n + 1
                                     /\ stack'[sentry'[x]].signal = x /\ stack'[sentry'[x]].attached
    <2>1. CASE x = s
      <3>1. n + 1 # 0 /\ n + 1 \in 1 .. n + 1
        BY <1>2
      <3> QED
        BY <1>1, <1>3, <1>4, <1>8, <1>11, <2>1, <3>1
    <2>2. CASE x # s
      <3>1. /\ x \in net.sending <=> sentry[x] # 0
            /\ sentry[x] # 0 => /\ x \in alive /\ sentry[x] \in 1 .. n
                                /\ st[sentry[x]].signal = x /\ st[sentry[x]].attached
        BY <1>2 DEF SentriesRight
      <3>2. 1 .. n \subseteq 1 .. n + 1
        BY <1>2
      <3> QED
        BY <1>4, <1>8, <1>11, <2>2, <3>1, <3>2
    <2> QED
      BY <2>1, <2>2
  <1>14. ASSUME NEW i \in 1 .. n + 1, stack'[i].attached, stack'[i].signal \notin nested'
         PROVE  i = sentry'[stack'[i].signal]
    <2>1. CASE i = n + 1
      BY <1>3, <1>4, <1>11, <2>1
    <2>2. CASE i \in 1 .. n
      <3>1. stack'[i] = st[i] /\ st[i].signal # s /\ st[i].signal \in SignalSet /\ st[i].signal \notin nested
        BY <1>2, <1>4, <1>6, <1>14, <2>2
      <3>2. i = sentry[st[i].signal]
        BY <1>2, <1>14, <2>2, <3>1 DEF SentriesRight
      <3> QED
        BY <1>11, <3>1, <3>2
    <2> QED
      BY <1>5, <2>1, <2>2
  <1>15. SentriesRight(stack)'
    BY <1>1, <1>4, <1>13, <1>14 DEF SentriesRight
  <1>16. ASSUME NEW i \in 1 .. n + 1
         PROVE  (CalledRight(stack[i], net.valid) /\ InList(stack[i]))'
    <2>1. CASE i = n + 1
      <3>1. CalledRight(f, net'.valid) /\ (f.at # End => f.at \in Elements(net'.list[f.signal]))
        BY <1>3, <1>8
      <3> QED
        BY <1>1, <1>4, <2>1, <3>1 DEF CalledRight, InList, Ahead
    <2>2. CASE i \in 1 .. n
      <3>1. CalledRight(st[i], net'.valid) /\ InList(st[i]) /\ stack'[i] = st[i]
        BY <1>2, <1>4, <1>8, <2>2
      <3> QED
        BY <1>1, <1>6, <1>8, <3>1 DEF CalledRight, InList, Ahead
    <2> QED
      BY <1>5, <2>1, <2>2
  <1>17. StackRight(stack)'
    <2>1. n + 1 <= MaxDepth
      BY <1>1, <1>2, SignalAssumption
    <2>2. (stack \in Seq(FrameSet))'
      BY <1>1, <1>4 DEF FrameSet, Connections
    <2> QED
      BY <1>4, <1>15, <1>16, <2>1, <2>2 DEF StackRight
  <1> QED
    BY <1>1, <1>8, <1>9, <1>10, <1>12, <1>17, SignalsStay

LEMMA KeepSend ==
  ASSUME SignalInv, NEW s \in SignalSet, Send(s)
  PROVE  SignalInv'
  BY SignalFacts, KeepEnter DEF Send

LEMMA KeepCallSignal ==
  ASSUME SignalInv, CallSignal
  PROVE  SignalInv'
  <1> DEFINE f == [Top EXCEPT !.state = "chained", !.called = Append(Top.called, Top.at)]
             r == ends[Top.at].to
  <1>1. stack # <<>> /\ Top.state = "loop" /\ InPlace(Top) /\ r \in SignalSet /\ Enter(r, Append(Below, f))
    BY DEF CallSignal, Calling
  <1> HIDE DEF f
  <1>2. f \in FrameSet /\ f.signal = Top.signal /\ f.attached = Top.attached /\ CalledRight(f, net.valid) /\ InList(f)
    BY <1>1, TopCalls DEF f
  <1>3. StackRight(Append(Below, f))
    BY <1>1, <1>2, TopStays
  <1> QED
    BY <1>1, <1>3, KeepEnter

\* What is closed is dropped, or marked to be.
LEMMA ClosesDrops ==
  ASSUME ends \in Seq(ConnectionType), NEW n, NEW m, NEW cs, NEW excepted, Orderly(n), Closes(n, m, cs), Dropped(n, excepted)
  PROVE  Dropped(m, excepted)
  <1> SUFFICES ASSUME NEW o \in Objects \ excepted
               PROVE  Elements(m.list[o]) \subseteq m.valid \/ o \in m.sending \cap m.dirty
    BY DEF Dropped
  <1>1. Elements(n.list[o]) \subseteq n.valid \/ o \in n.sending \cap n.dirty
    BY DEF Dropped
  <1>2. /\ m.valid = n.valid \ cs /\ m.sending = n.sending /\ n.dirty \subseteq m.dirty
        /\ Elements(m.list[o]) = IF o \in n.sending THEN Elements(n.list[o]) ELSE Elements(n.list[o]) \ (cs \cap n.valid)
        /\ o \in n.sending => \A c \in cs \cap n.valid : o \in EndsOf(c) => o \in m.dirty
    BY DEF Closes
  <1>3. \A c \in Elements(n.list[o]) : o \in EndsOf(c)
    BY NetFacts
  <1>4. n.dirty \subseteq n.sending
    BY NetFacts
  <1>5. CASE o \in n.sending
    <2>1. CASE o \in m.dirty
      BY <1>2, <1>5, <2>1
    <2>2. CASE o \notin m.dirty
      <3>1. Elements(n.list[o]) \subseteq n.valid
        BY <1>1, <1>2, <2>2
      <3>2. \A c \in Elements(n.list[o]) : c \notin cs
        BY <1>2, <1>3, <1>5, <2>2, <3>1
      <3> QED
        BY <1>2, <1>5, <3>1, <3>2
    <2> QED
      BY <2>1, <2>2
  <1>6. CASE o \notin n.sending
    BY <1>1, <1>2, <1>4, <1>6
  <1> QED
    BY <1>5, <1>6

LEMMA ClearsDrops ==
  ASSUME ends \in Seq(ConnectionType), NEW n, NEW m, NEW x \in Objects, NEW excepted,
         Orderly(n), Clears(n, m, x), Dropped(n, excepted)
  PROVE  Dropped(m, excepted)
  <1> SUFFICES ASSUME NEW o \in Objects \ excepted
               PROVE  Elements(m.list[o]) \subseteq m.valid \/ o \in m.sending \cap m.dirty
    BY DEF Dropped
  <1> DEFINE cs == Elements(n.list[x])
  <1>1. Elements(n.list[o]) \subseteq n.valid \/ o \in n.sending \cap n.dirty
    BY DEF Dropped
  <1>2. /\ m.valid = n.valid \ cs /\ m.sending = n.sending /\ n.dirty \subseteq m.dirty /\ m.list[x] = <<>>
        /\ o # x => Elements(m.list[o]) = IF o \in n.sending THEN Elements(n.list[o])
                                          ELSE Elements(n.list[o]) \ (cs \cap n.valid)
        /\ o \in n.sending => \A c \in cs \cap n.valid : o \in EndsOf(c) => o \in m.dirty
    BY DEF Clears
  <1>3. (\A c \in Elements(n.list[o]) : o \in EndsOf(c)) /\ n.dirty \subseteq n.sending
    BY NetFacts
  <1> HIDE DEF cs
  <1>4. CASE o = x
    <2>1. Len(<<>>) = 0 /\ 1 .. 0 = {}
      OBVIOUS
    <2>2. Elements(m.list[o]) = {}
      BY <1>2, <1>4, <2>1 DEF Elements
    <2> QED
      BY <2>2
  <1>5. CASE o # x /\ o \in n.sending
    <2>1. CASE o \in m.dirty
      BY <1>2, <1>5, <2>1
    <2>2. CASE o \notin m.dirty
      <3>1. Elements(n.list[o]) \subseteq n.valid
        BY <1>1, <1>2, <2>2
      <3>2. \A c \in Elements(n.list[o]) : c \notin cs
        BY <1>2, <1>3, <1>5, <2>2, <3>1
      <3> QED
        BY <1>2, <1>5, <3>1, <3>2
    <2> QED
      BY <2>1, <2>2
  <1>6. CASE o # x /\ o \notin n.sending
    BY <1>1, <1>2, <1>3, <1>6
  <1> QED
    BY <1>4, <1>5, <1>6

LEMMA ClearsBothWays ==
  ASSUME ends \in Seq(ConnectionType), NEW n, NEW m, NEW x \in Objects, NEW living \in SUBSET Objects,
         Orderly(n), Clears(n, m, x), BothWays(n, living)
  PROVE  BothWays(m, living \ {x})
  <1> SUFFICES ASSUME NEW c \in m.valid, NEW o \in EndsOf(c)
               PROVE  o \in living \ {x} /\ c \in Elements(m.list[o])
    BY DEF BothWays
  <1>1. c \in n.valid /\ c \notin Elements(n.list[x])
    BY DEF Clears
  <1>2. o \in living /\ c \in Elements(n.list[o])
    BY <1>1 DEF BothWays
  <1>3. o # x /\ o \in Objects \ {x}
    BY <1>1, <1>2
  <1>4. c \in Elements(m.list[o])
    BY <1>1, <1>2, <1>3 DEF Clears
  <1> QED
    BY <1>2, <1>3, <1>4

\* Connections are closed, by the program or by the end of a receiver.
LEMMA KeepClosing ==
  ASSUME SignalInv, NEW cs, Closes(net, net', cs), alive' \subseteq alive, alive \cap SignalSet \subseteq alive',
         \A c \in net'.valid : \A o \in EndsOf(c) : o \in alive',
         UNCHANGED <<ends, sentry, stack, throwing, nested>>
  PROVE  SignalInv'
  <1>1. /\ Orderly(net') /\ net'.valid = net.valid \ cs /\ net'.sending = net.sending
        /\ \A o \in Objects : Elements(net'.list[o]) = IF o \in net.sending THEN Elements(net.list[o])
                                                       ELSE Elements(net.list[o]) \ (cs \cap net.valid)
    BY DEF Closes
  <1>2. Dropped(net', nested')
    BY ClosesDrops, SignalFacts
  <1>3. BothWays(net', alive')
    <2> SUFFICES ASSUME NEW c \in net'.valid, NEW o \in EndsOf(c)
                 PROVE  c \in Elements(net'.list[o])
      BY DEF BothWays
    <2>1. c \in net.valid /\ c \notin cs
      BY <1>1
    <2>2. c \in Elements(net.list[o]) /\ o \in Objects
      BY <2>1, SignalFacts DEF BothWays
    <2> QED
      BY <1>1, <2>1, <2>2
  <1>4. SignalTypes'
    BY SignalFacts DEF SignalTypes
  <1>5. StackRight(stack) /\ SentriesRight(stack) /\ stack \in Seq(FrameSet) /\ Len(stack) <= MaxDepth
        /\ \A i \in 1 .. Len(stack) : stack[i].signal \in SignalSet /\ CalledRight(stack[i], net.valid) /\ InList(stack[i])
    BY SignalFacts, StackFacts DEF StackRight
  <1>6. SentriesRight(stack)'
    BY <1>1, <1>5 DEF SentriesRight
  <1>7. ASSUME NEW i \in 1 .. Len(stack)
        PROVE  (CalledRight(stack[i], net.valid) /\ InList(stack[i]))'
    <2>1. CalledRight(stack[i], net'.valid)
      BY <1>1, <1>5 DEF CalledRight
    <2>2. ASSUME stack[i].attached, stack[i].signal \notin nested, stack[i].at # End
          PROVE  stack[i].at \in Elements(net'.list[stack[i].signal])
      <3> DEFINE s == stack[i].signal
      <3>1. s \in SignalSet /\ s \in Objects /\ i = sentry[s] /\ i # 0 /\ stack[i].at \in Elements(net.list[s])
        BY <1>5, <2>2 DEF SentriesRight, InList, Objects
      <3>2. s \in net.sending
        BY <1>5, <3>1 DEF SentriesRight
      <3> HIDE DEF s
      <3>3. stack[i].at \in Elements(net'.list[s])
        BY <1>1, <3>1, <3>2
      <3> QED
        BY <3>3 DEF s
    <2> QED
      BY <2>1, <2>2 DEF CalledRight, InList, Ahead
  <1>8. StackRight(stack)'
    BY <1>5, <1>6, <1>7 DEF StackRight, FrameSet, Connections
  <1> QED
    BY <1>1, <1>2, <1>3, <1>4, <1>8, SignalsStay

LEMMA KeepClose ==
  ASSUME SignalInv, NEW c \in DOMAIN ends, Close(c)
  PROVE  SignalInv'
  <1>1. Closes(net, net', {c}) /\ UNCHANGED <<alive, ends, sentry, stack, throwing, nested>>
    BY SignalFacts, CloseAllFacts DEF Close
  <1>2. \A d \in net'.valid : \A o \in EndsOf(d) : o \in alive'
    BY <1>1, SignalFacts DEF Closes, BothWays
  <1> QED
    BY <1>1, <1>2, KeepClosing

LEMMA KeepDisconnectSlot ==
  ASSUME SignalInv, NEW s \in SignalSet, NEW r \in Objects, DisconnectSlot(s, r)
  PROVE  SignalInv'
  <1> DEFINE l == net.list[s]
             equal == {i \in DOMAIN l : ends[l[i]].to = r}
             p == CHOOSE i \in equal : \A j \in equal : i <= j
  <1>1. l \in Seq(Connections) /\ DOMAIN l = 1 .. Len(l)
    BY SignalFacts, NetFacts
  <1>2. equal # {} /\ equal \subseteq 1 .. Len(l)
    BY <1>1 DEF DisconnectSlot
  <1>3. p \in equal
    <2>1. equal \in SUBSET Nat
      BY <1>1, <1>2
    <2>2. \E i \in equal : \A j \in equal : i <= j
      <3> HIDE DEF equal
      <3> QED
        BY <1>2, <2>1, FirstPlace
    <2> HIDE DEF equal
    <2> QED
      BY <2>2
  <1>4. l[p] \in Connections
    <2> HIDE DEF p, equal, l
    <2> QED
      BY <1>1, <1>2, <1>3
  <1>5. net' = CloseAll(net, {l[p]}) /\ UNCHANGED <<alive, ends, sentry, stack, throwing, nested>>
    BY DEF DisconnectSlot
  <1> HIDE DEF p, equal, l
  <1>6. Closes(net, net', {l[p]})
    BY <1>4, <1>5, SignalFacts, CloseAllFacts
  <1>7. \A d \in net'.valid : \A o \in EndsOf(d) : o \in alive'
    BY <1>5, <1>6, SignalFacts DEF Closes, BothWays
  <1> QED
    BY <1>5, <1>6, <1>7, KeepClosing

LEMMA KeepDeleteReceiver ==
  ASSUME SignalInv, NEW r \in Receivers, DeleteReceiver(r)
  PROVE  SignalInv'
  <1>0. r \in Objects /\ r \notin SignalSet
    BY SignalAssumption DEF Objects
  <1>1. alive' = alive \ {r} /\ net' = Clear(net, r) /\ UNCHANGED <<ends, sentry, stack, throwing, nested>>
    BY DEF DeleteReceiver
  <1>2. Clears(net, net', r)
    BY <1>0, <1>1, SignalFacts, ClearFacts
  <1>3. Elements(net.list[r]) \subseteq net.valid /\ r \notin net.sending
    BY <1>0, SignalFacts DEF Dropped
  <1>4. Elements(net'.list[r]) = {}
    <2>1. Len(<<>>) = 0 /\ 1 .. 0 = {}
      OBVIOUS
    <2> QED
      BY <1>2, <2>1 DEF Clears, Elements
  <1>5. Closes(net, net', Elements(net.list[r]))
    <2>1. ASSUME NEW o \in Objects
          PROVE  Elements(net'.list[o]) = IF o \in net.sending THEN Elements(net.list[o])
                                          ELSE Elements(net.list[o]) \ (Elements(net.list[r]) \cap net.valid)
      <3>1. CASE o = r
        BY <1>3, <1>4, <3>1
      <3>2. CASE o # r
        BY <1>2, <3>2 DEF Clears
      <3> QED
        BY <3>1, <3>2
    <2> QED
      BY <1>2, <2>1 DEF Clears, Closes
  <1>6. BothWays(net', alive')
    BY <1>0, <1>1, <1>2, SignalFacts, ClearsBothWays
  <1>7. \A c \in net'.valid : \A o \in EndsOf(c) : o \in alive'
    BY <1>6 DEF BothWays
  <1>8. alive' \subseteq alive /\ alive \cap SignalSet \subseteq alive'
    BY <1>0, <1>1
  <1> QED
    BY <1>1, <1>5, <1>7, <1>8, KeepClosing

LEMMA GrownNet ==
  ASSUME ends \in Seq(ConnectionType), ends' \in Seq(ConnectionType), Len(ends) <= Len(ends'),
         \A c \in Connections : ends'[c] = ends[c],
         NEW STATE n, Orderly(n), BothWays(n, alive'), Dropped(n, nested'),
         NEW more \in [Objects -> Seq(Len(ends) + 1 .. Len(ends'))],
         \A o \in Objects : Rising(more[o]) /\ \A c \in Elements(more[o]) : o \in {ends'[c].from, ends'[c].to},
         \A c \in Len(ends) + 1 .. Len(ends') : \A o \in {ends'[c].from, ends'[c].to} :
            o \in alive' /\ o \in Objects /\ c \in Elements(more[o]),
         net' = [valid |-> n.valid \cup (Len(ends) + 1 .. Len(ends')),
                 list |-> [o \in Objects |-> n.list[o] \o more[o]], sending |-> n.sending, dirty |-> n.dirty]
  PROVE  /\ Orderly(net)' /\ BothWays(net, alive)' /\ Dropped(net, nested)'
         /\ net'.sending = n.sending /\ net'.valid \cap Connections \subseteq n.valid
         /\ \A o \in Objects : Elements(n.list[o]) \subseteq Elements(net'.list[o])
  <1> DEFINE k == Len(ends)
             m == Len(ends')
             l == [o \in Objects |-> n.list[o] \o more[o]]
  <1>1. k \in Nat /\ m \in Nat /\ k <= m /\ Connections = 1 .. k
    BY DEF Connections
  <1>2. /\ n.valid \subseteq Connections /\ n.sending \subseteq SignalSet /\ n.dirty \subseteq n.sending
        /\ \A o \in Objects : /\ n.list[o] \in Seq(Connections) /\ Rising(n.list[o])
                              /\ Elements(n.list[o]) \subseteq Connections
                              /\ \A c \in Elements(n.list[o]) : o \in EndsOf(c)
    BY NetFacts
  <1>3. ASSUME NEW o \in Objects
        PROVE  /\ l[o] \in Seq(1 .. m) /\ Rising(l[o])
               /\ Elements(l[o]) = Elements(n.list[o]) \cup Elements(more[o])
    <2>1. n.list[o] \in Seq(1 .. k) /\ Rising(n.list[o]) /\ more[o] \in Seq(k + 1 .. m) /\ Rising(more[o])
      BY <1>1, <1>2
    <2>2. l[o] = n.list[o] \o more[o]
      OBVIOUS
    <2> HIDE DEF l, k, m
    <2> QED
      BY <1>1, <2>1, <2>2, JoinedLists
  <1>4. \A c \in Connections : {ends'[c].from, ends'[c].to} = EndsOf(c)
    BY DEF EndsOf
  <1>5. net'.valid = n.valid \cup (k + 1 .. m) /\ net'.list = l /\ net'.sending = n.sending /\ net'.dirty = n.dirty
    OBVIOUS
  <1>6. l \in [Objects -> Seq(1 .. m)]
    <2>1. \A o \in Objects : l[o] \in Seq(1 .. m)
      BY <1>3
    <2> QED
      BY <2>1
  <1>7. net' \in [valid : SUBSET (1 .. m), list : [Objects -> Seq(1 .. m)], sending : SUBSET SignalSet,
                  dirty : SUBSET SignalSet]
    <2>1. n.valid \cup (k + 1 .. m) \in SUBSET (1 .. m)
      <3>1. 1 .. k \subseteq 1 .. m /\ k + 1 .. m \subseteq 1 .. m
        BY <1>1
      <3> QED
        BY <1>1, <1>2, <3>1
    <2>2. n.sending \in SUBSET SignalSet /\ n.dirty \in SUBSET SignalSet
      BY <1>2
    <2>3. net' = [valid |-> n.valid \cup (k + 1 .. m), list |-> l, sending |-> n.sending, dirty |-> n.dirty]
      OBVIOUS
    <2> DEFINE v == n.valid \cup (k + 1 .. m)
               T == 1 .. m
    <2> HIDE DEF l, v, T
    <2>4. v \in SUBSET T /\ l \in [Objects -> Seq(T)]
      BY <1>6, <2>1 DEF v, T
    <2>5. net' = [valid |-> v, list |-> l, sending |-> n.sending, dirty |-> n.dirty]
      BY <2>3 DEF v
    <2>6. \A a \in SUBSET T, b \in [Objects -> Seq(T)], c, d \in SUBSET SignalSet :
            [valid |-> a, list |-> b, sending |-> c, dirty |-> d]
              \in [valid : SUBSET T, list : [Objects -> Seq(T)], sending : SUBSET SignalSet, dirty : SUBSET SignalSet]
      OBVIOUS
    <2> QED
      <3>1. [valid |-> v, list |-> l, sending |-> n.sending, dirty |-> n.dirty]
              \in [valid : SUBSET T, list : [Objects -> Seq(T)], sending : SUBSET SignalSet, dirty : SUBSET SignalSet]
        BY <2>2, <2>4, <2>6, Zenon
      <3>2. net' \in [valid : SUBSET T, list : [Objects -> Seq(T)], sending : SUBSET SignalSet, dirty : SUBSET SignalSet]
        BY <2>5, <3>1, Zenon
      <3> QED
        BY <3>2 DEF T
  <1> HIDE DEF l, k, m
  <1>8. ASSUME NEW o \in Objects, NEW c \in Elements(l[o])
        PROVE  o \in {ends'[c].from, ends'[c].to}
    <2>1. CASE c \in Elements(n.list[o])
      BY <1>2, <1>4, <2>1
    <2>2. CASE c \in Elements(more[o])
      BY <2>2
    <2> QED
      BY <1>3, <2>1, <2>2
  <1>9. Orderly(net)'
    <2>1. \A o \in Objects : Rising(net'.list[o]) /\ \A c \in Elements(net'.list[o]) : o \in {ends'[c].from, ends'[c].to}
      BY <1>3, <1>5, <1>8
    <2> QED
      BY <1>2, <1>5, <1>7, <2>1 DEF Orderly, NetSet, Connections, EndsOf, m
  <1>10. BothWays(net, alive)'
    <2> SUFFICES ASSUME NEW c \in net'.valid, NEW o \in {ends'[c].from, ends'[c].to}
                 PROVE  o \in alive' /\ c \in Elements(net'.list[o])
      BY DEF BothWays, EndsOf
    <2>1. CASE c \in n.valid
      <3>1. o \in EndsOf(c) /\ c \in Elements(n.list[o]) /\ o \in alive'
        BY <1>2, <1>4, <2>1 DEF BothWays
      <3>2. o \in Objects
        <4>1. c \in Connections /\ ends[c] \in ConnectionType
          BY <1>2, <2>1 DEF Connections
        <4> QED
          BY <3>1, <4>1 DEF ConnectionType, Objects, EndsOf
      <3> QED
        BY <1>3, <1>5, <3>1, <3>2
    <2>2. CASE c \in k + 1 .. m
      <3>1. o \in alive' /\ o \in Objects /\ c \in Elements(more[o])
        BY <2>2 DEF k, m
      <3> QED
        BY <1>3, <1>5, <3>1
    <2> QED
      BY <1>5, <2>1, <2>2
  <1>11. Dropped(net, nested)'
    <2> SUFFICES ASSUME NEW o \in Objects \ nested'
                 PROVE  Elements(net'.list[o]) \subseteq net'.valid \/ o \in net'.sending \cap net'.dirty
      BY DEF Dropped
    <2>1. Elements(more[o]) \subseteq k + 1 .. m
      <3> DEFINE U == k + 1 .. m
      <3>1. more[o] \in Seq(U)
        BY DEF k, m
      <3> HIDE DEF U
      <3>2. \A i \in 1 .. Len(more[o]) : more[o][i] \in U
        BY <3>1
      <3>3. Elements(more[o]) \subseteq U
        BY <3>2 DEF Elements
      <3> QED
        BY <3>3 DEF U
    <2>2. Elements(n.list[o]) \subseteq n.valid \/ o \in n.sending \cap n.dirty
      BY DEF Dropped
    <2>3. Elements(net'.list[o]) = Elements(n.list[o]) \cup Elements(more[o])
      BY <1>3, <1>5
    <2> QED
      BY <1>5, <2>1, <2>2, <2>3
  <1>12. net'.valid \cap Connections \subseteq n.valid
    <2>1. \A c \in k + 1 .. m : c \notin 1 .. k
      BY <1>1
    <2> QED
      BY <1>1, <1>5, <2>1
  <1>13. \A o \in Objects : Elements(n.list[o]) \subseteq Elements(net'.list[o])
    BY <1>3, <1>5
  <1> QED
    BY <1>5, <1>9, <1>10, <1>11, <1>12, <1>13

\* Connections are made, and others may have been closed before.
LEMMA KeepGrowing ==
  ASSUME SignalInv, ends' \in Seq(ConnectionType), Len(ends) <= Len(ends'), Len(ends') <= MaxConnections,
         \A c \in Connections : ends'[c] = ends[c],
         Orderly(net)', BothWays(net, alive)', Dropped(net, nested)',
         net'.sending = net.sending, net'.valid \cap Connections \subseteq net.valid,
         \A s \in net.sending \ nested' : Elements(net.list[s]) \subseteq Elements(net'.list[s]),
         nested \subseteq nested', nested' \subseteq SignalSet, UNCHANGED <<alive, sentry, stack, throwing>>
  PROVE  SignalInv'
  <1>1. SignalTypes'
    BY SignalFacts DEF SignalTypes
  <1>2. StackRight(stack) /\ SentriesRight(stack) /\ stack \in Seq(FrameSet) /\ Len(stack) <= MaxDepth
        /\ \A i \in 1 .. Len(stack) : /\ stack[i] \in FrameSet /\ stack[i].signal \in SignalSet
                                      /\ stack[i].due \subseteq Connections
                                      /\ CalledRight(stack[i], net.valid) /\ InList(stack[i])
    BY SignalFacts, StackFacts DEF StackRight
  <1>3. SentriesRight(stack)'
    BY <1>2 DEF SentriesRight
  <1>4. ASSUME NEW i \in 1 .. Len(stack)
        PROVE  (CalledRight(stack[i], net.valid) /\ InList(stack[i]))'
    <2> DEFINE f == stack[i]
    <2>1. \A c \in f.due : ends'[c].from = f.signal
      BY <1>2 DEF CalledRight
    <2>2. f.attached => \A c \in f.due \cap net'.valid : c \in Elements(f.called) \/ Ahead(f, c)
      BY <1>2 DEF CalledRight
    <2>3. ASSUME f.attached, f.signal \notin nested', f.at # End
          PROVE  f.at \in Elements(net'.list[f.signal])
      <3>1. f.signal \in SignalSet /\ f.signal \notin nested /\ i = sentry[f.signal] /\ i # 0
            /\ f.at \in Elements(net.list[f.signal])
        BY <1>2, <2>3 DEF SentriesRight, InList
      <3>2. f.signal \in net.sending
        BY <1>2, <3>1 DEF SentriesRight
      <3> QED
        BY <2>3, <3>1, <3>2
    <2>4. Rising(f.called)
          /\ (f.at # End => \A c \in Elements(f.called) : c < f.at \/ (f.state # "loop" /\ c = f.at))
      BY <1>2 DEF CalledRight
    <2> QED
      BY <2>1, <2>2, <2>3, <2>4 DEF CalledRight, InList, Ahead
  <1>5. (stack \in Seq(FrameSet))'
    <2>1. \A f \in FrameSet : f \in FrameSet'
      <3>1. 1 .. Len(ends) \subseteq 1 .. Len(ends')
        BY SignalFacts
      <3> QED
        BY <3>1 DEF FrameSet, Connections
    <2>2. FrameSet \subseteq FrameSet'
      BY <2>1
    <2> QED
      BY <1>2, <2>2
  <1>6. StackRight(stack)'
    BY <1>2, <1>3, <1>4, <1>5 DEF StackRight
  <1> QED
    BY <1>1, <1>6 DEF SignalInv

\* A connection is made at the end of both lists.
LEMMA KeepConnect ==
  ASSUME SignalInv, NEW s \in SignalSet, NEW r \in Objects, Connect(s, r)
  PROVE  SignalInv'
  <1> DEFINE k == Len(ends)
             c == k + 1
             more == [o \in Objects |-> IF o \in {s, r} THEN <<c>> ELSE <<>>]
  <1>1. /\ s \in alive /\ r \in alive /\ k < MaxConnections /\ ends' = Append(ends, [from |-> s, to |-> r])
        /\ net' = Open(net, c, s, r) /\ UNCHANGED <<alive, sentry, stack, throwing, nested>>
    BY DEF Connect
  <1>2. /\ ends \in Seq(ConnectionType) /\ k \in Nat /\ Connections = 1 .. k /\ s \in Objects
        /\ Orderly(net) /\ BothWays(net, alive) /\ Dropped(net, nested) /\ nested \subseteq SignalSet
    BY SignalFacts DEF Connections
  <1>3. /\ ends' \in Seq(ConnectionType) /\ Len(ends') = c /\ ends'[c] = [from |-> s, to |-> r]
        /\ \A d \in Connections : ends'[d] = ends[d]
    <2>1. [from |-> s, to |-> r] \in ConnectionType
      BY DEF ConnectionType
    <2> QED
      BY <1>1, <1>2, <2>1
  <1>4. k + 1 .. Len(ends') = {c} /\ ends'[c].from = s /\ ends'[c].to = r
    BY <1>2, <1>3
  <1> DEFINE U == k + 1 .. Len(ends')
  <1>5. <<c>> \in Seq(U) /\ <<>> \in Seq(U) /\ Rising(<<c>>) /\ Rising(<<>>) /\ Elements(<<c>>) = {c} /\ Elements(<<>>) = {}
    <2>1. c \in U
      BY <1>4
    <2> HIDE DEF U, c
    <2>2. <<c>> \in Seq(U) /\ Len(<<c>>) = 1 /\ <<c>>[1] = c /\ <<>> \in Seq(U) /\ Len(<<>>) = 0
      BY <2>1
    <2>3. 1 .. 1 = {1} /\ 1 .. 0 = {} /\ ~(1 < 1)
      OBVIOUS
    <2>4. \A i \in 1 .. Len(<<c>>) : i = 1
      BY <2>2, <2>3
    <2>5. Elements(<<c>>) = {c}
      BY <2>2, <2>3, <2>4 DEF Elements
    <2>6. Rising(<<c>>)
      BY <2>3, <2>4, Zenon DEF Rising
    <2>7. Rising(<<>>) /\ Elements(<<>>) = {}
      BY <2>2, <2>3 DEF Rising, Elements
    <2> QED
      BY <2>2, <2>5, <2>6, <2>7
  <1>6. \A o \in Objects : more[o] = IF o \in {s, r} THEN <<c>> ELSE <<>>
    OBVIOUS
  <1>7. more \in [Objects -> Seq(U)]
    <2> HIDE DEF U, c
    <2> QED
      BY <1>5
  <1> HIDE DEF more
  <1>8. \A o \in Objects : Rising(more[o]) /\ \A d \in Elements(more[o]) : o \in {ends'[d].from, ends'[d].to}
    BY <1>4, <1>5, <1>6
  <1>9. \A d \in U : \A o \in {ends'[d].from, ends'[d].to} : o \in alive' /\ o \in Objects /\ d \in Elements(more[o])
    <2> SUFFICES ASSUME NEW o \in {s, r}
                 PROVE  o \in alive /\ o \in Objects /\ c \in Elements(more[o])
      BY <1>1, <1>4
    <2> QED
      BY <1>1, <1>2, <1>5, <1>6
  <1>10. net' = [valid |-> net.valid \cup U, list |-> [o \in Objects |-> net.list[o] \o more[o]],
                 sending |-> net.sending, dirty |-> net.dirty]
    <2> DEFINE l == [o \in Objects |-> IF o \in {s, r} THEN Append(net.list[o], c) ELSE net.list[o]]
               g == [o \in Objects |-> net.list[o] \o more[o]]
    <2>1. net' = [net EXCEPT !.list = l, !.valid = net.valid \cup {c}]
      BY <1>1 DEF Open
    <2>2. ASSUME NEW o \in Objects
          PROVE  net.list[o] \o more[o] = IF o \in {s, r} THEN Append(net.list[o], c) ELSE net.list[o]
      <3>1. net.list[o] \in Seq(Connections)
        BY <1>2, NetFacts
      <3>2. net.list[o] \in Seq(Nat) /\ c \in Nat
        BY <1>2, <3>1
      <3> HIDE DEF c
      <3>3. Append(net.list[o], c) = net.list[o] \o <<c>> /\ net.list[o] \o <<>> = net.list[o]
        BY <3>2, AppendIsConcat, ConcatEmptySeq
      <3> QED
        BY <1>6, <3>3
    <2>3. l = g
      BY <2>2
    <2>4. net = [valid |-> net.valid, list |-> net.list, sending |-> net.sending, dirty |-> net.dirty]
      BY <1>2, NetFacts
    <2>5. U = {c}
      BY <1>4
    <2> HIDE DEF l, g, U, c
    <2>6. net' = [valid |-> net.valid \cup U, list |-> g, sending |-> net.sending, dirty |-> net.dirty]
      BY <2>1, <2>3, <2>4, <2>5
    <2> QED
      BY <2>6 DEF g
  <1>11. k <= Len(ends') /\ Len(ends') <= MaxConnections
    BY <1>1, <1>2, <1>3, SignalAssumption
  <1>12. BothWays(net, alive') /\ Dropped(net, nested') /\ nested \subseteq nested' /\ nested' \subseteq SignalSet
    BY <1>1, <1>2
  <1> HIDE DEF c
  <1>13. /\ Orderly(net)' /\ BothWays(net, alive)' /\ Dropped(net, nested)'
         /\ net'.sending = net.sending /\ net'.valid \cap Connections \subseteq net.valid
         /\ \A o \in Objects : Elements(net.list[o]) \subseteq Elements(net'.list[o])
    BY <1>2, <1>3, <1>7, <1>8, <1>9, <1>10, <1>11, <1>12, GrownNet
  <1>14. net.sending \subseteq Objects
    BY SignalFacts
  <1> QED
    BY <1>1, <1>3, <1>11, <1>12, <1>13, <1>14, KeepGrowing

\* The clean-up at the end of a send() keeps what is valid.
LEMMA CleansSound ==
  ASSUME ends \in Seq(ConnectionType), NEW n, NEW m, NEW x \in Objects, NEW living \in SUBSET Objects, NEW excepted,
         Orderly(n), Cleans(n, m, x), BothWays(n, living), Dropped(n, excepted)
  PROVE  BothWays(m, living) /\ Dropped(m, excepted)
  <1>1. BothWays(m, living)
    <2> SUFFICES ASSUME NEW c \in n.valid, NEW o \in EndsOf(c)
                 PROVE  o \in living /\ c \in Elements(m.list[o])
      BY DEF BothWays, Cleans
    <2>1. o \in living /\ c \in Elements(n.list[o]) /\ o \in Objects
      BY DEF BothWays
    <2> QED
      BY <2>1 DEF Cleans
  <1>2. Dropped(m, excepted)
    <2> SUFFICES ASSUME NEW o \in Objects \ excepted
                 PROVE  Elements(m.list[o]) \subseteq m.valid \/ o \in m.sending \cap m.dirty
      BY DEF Dropped
    <2>1. Elements(n.list[o]) \subseteq n.valid \/ o \in n.sending \cap n.dirty
      BY DEF Dropped
    <2>2. CASE o = x
      BY <2>1, <2>2 DEF Cleans
    <2>3. CASE o # x
      BY <2>1, <2>3 DEF Cleans
    <2> QED
      BY <2>2, <2>3
  <1> QED
    BY <1>1, <1>2

LEMMA KeepDeleteSignal ==
  ASSUME SignalInv, NEW s \in SignalSet, DeleteSignal(s)
  PROVE  SignalInv'
  <1> DEFINE n == IF sentry[s] = 0 THEN net ELSE Cleaned(net, s)
             loose == [i \in DOMAIN stack |-> IF i = sentry[s] THEN [stack[i] EXCEPT !.attached = FALSE] ELSE stack[i]]
  <1>1. /\ alive' = alive \ {s} /\ net' = Clear(n, s) /\ stack' = loose /\ sentry' = [sentry EXCEPT ![s] = 0]
        /\ UNCHANGED <<ends, throwing, nested>>
    BY DEF DeleteSignal
  <1>2. /\ ends \in Seq(ConnectionType) /\ Orderly(net) /\ BothWays(net, alive) /\ Dropped(net, nested) /\ s \in Objects
        /\ alive \in SUBSET Objects /\ StackRight(stack) /\ SentriesRight(stack) /\ SignalTypes
        /\ sentry \in [SignalSet -> 0 .. MaxDepth]
    BY SignalFacts DEF StackRight
  <1>3. /\ Orderly(n) /\ BothWays(n, alive) /\ Dropped(n, nested) /\ n.valid = net.valid /\ n.sending = net.sending \ {s}
        /\ \A o \in Objects \ {s} : n.list[o] = net.list[o]
    <2>1. CASE sentry[s] = 0
      <3>1. s \notin net.sending
        BY <1>2, <2>1 DEF SentriesRight
      <3> QED
        BY <1>2, <2>1, <3>1
    <2>2. CASE sentry[s] # 0
      <3>1. n = Cleaned(net, s)
        BY <2>2
      <3> HIDE DEF n
      <3>2. Cleans(net, n, s)
        BY <1>2, <3>1, CleanedFacts
      <3>3. BothWays(n, alive) /\ Dropped(n, nested)
        BY <1>2, <3>2, CleansSound
      <3> QED
        BY <3>2, <3>3 DEF Cleans
    <2> QED
      BY <2>1, <2>2
  <1> HIDE DEF n
  <1>4. Clears(n, net', s)
    BY <1>1, <1>2, <1>3, ClearFacts
  <1>5. /\ Orderly(net') /\ net'.valid \subseteq net.valid /\ net'.sending = net.sending \ {s}
        /\ \A x \in net.sending \ {s} : Elements(net'.list[x]) = Elements(net.list[x])
    <2>1. net.sending \subseteq Objects
      BY SignalFacts
    <2> QED
      BY <1>3, <1>4, <2>1 DEF Clears
  <1>6. BothWays(net', alive') /\ Dropped(net', nested')
    BY <1>1, <1>2, <1>3, <1>4, ClearsBothWays, ClearsDrops
  <1>7. /\ sentry' \in [SignalSet -> 0 .. MaxDepth] /\ sentry'[s] = 0
        /\ \A x \in SignalSet \ {s} : sentry'[x] = sentry[x]
    <2>1. 0 \in 0 .. MaxDepth
      BY SignalAssumption
    <2> QED
      BY <1>1, <1>2, <2>1
  <1>8. SignalTypes'
    BY <1>1, <1>2, <1>7 DEF SignalTypes
  <1>9. /\ stack \in Seq(FrameSet) /\ Len(stack) \in Nat /\ DOMAIN stack = 1 .. Len(stack) /\ Len(stack) <= MaxDepth
        /\ \A i \in 1 .. Len(stack) : /\ stack[i] \in FrameSet /\ stack[i].signal \in SignalSet
                                      /\ CalledRight(stack[i], net.valid) /\ InList(stack[i])
    BY <1>2, StackFacts
  <1>10. ASSUME NEW i \in 1 .. Len(stack)
         PROVE  /\ loose[i] \in FrameSet /\ loose[i].signal = stack[i].signal /\ loose[i].at = stack[i].at
                /\ loose[i].state = stack[i].state /\ loose[i].due = stack[i].due /\ loose[i].called = stack[i].called
                /\ loose[i].attached <=> stack[i].attached /\ i # sentry[s]
    <2>1. loose[i] = IF i = sentry[s] THEN [stack[i] EXCEPT !.attached = FALSE] ELSE stack[i]
      BY <1>9
    <2>2. stack[i] \in FrameSet
      BY <1>9
    <2> HIDE DEF loose
    <2>3. CASE i = sentry[s]
      BY <2>1, <2>2, <2>3 DEF FrameSet
    <2>4. CASE i # sentry[s]
      BY <2>1, <2>2, <2>4 DEF FrameSet
    <2> QED
      BY <2>3, <2>4
  <1>11. loose \in Seq(FrameSet) /\ Len(loose) = Len(stack)
    BY <1>9, <1>10
  <1> HIDE DEF loose
  <1>12. ASSUME NEW x \in SignalSet
         PROVE  /\ x \in net'.sending <=> sentry'[x] # 0
                /\ sentry'[x] # 0 => /\ x \in alive' /\ sentry'[x] \in 1 .. Len(loose)
                                     /\ loose[sentry'[x]].signal = x /\ loose[sentry'[x]].attached
    <2>1. /\ x \in net.sending <=> sentry[x] # 0
          /\ sentry[x] # 0 => /\ x \in alive /\ sentry[x] \in 1 .. Len(stack)
                              /\ stack[sentry[x]].signal = x /\ stack[sentry[x]].attached
      BY <1>2 DEF SentriesRight
    <2>2. sentry[s] # 0 => stack[sentry[s]].signal = s
      BY <1>2 DEF SentriesRight
    <2>3. CASE x = s
      BY <1>5, <1>7, <2>3
    <2>4. CASE x # s
      <3>1. sentry'[x] = sentry[x] /\ (x \in net'.sending <=> x \in net.sending)
        BY <1>5, <1>7, <2>4
      <3>2. sentry[x] # 0 => sentry[x] # sentry[s]
        BY <2>1, <2>2, <2>4
      <3> QED
        BY <1>1, <1>10, <1>11, <2>1, <2>4, <3>1, <3>2
    <2> QED
      BY <2>3, <2>4
  <1>13. ASSUME NEW i \in 1 .. Len(stack), loose[i].attached, loose[i].signal \notin nested
         PROVE  /\ stack[i].attached /\ stack[i].signal \notin nested /\ stack[i].signal \in SignalSet \ {s}
                /\ i = sentry[stack[i].signal] /\ stack[i].signal \in net.sending
    <2>1. stack[i].attached /\ i # sentry[s] /\ stack[i].signal \notin nested
      BY <1>10, <1>13
    <2>2. i = sentry[stack[i].signal] /\ stack[i].signal \in SignalSet
      BY <1>2, <1>9, <2>1 DEF SentriesRight
    <2>3. i # 0
      BY <1>9
    <2> QED
      BY <1>2, <2>1, <2>2, <2>3 DEF SentriesRight
  <1>14. SentriesRight(stack)'
    <2>1. \A i \in 1 .. Len(loose) : loose[i].attached /\ loose[i].signal \notin nested => i = sentry'[loose[i].signal]
      BY <1>7, <1>10, <1>11, <1>13
    <2> QED
      BY <1>1, <1>12, <2>1 DEF SentriesRight
  <1>15. ASSUME NEW i \in 1 .. Len(stack)
         PROVE  /\ CalledRight(loose[i], net'.valid)
                /\ loose[i].attached /\ loose[i].signal \notin nested /\ loose[i].at # End
                     => loose[i].at \in Elements(net'.list[loose[i].signal])
    <2>1. CalledRight(stack[i], net.valid) /\ InList(stack[i])
      BY <1>9
    <2>2. CalledRight(loose[i], net'.valid)
      BY <1>5, <1>10, <2>1 DEF CalledRight, Ahead
    <2>3. ASSUME loose[i].attached, loose[i].signal \notin nested, loose[i].at # End
          PROVE  loose[i].at \in Elements(net'.list[loose[i].signal])
      <3>1. /\ stack[i].attached /\ stack[i].signal \notin nested /\ stack[i].signal \in net.sending \ {s}
        BY <1>13, <2>3
      <3>2. stack[i].at \in Elements(net.list[stack[i].signal])
        BY <1>10, <2>1, <2>3, <3>1 DEF InList
      <3> QED
        BY <1>5, <1>10, <3>1, <3>2
    <2> QED
      BY <2>2, <2>3
  <1>16. \A i \in 1 .. Len(stack') : (CalledRight(stack[i], net.valid) /\ InList(stack[i]))'
    BY <1>1, <1>11, <1>15 DEF CalledRight, InList, Ahead
  <1>17. StackRight(stack)'
    <2>1. (stack \in Seq(FrameSet))'
      BY <1>1, <1>11 DEF FrameSet, Connections
    <2> QED
      BY <1>1, <1>9, <1>11, <1>14, <1>16, <2>1 DEF StackRight
  <1> QED
    BY <1>1, <1>5, <1>6, <1>8, <1>17, SignalsStay

\* operator=: the connections of the signal are closed, and those of the other are made again.
LEMMA KeepAssign ==
  ASSUME SignalInv, NEW s \in SignalSet, NEW t \in SignalSet, Assign(s, t)
  PROVE  SignalInv'
  <1> DEFINE old == Clear(net, s)
             copied == Only(old.list[t], {c \in DOMAIN ends : ends[c].from = t})
             k == Len(ends)
             q == Len(copied)
             again == [i \in DOMAIN copied |-> k + i]
             endsAt(o) == {again[i] : i \in {j \in DOMAIN copied : o \in {s, ends[copied[j]].to}}}
             added == [i \in DOMAIN copied |-> [from |-> s, to |-> ends[copied[i]].to]]
             more == [o \in Objects |-> Only(again, endsAt(o))]
  <1>1. /\ s \in alive /\ s # t /\ \A i \in DOMAIN copied : ends[copied[i]].to \in alive \ {s}
        /\ k + q <= MaxConnections /\ ends' = ends \o added
        /\ net' = [old EXCEPT !.list = [o \in Objects |-> old.list[o] \o Only(again, endsAt(o))],
                               !.valid = old.valid \cup {again[i] : i \in DOMAIN copied}]
        /\ nested' = IF s \in net.sending THEN nested \cup {s} ELSE nested
        /\ UNCHANGED <<alive, sentry, stack, throwing>>
    BY DEF Assign
  <1>2. /\ ends \in Seq(ConnectionType) /\ k \in Nat /\ Connections = 1 .. k /\ s \in Objects /\ t \in Objects
        /\ alive \in SUBSET Objects /\ nested \subseteq SignalSet /\ net.sending \subseteq Objects
        /\ Orderly(net) /\ BothWays(net, alive) /\ Dropped(net, nested)
        /\ \A c \in Connections : ends[c] \in ConnectionType
    BY SignalFacts DEF Connections
  <1>3. Clears(net, old, s)
    BY <1>2, ClearFacts
  <1> HIDE DEF old
  <1>4. nested \subseteq nested' /\ nested' \subseteq SignalSet /\ (s \in net.sending => s \in nested')
    BY <1>1, <1>2
  <1>5. /\ Orderly(old) /\ old.sending = net.sending /\ old.valid \subseteq net.valid
        /\ \A o \in net.sending \ {s} : Elements(old.list[o]) = Elements(net.list[o])
    BY <1>2, <1>3 DEF Clears
  <1>6. BothWays(old, alive') /\ Dropped(old, nested')
    <2>1. BothWays(old, alive \ {s}) /\ Dropped(old, nested)
      BY <1>2, <1>3, ClearsBothWays, ClearsDrops
    <2> QED
      BY <1>1, <1>4, <2>1 DEF BothWays, Dropped
  <1>7. copied \in Seq(Connections) /\ q \in Nat /\ DOMAIN copied = 1 .. q /\ \A i \in 1 .. q : copied[i] \in Connections
    <2>1. old.list[t] \in Seq(1 .. k)
      BY <1>2, <1>5, NetFacts
    <2>2. copied \in Seq(1 .. k)
      BY <1>2, <2>1, OnlyFacts
    <2> HIDE DEF copied, k
    <2>3. copied \in Seq(Connections)
      BY <1>2, <2>2
    <2> QED
      BY <2>3
  <1> HIDE DEF copied
  <1> DEFINE to(i) == ends[copied[i]].to
  <1>8. /\ DOMAIN added = 1 .. q
        /\ \A i \in 1 .. q : to(i) \in alive /\ to(i) \in Objects /\ added[i] = [from |-> s, to |-> to(i)]
    BY <1>1, <1>2, <1>7
  <1>9. added \in Seq(ConnectionType) /\ Len(added) = q
    <2>1. \A i \in 1 .. q : added[i] \in ConnectionType
      BY <1>8 DEF ConnectionType
    <2>2. added \in [1 .. q -> ConnectionType]
      BY <1>7, <2>1
    <2> HIDE DEF added, q
    <2> QED
      BY <1>7, <2>2
  <1> HIDE DEF added
  <1>10. /\ ends' \in Seq(ConnectionType) /\ Len(ends') = k + q /\ \A c \in Connections : ends'[c] = ends[c]
         /\ \A i \in 1 .. q : ends'[k + i] = added[i]
    <2>1. /\ ends' \in Seq(ConnectionType) /\ Len(ends') = k + q
          /\ \A i \in 1 .. k + q : ends'[i] = IF i <= k THEN ends[i] ELSE added[i - k]
      BY <1>1, <1>2, <1>9, ConcatProperties
    <2>2. ASSUME NEW i \in 1 .. q
          PROVE  k + i \in 1 .. k + q /\ ~(k + i <= k) /\ (k + i) - k = i
      BY <1>2, <1>7
    <2>3. ASSUME NEW c \in 1 .. k
          PROVE  c \in 1 .. k + q /\ c <= k
      BY <1>2, <1>7
    <2> HIDE DEF k, q
    <2> QED
      BY <1>2, <2>1, <2>2, <2>3
  <1> DEFINE U == k + 1 .. Len(ends')
  <1>11. /\ \A i \in 1 .. q : k + i \in U /\ again[i] = k + i
         /\ \A c \in U : \E i \in 1 .. q : c = k + i
    <2>1. ASSUME NEW c \in U
          PROVE  \E i \in 1 .. q : c = k + i
      <3>1. c - k \in 1 .. q /\ c = k + (c - k)
        BY <1>2, <1>7, <1>10
      <3> QED
        BY <3>1, Zenon
    <2> QED
      BY <1>2, <1>7, <1>10, <2>1
  <1>12. again \in Seq(U) /\ Len(again) = q /\ Rising(again)
    <2>1. again \in [1 .. q -> U]
      <3> HIDE DEF U
      <3> QED
        BY <1>7, <1>11
    <2>2. again \in Seq(U) /\ Len(again) = q
      <3> HIDE DEF again, U, q
      <3> QED
        BY <1>7, <2>1
    <2>3. \A i, j \in 1 .. q : i < j => k + i < k + j
      BY <1>2, <1>7
    <2> HIDE DEF again, U, q, k
    <2> QED
      BY <1>11, <2>2, <2>3 DEF Rising
  <1>13. Elements(again) = U /\ {again[i] : i \in DOMAIN copied} = U
    <2> HIDE DEF again, U, q, k
    <2> QED
      BY <1>7, <1>11, <1>12 DEF Elements
  <1>14. \A c \in U : ends'[c].from = s /\ \A i \in 1 .. q : c = k + i => ends'[c].to = to(i)
    <2> SUFFICES ASSUME NEW i \in 1 .. q
                 PROVE  ends'[k + i].from = s /\ ends'[k + i].to = to(i)
      BY <1>11
    <2>1. ends'[k + i] = [from |-> s, to |-> to(i)]
      BY <1>8, <1>10
    <2> QED
      BY <2>1
  <1>15. ASSUME NEW o, NEW c \in U
         PROVE  c \in endsAt(o) <=> o \in {ends'[c].from, ends'[c].to}
    <2>1. PICK i \in 1 .. q : c = k + i
      BY <1>11
    <2>2. ends'[c].from = s /\ ends'[c].to = to(i)
      BY <1>14, <2>1
    <2>3. \A j \in 1 .. q : again[j] = c => j = i
      BY <1>2, <1>7, <1>11, <2>1
    <2>4. again[i] = c
      BY <1>11, <2>1
    <2> HIDE DEF again, U, q, k
    <2> QED
      BY <1>7, <2>2, <2>3, <2>4
  <1> HIDE DEF again, endsAt
  <1>16. ASSUME NEW o \in Objects
         PROVE  more[o] \in Seq(U) /\ Rising(more[o]) /\ Elements(more[o]) = U \cap endsAt(o)
    <2> DEFINE r == Only(again, endsAt(o))
    <2>1. more[o] = r
      OBVIOUS
    <2>2. r \in Seq(U)
      <3> HIDE DEF U
      <3> QED
        BY <1>12, OnlyKept
    <2>3. again \in Seq(1 .. Len(ends')) /\ Len(ends') \in Nat
      <3> DEFINE V == 1 .. Len(ends')
      <3>1. Len(ends') \in Nat /\ U \subseteq V
        BY <1>2, <1>7, <1>10
      <3> HIDE DEF U, V
      <3>2. Len(again) \in Nat /\ \A i \in 1 .. Len(again) : again[i] \in V
        BY <1>12, <3>1
      <3>3. again \in Seq(V)
        BY <1>12, <3>2
      <3> QED
        BY <3>1, <3>3 DEF V
    <2>4. Elements(r) = Elements(again) \cap endsAt(o) /\ Rising(r)
      BY <1>12, <2>3, OnlyFacts
    <2> QED
      BY <1>13, <2>1, <2>2, <2>4
  <1>17. more \in [Objects -> Seq(U)]
    <2> HIDE DEF U
    <2>1. \A o \in Objects : more[o] \in Seq(U)
      BY <1>16
    <2> QED
      BY <2>1
  <1>18. \A o \in Objects : Rising(more[o]) /\ \A c \in Elements(more[o]) : o \in {ends'[c].from, ends'[c].to}
    BY <1>15, <1>16
  <1>19. \A c \in U : \A o \in {ends'[c].from, ends'[c].to} : o \in alive' /\ o \in Objects /\ c \in Elements(more[o])
    <2> SUFFICES ASSUME NEW c \in U, NEW o \in {ends'[c].from, ends'[c].to}
                 PROVE  o \in alive' /\ o \in Objects /\ c \in Elements(more[o])
      OBVIOUS
    <2>1. PICK i \in 1 .. q : c = k + i
      BY <1>11
    <2>2. ends'[c].from = s /\ ends'[c].to = to(i)
      BY <1>14, <2>1
    <2>3. o \in alive' /\ o \in Objects
      BY <1>1, <1>2, <1>8, <2>2
    <2> QED
      BY <1>15, <1>16, <2>3
  <1>20. net' = [valid |-> old.valid \cup U, list |-> [o \in Objects |-> old.list[o] \o more[o]],
                 sending |-> old.sending, dirty |-> old.dirty]
    <2> DEFINE l == [o \in Objects |-> old.list[o] \o Only(again, endsAt(o))]
               g == [o \in Objects |-> old.list[o] \o more[o]]
    <2>1. net' = [old EXCEPT !.list = l, !.valid = old.valid \cup U]
      <3> HIDE DEF U
      <3> QED
        BY <1>1, <1>13 DEF again, endsAt
    <2>2. l = g
      OBVIOUS
    <2>3. old = [valid |-> old.valid, list |-> old.list, sending |-> old.sending, dirty |-> old.dirty]
      BY <1>2, <1>5, NetFacts
    <2> HIDE DEF l, g, U
    <2>4. net' = [valid |-> old.valid \cup U, list |-> g, sending |-> old.sending, dirty |-> old.dirty]
      BY <2>1, <2>2, <2>3
    <2> QED
      BY <2>4 DEF g
  <1> HIDE DEF more
  <1>21. k <= Len(ends') /\ Len(ends') <= MaxConnections
    BY <1>1, <1>2, <1>7, <1>10
  <1>22. /\ Orderly(net)' /\ BothWays(net, alive)' /\ Dropped(net, nested)'
         /\ net'.sending = old.sending /\ net'.valid \cap Connections \subseteq old.valid
         /\ \A o \in Objects : Elements(old.list[o]) \subseteq Elements(net'.list[o])
    BY <1>2, <1>5, <1>6, <1>10, <1>17, <1>18, <1>19, <1>20, <1>21, GrownNet
  <1>23. \A o \in net.sending \ nested' : Elements(net.list[o]) \subseteq Elements(net'.list[o])
    BY <1>2, <1>4, <1>5, <1>22
  <1> QED
    BY <1>1, <1>4, <1>5, <1>10, <1>21, <1>22, <1>23, KeepGrowing

LEMMA SignalStart ==
  ASSUME SignalInit
  PROVE  SignalInv
  <1>1. /\ alive = Objects /\ ends = <<>> /\ net.valid = {} /\ net.list = [o \in Objects |-> <<>>]
        /\ net.sending = {} /\ net.dirty = {} /\ sentry = [s \in SignalSet |-> 0] /\ stack = <<>>
        /\ throwing = FALSE /\ nested = {}
        /\ net = [valid |-> {}, list |-> [o \in Objects |-> <<>>], sending |-> {}, dirty |-> {}]
    BY DEF SignalInit
  <1>2. /\ Len(<<>>) = 0 /\ 1 .. 0 = {} /\ MaxConnections \in Nat /\ MaxDepth \in Nat
        /\ <<>> \in Seq(ConnectionType) /\ <<>> \in Seq(FrameSet) /\ <<>> \in Seq(Connections)
    BY SignalAssumption
  <1>3. Rising(<<>>) /\ Elements(<<>>) = {}
    BY <1>2 DEF Rising, Elements
  <1>4. SignalTypes
    <2>1. 0 \in 0 .. MaxDepth /\ 0 <= MaxConnections
      BY <1>2
    <2>2. sentry \in [SignalSet -> 0 .. MaxDepth]
      BY <1>1, <2>1
    <2> QED
      BY <1>1, <1>2, <2>1, <2>2 DEF SignalTypes
  <1>5. Orderly(net)
    <2>1. net.list \in [Objects -> Seq(Connections)] /\ \A o \in Objects : net.list[o] = <<>>
      BY <1>1, <1>2
    <2> DEFINE l == [o \in Objects |-> <<>>]
    <2>2. net = [valid |-> {}, list |-> l, sending |-> {}, dirty |-> {}]
      BY <1>1
    <2>3. l \in [Objects -> Seq(Connections)] /\ \A o \in Objects : l[o] = <<>>
      BY <1>2
    <2> HIDE DEF l
    <2>4. \A o \in Objects : Rising(l[o]) /\ \A c \in Elements(l[o]) : o \in EndsOf(c)
      BY <1>3, <2>3
    <2> QED
      BY <2>2, <2>3, <2>4, NetMade
  <1>6. BothWays(net, alive)
    BY <1>1 DEF BothWays
  <1>7. Dropped(net, nested)
    <2>1. \A o \in Objects : net.list[o] = <<>>
      BY <1>1
    <2> QED
      BY <1>3, <2>1 DEF Dropped
  <1>8. StackRight(stack)
    <2>1. SentriesRight(stack)
      BY <1>1, <1>2 DEF SentriesRight
    <2> QED
      BY <1>1, <1>2, <2>1 DEF StackRight
  <1> QED
    BY <1>4, <1>5, <1>6, <1>7, <1>8 DEF SignalInv

LEMMA SignalStep ==
  ASSUME SignalInv, [SignalNext]_signalVars
  PROVE  SignalInv'
  <1>1. CASE PassOver
    BY <1>1, KeepPassOver
  <1>2. CASE CallMethod
    BY <1>2, KeepCallMethod
  <1>3. CASE CallSignal
    BY <1>3, KeepCallSignal
  <1>4. CASE Returned
    BY <1>4, KeepReturned
  <1>5. CASE SendEnds
    BY <1>5, KeepLeave, SignalFacts DEF SendEnds, SignalTypes
  <1>6. CASE Throw
    <2>1. stack # <<>> /\ Leave /\ throwing' \in BOOLEAN
      BY <1>6 DEF Throw
    <2> QED
      BY <2>1, KeepLeave
  <1>7. CASE \E c \in DOMAIN ends : Close(c)
    BY <1>7, KeepClose
  <1>8. CASE \E r \in Receivers : DeleteReceiver(r)
    BY <1>8, KeepDeleteReceiver
  <1>9. ASSUME NEW s \in SignalSet, Send(s)
        PROVE  SignalInv'
    BY <1>9, KeepSend
  <1>10. ASSUME NEW s \in SignalSet, DeleteSignal(s)
         PROVE  SignalInv'
    BY <1>10, KeepDeleteSignal
  <1>11. ASSUME NEW s \in SignalSet, NEW r \in Objects, Connect(s, r)
         PROVE  SignalInv'
    BY <1>11, KeepConnect
  <1>12. ASSUME NEW s \in SignalSet, NEW r \in Objects, DisconnectSlot(s, r)
         PROVE  SignalInv'
    BY <1>12, KeepDisconnectSlot
  <1>13. ASSUME NEW s \in SignalSet, NEW t \in SignalSet, Assign(s, t)
         PROVE  SignalInv'
    BY <1>13, KeepAssign
  <1>14. CASE UNCHANGED signalVars
    <2>1. UNCHANGED <<alive, ends, net, sentry, stack, throwing, nested>>
      BY <1>14 DEF signalVars
    <2>2. StackRight(stack') /\ SignalTypes'
      BY <2>1, SignalFacts DEF SignalTypes
    <2> QED
      BY <2>1, <2>2, SameStack, NetsStay
  <1> QED
    BY <1>1, <1>2, <1>3, <1>4, <1>5, <1>6, <1>7, <1>8, <1>9, <1>10, <1>11, <1>12, <1>13, <1>14 DEF SignalNext

\* The lists of both ends, the marks and the places of all active send()s,
\* whatever handlers connect, disconnect, delete, send, assign or throw
\* (Connection, Connectable, SignalBase and its Sentry).
THEOREM SignalInvariant == SignalSpec => []SignalInv
  <1>1. SignalInit => SignalInv
    BY SignalStart
  <1>2. SignalInv /\ [SignalNext]_signalVars => SignalInv'
    BY SignalStep
  <1> QED
    BY <1>1, <1>2, PTL DEF SignalSpec

LEMMA SoundSignals ==
  ASSUME SignalInv
  PROVE  SignalsSound
  <1>1. /\ ends \in Seq(ConnectionType) /\ DOMAIN ends = Connections /\ SignalTypes /\ StackRight(stack)
        /\ Orderly(net) /\ BothWays(net, alive) /\ Dropped(net, nested)
    BY SignalFacts
  <1>2. SignalTypeOK
    <2>1. net \in NetType /\ net.dirty \subseteq net.sending
      BY <1>1 DEF NetType, NetSet, Orderly
    <2>2. stack \in Seq(FrameType) /\ Len(stack) <= MaxDepth
      BY <1>1 DEF StackRight, FrameType, FrameSet
    <2> QED
      BY <1>1, <2>1, <2>2 DEF SignalTypeOK, SignalTypes, ConnectionType
  <1>3. ConnectedBothWays
    <2> SUFFICES ASSUME NEW c \in net.valid, NEW o \in {ends[c].from, ends[c].to}
                 PROVE  o \in alive /\ \E i \in DOMAIN net.list[o] : net.list[o][i] = c
      BY DEF ConnectedBothWays
    <2>1. o \in alive /\ c \in Elements(net.list[o])
      BY <1>1 DEF BothWays, EndsOf
    <2>2. DOMAIN net.list[o] = 1 .. Len(net.list[o])
      BY <1>1, <2>1, NetFacts, SignalFacts
    <2> QED
      BY <2>1, <2>2 DEF Elements
  <1>4. ClosedIsDropped
    <2> SUFFICES ASSUME NEW o \in Objects \ nested, NEW i \in DOMAIN net.list[o]
                 PROVE  net.list[o][i] \in net.valid \/ o \in net.sending \cap net.dirty
      BY DEF ClosedIsDropped
    <2>1. net.list[o][i] \in Elements(net.list[o])
      BY <1>1, NetFacts DEF Elements
    <2> QED
      BY <1>1, <2>1 DEF Dropped
  <1>5. KeepsItsPlace
    <2>1. DOMAIN stack = 1 .. Len(stack) /\ SentriesRight(stack)
      BY <1>1, StackFacts DEF StackRight
    <2> SUFFICES ASSUME NEW i \in 1 .. Len(stack), stack[i].attached, stack[i].signal \notin nested
                 PROVE  stack[i].signal \in alive /\ (stack[i].at # End => InPlace(stack[i]))
      BY <2>1 DEF KeepsItsPlace
    <2> DEFINE s == stack[i].signal
    <2>2. s \in SignalSet /\ s \in Objects /\ InList(stack[i])
      BY <1>1, StackFacts DEF Objects
    <2>3. i = sentry[s] /\ i # 0
      BY <2>1 DEF SentriesRight
    <2>4. s \in alive
      BY <2>1, <2>2, <2>3 DEF SentriesRight
    <2>5. DOMAIN net.list[s] = 1 .. Len(net.list[s])
      BY <1>1, <2>2, NetFacts
    <2>6. stack[i].at # End => InPlace(stack[i])
      BY <2>2, <2>5 DEF InList, InPlace, Elements
    <2> QED
      BY <2>4, <2>6
  <1> QED
    BY <1>2, <1>3, <1>4, <1>5 DEF SignalsSound

LEMMA CalledOnce ==
  ASSUME SignalInv
  PROVE  EveryoneIsCalledOnce
  <1>1. StackRight(stack)
    BY SignalFacts
  <1>2. DOMAIN stack = 1 .. Len(stack)
    BY <1>1, StackFacts
  <1> SUFFICES ASSUME NEW p \in 1 .. Len(stack)
               PROVE  /\ \A j, k \in DOMAIN stack[p].called : stack[p].called[j] = stack[p].called[k] => j = k
                      /\ stack[p].attached /\ stack[p].state = "loop" /\ stack[p].at = End =>
                           \A c \in stack[p].due \cap net.valid :
                             \E j \in DOMAIN stack[p].called : stack[p].called[j] = c
    BY <1>2 DEF EveryoneIsCalledOnce
  <1> DEFINE l == stack[p].called
  <1>3. CalledRight(stack[p], net.valid) /\ l \in Seq(Connections)
    BY <1>1, StackFacts
  <1>4. DOMAIN l = 1 .. Len(l) /\ Len(l) \in Nat /\ \A j \in 1 .. Len(l) : l[j] \in Nat
    <2> HIDE DEF l
    <2>1. DOMAIN l = 1 .. Len(l) /\ Len(l) \in Nat /\ \A j \in 1 .. Len(l) : l[j] \in Connections
      BY <1>3
    <2> QED
      BY <2>1, SignalFacts DEF Connections
  <1>5. ASSUME NEW j \in 1 .. Len(l), NEW k \in 1 .. Len(l), l[j] = l[k]
        PROVE  j = k
    <2>1. ~(j < k) /\ ~(k < j)
      <3>1. Rising(l)
        BY <1>3 DEF CalledRight
      <3> HIDE DEF l
      <3> QED
        BY <1>4, <1>5, <3>1 DEF Rising
    <2> QED
      BY <1>4, <2>1
  <1>6. ASSUME stack[p].attached, stack[p].at = End, NEW c \in stack[p].due \cap net.valid
        PROVE  \E j \in 1 .. Len(l) : l[j] = c
    <2>1. c \in Elements(l)
      BY <1>3, <1>6 DEF CalledRight, Ahead
    <2> QED
      BY <2>1 DEF Elements
  <1> QED
    BY <1>4, <1>5, <1>6

\* A connection is valid only while both its ends exist and have it in their
\* lists, a closed one is dropped, and the place of a send() in its list stays
\* good while handlers change it (Connection, SignalBase::Sentry).
THEOREM SignalsAreSound == SignalSpec => []SignalsSound
  BY SignalInvariant, SoundSignals, PTL

\* A send() calls everyone who was connected when it started and still is, and
\* nobody twice, whatever its handlers do (Signal::send()).
THEOREM SignalsCallOnce == SignalSpec => []EveryoneIsCalledOnce
  BY SignalInvariant, CalledOnce, PTL

=============================================================================
