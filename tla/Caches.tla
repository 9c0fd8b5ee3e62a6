-------------------------------- MODULE Caches --------------------------------
(***************************************************************************)
(* Cache, LruCache and Pool.                                               *)
(*                                                                         *)
(* Cache keeps winners, at most half of its elements, and loosers; a hit   *)
(* makes a looser a winner and the oldest winner a looser, and the oldest  *)
(* looser is dropped.  Age is a serial number that wraps around.  LruCache *)
(* has serial numbers only.  Pool keeps spare objects that were returned.  *)
(*                                                                         *)
(* Keys are numbers since the maps are ordered.  The values in the caches  *)
(* and the counters of hits and misses are left out.                       *)
(***************************************************************************)
EXTENDS Integers, Sequences, FiniteSets, SequencesExt, FiniteSetsExt

CONSTANTS
  Keys,         \* a set of numbers
  MaxElements,  \* the argument of the constructors
  Sizes,        \* maximum sizes, for setMaxElements()
  SerialMax,    \* the largest serial number, 2^32 - 1 in the code
  Objects       \* what the pool may create

ASSUME CacheAssumption ==
  /\ Keys \subseteq Nat /\ SerialMax \in Nat /\ SerialMax >= 2
  /\ MaxElements \in Nat /\ Sizes \subseteq Nat

VARIABLES
  cache,     \* Cache: [data, max, serial]; data maps keys to [winner, serial]
  lru,       \* LruCache: [data, max, serial]; data maps keys to serials
  usedBefore, \* history: the pairs of keys in lru whose first was last used before the second
  wrapped,   \* history: TRUE if the serial of lru has wrapped around
  bare,      \* history: TRUE if put_top() met a key that was there
  undefined, \* history: TRUE if the oldest or newest element of no elements was asked for
  pool,      \* [free, maxSpare]
  held,      \* objects that are in use
  made       \* objects that are alive

cacheVars == <<cache, lru, usedBefore, wrapped, bare, undefined, pool, held, made>>

Without(f, k) == [j \in DOMAIN f \ {k} |-> f[j]]
With(f, k, v) == [j \in DOMAIN f \cup {k} |-> IF j = k THEN v ELSE f[j]]
Size(c) == Cardinality(DOMAIN c.data)

-----------------------------------------------------------------------------
(* Cache.                                                                  *)

WinnersOf(c) == {k \in DOMAIN c.data : c.data[k].winner}

\* _getOldest(winner), _getNewest(winner): the first element if there is none.
GetOldest(d, w) ==
  LET part == {k \in DOMAIN d : d[k].winner = w}
  IN IF part = {} THEN Min(DOMAIN d)
     ELSE Min({k \in part : \A j \in part : d[k].serial <= d[j].serial})

GetNewest(d, w) ==
  LET part == {k \in DOMAIN d : d[k].winner = w}
  IN IF part = {} THEN Min(DOMAIN d)
     ELSE Min({k \in part : \A j \in part : d[k].serial >= d[j].serial})

\* _nextSerial(): c with its serial counted up, after all of them are reset at the limit.
Counted(c) ==
  IF c.serial = SerialMax
  THEN [c EXCEPT !.data = [k \in DOMAIN @ |-> [@[k] EXCEPT !.serial = 0]], !.serial = 2]
  ELSE [c EXCEPT !.serial = @ + 1]

\* The element k gets the next serial.
Renewed(c, k) == LET n == Counted(c) IN [n EXCEPT !.data[k].serial = n.serial - 1]

\* _dropLooser() that drops the oldest winner.
DropWinner(c) == [c EXCEPT !.data = Without(@, GetOldest(@, TRUE))]

DropLooser(c) == [c EXCEPT !.data = Without(@, GetOldest(@, FALSE))]

MakeLooser(c) ==
  LET k == GetOldest(c.data, TRUE)
  IN Renewed([c EXCEPT !.data[k].winner = FALSE], k)

\* A hit: getptr() and put() of an element that is there.
Hit(c, k) ==
  LET n == Renewed(c, k)
  IN IF n.data[k].winner THEN n ELSE MakeLooser([n EXCEPT !.data[k].winner = TRUE])

NewElement(c, k, w) ==
  LET n == Counted(c) IN [n EXCEPT !.data = With(@, k, [winner |-> w, serial |-> n.serial - 1])]

\* put().
CachePut(k) ==
  /\ cache.max > 0
  /\ cache' = IF k \in DOMAIN cache.data THEN Hit(cache, k)
              ELSE IF Size(cache) < cache.max THEN NewElement(cache, k, 2 * Size(cache) < cache.max)
              ELSE NewElement(DropLooser(cache), k, FALSE)
  /\ UNCHANGED <<lru, usedBefore, wrapped, bare, undefined, pool, held, made>>

\* put_top(): looks for the key only if the cache is full.
CachePutTop(k) ==
  /\ cache.max > 0
  /\ LET c == IF 2 * Size(cache) >= cache.max THEN MakeLooser(cache) ELSE cache
     IN cache' = IF Size(cache) < cache.max
                 THEN IF k \in DOMAIN cache.data THEN Counted(c) ELSE NewElement(c, k, TRUE)
                 ELSE IF k \in DOMAIN cache.data THEN Hit(cache, k)
                 ELSE NewElement(MakeLooser(DropLooser(cache)), k, TRUE)
  /\ bare' = (bare \/ (k \in DOMAIN cache.data /\ Size(cache) < cache.max))
  /\ UNCHANGED <<lru, usedBefore, wrapped, undefined, pool, held, made>>

CacheGet(k) ==
  /\ k \in DOMAIN cache.data
  /\ cache' = Hit(cache, k)
  /\ UNCHANGED <<lru, usedBefore, wrapped, bare, undefined, pool, held, made>>

\* erase(): the newest looser takes the place of a winner.
CacheErase(k) ==
  /\ k \in DOMAIN cache.data
  /\ LET d == IF cache.data[k].winner
              THEN [cache.data EXCEPT ![GetNewest(cache.data, FALSE)].winner = TRUE] ELSE cache.data
     IN cache' = [cache EXCEPT !.data = Without(d, k)]
  /\ UNCHANGED <<lru, usedBefore, wrapped, bare, undefined, pool, held, made>>

CacheClear ==
  /\ cache' = [cache EXCEPT !.data = <<>>]
  /\ UNCHANGED <<lru, usedBefore, wrapped, bare, undefined, pool, held, made>>

\* The operator f applied to c for n times.
Times(f(_), c, n) == LET after[i \in 0 .. n] == IF i = 0 THEN c ELSE f(after[i - 1]) IN after[n]

NewestWins(c) == [c EXCEPT !.data[GetNewest(c.data, FALSE)].winner = TRUE]

Even(n) == n + (n % 2)

\* How often it takes to come down, or up, from one number to the other.
Excess(n, m) == IF n > m THEN n - m ELSE 0

\* setMaxElements().  A larger cache makes winners, of elements that need not be there.
CacheSetMax(n) ==
  LET m == Even(n)
      w == Cardinality(WinnersOf(cache))
      small == Times(DropLooser, cache, Excess(Size(cache), m))
      missing == Excess(m \div 2, w)
  IN /\ cache' = IF m > cache.max
                 THEN [(IF Size(cache) = 0 THEN cache ELSE Times(NewestWins, cache, missing)) EXCEPT !.max = m]
                 ELSE [Times(MakeLooser, small, Excess(Cardinality(WinnersOf(small)), m \div 2)) EXCEPT !.max = m]
     /\ undefined' = (undefined \/ (m > cache.max /\ Size(cache) = 0 /\ missing > 0))
     /\ UNCHANGED <<lru, usedBefore, wrapped, bare, pool, held, made>>

-----------------------------------------------------------------------------
(* LruCache.                                                               *)

LruOldest(d) == Min({k \in DOMAIN d : \A j \in DOMAIN d : d[k] <= d[j]})

LruDrop(c) == [c EXCEPT !.data = Without(@, LruOldest(@))]

\* k gets the next serial.
LruRenewed(c, k) ==
  LET n == IF c.serial = SerialMax THEN [c EXCEPT !.data = [j \in DOMAIN @ |-> 0], !.serial = 2]
           ELSE [c EXCEPT !.serial = @ + 1]
  IN [n EXCEPT !.data = With(@, k, n.serial - 1)]

\* Who was used before whom: of what is left in c, and after k was used.
StillIn(b, c) == {p \in b : p[1] \in DOMAIN c.data /\ p[2] \in DOMAIN c.data}
Used(b, c, k) ==
  {p \in StillIn(b, c) : p[1] # k /\ p[2] # k} \cup {<<j, k>> : j \in DOMAIN c.data \ {k}}

LruPut(k) ==
  /\ lru.max > 0
  /\ LET full == k \notin DOMAIN lru.data /\ Size(lru) >= lru.max
     IN lru' = LruRenewed(IF full THEN LruDrop(lru) ELSE lru, k)
  /\ usedBefore' = Used(usedBefore, lru', k)
  /\ wrapped' = (wrapped \/ lru.serial = SerialMax)
  /\ UNCHANGED <<cache, bare, undefined, pool, held, made>>

LruGet(k) ==
  /\ k \in DOMAIN lru.data
  /\ lru' = LruRenewed(lru, k) /\ usedBefore' = Used(usedBefore, lru', k)
  /\ wrapped' = (wrapped \/ lru.serial = SerialMax)
  /\ UNCHANGED <<cache, bare, undefined, pool, held, made>>

LruErase(k) ==
  /\ k \in DOMAIN lru.data
  /\ lru' = [lru EXCEPT !.data = Without(@, k)]
  /\ usedBefore' = StillIn(usedBefore, lru')
  /\ UNCHANGED <<cache, wrapped, bare, undefined, pool, held, made>>

LruSetMax(n) ==
  /\ lru' = [Times(LruDrop, lru, Excess(Size(lru), n)) EXCEPT !.max = n]
  /\ usedBefore' = StillIn(usedBefore, lru')
  /\ UNCHANGED <<cache, wrapped, bare, undefined, pool, held, made>>

-----------------------------------------------------------------------------
(* Pool.                                                                   *)

\* get(): the spare object that was returned last, or a new one.
PoolGet ==
  /\ IF pool.free # <<>>
     THEN pool' = [pool EXCEPT !.free = Front(@)] /\ held' = held \cup {Last(pool.free)} /\ UNCHANGED made
     ELSE \E o \in Objects \ made : made' = made \cup {o} /\ held' = held \cup {o} /\ UNCHANGED pool
  /\ UNCHANGED <<cache, lru, usedBefore, wrapped, bare, undefined>>

\* The deleter of the shared pointer.
PoolReturn(o) ==
  /\ o \in held /\ held' = held \ {o}
  /\ IF pool.maxSpare = 0 \/ Len(pool.free) < pool.maxSpare
     THEN pool' = [pool EXCEPT !.free = Append(@, o)] /\ UNCHANGED made
     ELSE made' = made \ {o} /\ UNCHANGED pool
  /\ UNCHANGED <<cache, lru, usedBefore, wrapped, bare, undefined>>

\* drop(keep) and setMaximumSize(): the spare objects behind the first ones go.
PoolShrink(n, keep) ==
  /\ pool' = [free |-> IF keep < Len(pool.free) THEN SubSeq(pool.free, 1, keep) ELSE pool.free, maxSpare |-> n]
  /\ made' = made \ {pool.free[i] : i \in keep + 1 .. Len(pool.free)}
  /\ UNCHANGED <<cache, lru, usedBefore, wrapped, bare, undefined, held>>

-----------------------------------------------------------------------------

CacheInit ==
  /\ cache = [data |-> <<>>, max |-> Even(MaxElements), serial |-> 0]
  /\ lru = [data |-> <<>>, max |-> MaxElements, serial |-> 0]
  /\ usedBefore = {} /\ wrapped = FALSE /\ bare = FALSE /\ undefined = FALSE
  /\ pool = [free |-> <<>>, maxSpare |-> 0] /\ held = {} /\ made = {}

CacheNext ==
  \/ \E k \in Keys : CachePut(k) \/ CachePutTop(k) \/ CacheGet(k) \/ CacheErase(k)
  \/ CacheClear
  \/ \E n \in Sizes : CacheSetMax(n)

LruNext ==
  \/ \E k \in Keys : LruPut(k) \/ LruGet(k) \/ LruErase(k)
  \/ \E n \in Sizes : LruSetMax(n)

PoolNext ==
  \/ PoolGet
  \/ \E o \in Objects : PoolReturn(o)
  \/ \E n \in 0 .. 2 : PoolShrink(pool.maxSpare, n) \/ PoolShrink(n, n)

\* The three have nothing in common.
CacheSpec == CacheInit /\ [][CacheNext \/ LruNext \/ PoolNext]_cacheVars

-----------------------------------------------------------------------------
(* Properties.                                                             *)

CacheTypeOK ==
  /\ DOMAIN cache.data \subseteq Keys
  /\ cache.serial \in 0 .. SerialMax /\ \A k \in DOMAIN cache.data : cache.data[k].serial < cache.serial
  /\ Size(cache) <= cache.max /\ Size(lru) <= lru.max

\* At most half of the elements are winners, so that a full cache has a looser to
\* drop, after any mixture of hits, erasing, resizing and wrapping around.
WinnersAreHalf == 2 * Cardinality(WinnersOf(cache)) <= cache.max

\* The first half is not wasted: as long as there are loosers, the cache has its
\* share of winners, unless put_top() has been given a key that was there.
WinnersAreUsed ==
  ~bare /\ WinnersOf(cache) # DOMAIN cache.data => 2 * Cardinality(WinnersOf(cache)) = cache.max

\* A new element never takes the place of a winner.
WinnersSurvive ==
  [][DOMAIN cache'.data \subseteq DOMAIN cache.data \/ WinnersOf(cache) \subseteq DOMAIN cache'.data]_cacheVars

\* Serials order the elements of the LRU cache as their uses did, until they wrap
\* around: the one that is dropped is the least recently used.
DropsLeastRecent ==
  ~wrapped => \A j, k \in DOMAIN lru.data : lru.data[j] < lru.data[k] <=> <<j, k>> \in usedBefore

\* An object is spare or in use and never both, none is lost, and there are no
\* more spare ones than allowed.
PoolOwnsOnce ==
  /\ IsInjective(pool.free) /\ ToSet(pool.free) \cap held = {} /\ ToSet(pool.free) \cup held = made
  /\ pool.maxSpare = 0 \/ Len(pool.free) <= pool.maxSpare

\* Bounds, halves and order of the two caches, and the objects of the pool.
CachesSound ==
  /\ [](CacheTypeOK /\ WinnersAreHalf /\ WinnersAreUsed /\ DropsLeastRecent /\ PoolOwnsOnce)
  /\ WinnersSurvive
=============================================================================
