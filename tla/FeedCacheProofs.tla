--------------------------- MODULE FeedCacheProofs --------------------------
(***************************************************************************)
(* Proofs about FeedCache, for any keys, requests, time to live and size   *)
(* of the cache.                                                           *)
(***************************************************************************)
EXTENDS FeedCache, FiniteSetTheorems, TLAPS

-----------------------------------------------------------------------------
(* The inductive invariant. *)

Users(l) == {r \in Requests : Using(r) /\ req[r].lock = l}

\* Shape of the state.
CacheShape ==
  /\ clock \in 0 .. MaxTime /\ shown \in [Keys -> Nat]
  /\ DOMAIN cache \subseteq Keys /\ IsFiniteSet(DOMAIN cache)
  /\ Cardinality(DOMAIN cache) <= MaxSize
  /\ \A k \in DOMAIN cache : cache[k] \in [until : Nat, read : Nat]

LockShape ==
  /\ DOMAIN table \subseteq Keys /\ \A k \in DOMAIN table : table[k] \in LockIds
  /\ DOMAIN req = Requests
  /\ \A r \in Requests :
       IF Using(r)
       THEN req[r] \in [at : {"waiting", "querying", "read"}, key : Keys,
                        lock : LockIds, read : Nat]
       ELSE req[r] = Idle
  /\ DOMAIN locks = LockIds
  /\ \A l \in LockIds : DOMAIN locks[l] = {"holder", "waiters", "users"}

\* The table leads from the keys in use to the locks in use and back.
TableInUse ==
  /\ \A r \in Requests : Using(r) => req[r].key \in DOMAIN table /\ table[req[r].key] = req[r].lock
  /\ \A k \in DOMAIN table : \E r \in Requests : Using(r) /\ req[r].key = k
  /\ \A j, k \in DOMAIN table : table[j] = table[k] => j = k
  /\ \A l \in LockIds : locks[l].users = Cardinality(Users(l))

\* The holder of a lock is the one request that builds under it.
HolderBuilds ==
  /\ \A r \in Requests : Building(r) => locks[req[r].lock].holder = r
  /\ \A l \in LockIds :
       locks[l].holder # None =>
         /\ locks[l].holder \in Requests /\ Building(locks[l].holder)
         /\ req[locks[l].holder].lock = l

\* A feed is built only while the cache has none; nobody was given content that
\* is newer than what is cached, read, or about to be read.
Freshness ==
  /\ \A r \in Requests :
       /\ Building(r) => req[r].key \notin DOMAIN cache
       /\ req[r].at = "read" => shown[req[r].key] <= req[r].read /\ req[r].read <= clock
  /\ \A k \in DOMAIN cache : shown[k] <= cache[k].read /\ cache[k].read <= clock
  /\ \A k \in Keys : shown[k] <= clock

FeedInv == CacheShape /\ LockShape /\ TableInUse /\ HolderBuilds /\ Freshness

-----------------------------------------------------------------------------
(* Locks and their users. *)

LEMMA UsersCounted ==
  ASSUME TableInUse, NEW l \in LockIds
  PROVE  /\ IsFiniteSet(Users(l)) /\ locks[l].users \in Nat
         /\ locks[l].users = Cardinality(Users(l))
         /\ locks[l].users = 0 <=> Users(l) = {}
<1>1. Users(l) \in SUBSET Requests
  BY DEF Users
<1>2. IsFiniteSet(Users(l)) /\ Cardinality(Users(l)) \in Nat
  BY <1>1, RequestsAssumption, FS_Subset, FS_CardinalityType
<1>3. Cardinality(Users(l)) = 0 <=> Users(l) = {}
  BY <1>2, FS_EmptySet
<1> QED
  BY <1>2, <1>3 DEF TableInUse

\* There are as many locks as requests, so that one more request finds one free.
LEMMA FreeLock ==
  ASSUME FeedInv, NEW r \in Requests, ~Using(r)
  PROVE  \E l \in LockIds : locks[l].users = 0
<1> SUFFICES ASSUME \A l \in LockIds : locks[l].users # 0 PROVE FALSE
  OBVIOUS
<1> DEFINE U == {q \in Requests : Using(q)}
           f == [q \in U |-> req[q].lock]
           n == Cardinality(Requests)
<1>1. n \in Nat /\ IsFiniteSet(Requests \ {r}) /\ Cardinality(Requests \ {r}) = n - 1
  BY RequestsAssumption, FS_CardinalityType, FS_RemoveElement
<1>2. U \in SUBSET (Requests \ {r})
  OBVIOUS
<1>3. IsFiniteSet(U) /\ Cardinality(U) <= n - 1 /\ Cardinality(U) \in Nat
  BY <1>1, <1>2, FS_Subset, FS_CardinalityType
<1>4. f \in [U -> LockIds]
  <2>1. \A q \in U : req[q].lock \in LockIds
    BY DEF FeedInv, LockShape
  <2> QED
    BY <2>1
<1>5. \A l \in LockIds : \E q \in U : f[q] = l
  <2> SUFFICES ASSUME NEW l \in LockIds PROVE \E q \in U : f[q] = l
    OBVIOUS
  <2>1. Users(l) # {}
    BY UsersCounted DEF FeedInv
  <2> QED
    BY <2>1 DEF Users
<1>6. f \in Surjection(U, LockIds)
  BY <1>4, <1>5 DEF Surjection
<1>7. Cardinality(LockIds) <= Cardinality(U)
  BY <1>3, <1>6, FS_Surjection
<1>8. Cardinality(LockIds) = n
  <2> HIDE DEF n
  <2>1. Cardinality(1 .. n) = IF 1 > n THEN 0 ELSE n - 1 + 1
    BY <1>1, FS_Interval
  <2>2. Cardinality(1 .. n) = n
    BY <1>1, <2>1
  <2> QED
    BY <2>2 DEF LockIds, n
<1> HIDE DEF n, U
<1> QED
  BY <1>1, <1>3, <1>7, <1>8

\* The lock a request uses: the one of its key, or a new one nobody uses.
LEMMA LockForKey ==
  ASSUME FeedInv, NEW r \in Requests, ~Using(r), NEW k \in Keys
  PROVE  /\ LockFor(k) \in LockIds
         /\ k \in DOMAIN table => LockFor(k) = table[k]
         /\ k \notin DOMAIN table =>
              /\ Users(LockFor(k)) = {}
              /\ \A j \in DOMAIN table : table[j] # LockFor(k)
<1>1. CASE k \in DOMAIN table
  BY <1>1 DEF LockFor, FeedInv, LockShape
<1>2. CASE k \notin DOMAIN table
  <2> DEFINE l == LockFor(k)
  <2>1. l = CHOOSE m \in LockIds : locks[m].users = 0
    BY <1>2 DEF LockFor
  <2>2. l \in LockIds /\ locks[l].users = 0
    BY <2>1, FreeLock
  <2> HIDE DEF l
  <2>3. Users(l) = {}
    BY <2>2, UsersCounted DEF FeedInv
  <2>4. ASSUME NEW j \in DOMAIN table, table[j] = l PROVE FALSE
    BY <2>3, <2>4 DEF FeedInv, TableInUse, Users
  <2> QED
    BY <1>2, <2>2, <2>3, <2>4 DEF l
<1> QED
  BY <1>1, <1>2

\* Two requests for one key share a lock; two for different keys do not.
LEMMA KeysHaveLocks ==
  ASSUME FeedInv, NEW q \in Requests, NEW r \in Requests, Using(q), Using(r)
  PROVE  req[q].key = req[r].key <=> req[q].lock = req[r].lock
  BY DEF FeedInv, TableInUse

\* What leaving a lock does to it.
LEMMA LeaveLock ==
  ASSUME FeedInv, NEW r \in Requests, Using(r), Leave(r), NEW l, l = req[r].lock
  PROVE  /\ l \in LockIds /\ DOMAIN locks' = LockIds
         /\ DOMAIN locks'[l] = {"holder", "waiters", "users"}
         /\ locks'[l].users = locks[l].users - 1
         /\ locks'[l].holder = IF locks[l].holder = r THEN None ELSE locks[l].holder
         /\ \A m \in LockIds : m # l => locks'[m] = locks[m]
         /\ DOMAIN req' = Requests /\ req'[r] = Idle
         /\ \A q \in Requests : q # r => req'[q] = req[q]
         /\ table' = IF locks'[l].users = 0 THEN Without(table, {req[r].key}) ELSE table
<1>1. l \in LockIds /\ DOMAIN locks = LockIds /\ DOMAIN req = Requests
      /\ DOMAIN locks[l] = {"holder", "waiters", "users"}
  BY DEF FeedInv, LockShape
<1>2. locks' = [locks EXCEPT
         ![l].users = @ - 1,
         ![l].holder = IF @ = r THEN None ELSE @,
         ![l].waiters = Others(@, r)]
  BY DEF Leave
<1>3. /\ DOMAIN locks' = LockIds
      /\ DOMAIN locks'[l] = {"holder", "waiters", "users"}
      /\ locks'[l].users = locks[l].users - 1
      /\ locks'[l].holder = IF locks[l].holder = r THEN None ELSE locks[l].holder
      /\ \A m \in LockIds : m # l => locks'[m] = locks[m]
  BY <1>1, <1>2
<1>4. /\ req' = [req EXCEPT ![r] = Idle]
      /\ table' = IF locks'[l].users = 0 THEN Without(table, {req[r].key}) ELSE table
  BY DEF Leave
<1> QED
  BY <1>1, <1>3, <1>4

\* Leaving keeps the table and the locks as they should be.
LEMMA LeaveKeeps ==
  ASSUME FeedInv, NEW r \in Requests, Using(r), Leave(r)
  PROVE  LockShape' /\ TableInUse' /\ HolderBuilds'
<1> PICK l, k : l = req[r].lock /\ k = req[r].key
  OBVIOUS
<1> FeedInv /\ LockShape /\ TableInUse /\ HolderBuilds
  BY DEF FeedInv
<1>1. /\ l \in LockIds /\ DOMAIN locks' = LockIds
      /\ DOMAIN locks'[l] = {"holder", "waiters", "users"}
      /\ locks'[l].users = locks[l].users - 1
      /\ locks'[l].holder = IF locks[l].holder = r THEN None ELSE locks[l].holder
      /\ \A m \in LockIds : m # l => locks'[m] = locks[m]
      /\ DOMAIN req' = Requests /\ req'[r] = Idle
      /\ \A q \in Requests : q # r => req'[q] = req[q]
      /\ table' = IF locks'[l].users = 0 THEN Without(table, {k}) ELSE table
  BY LeaveLock
<1>2. /\ k \in DOMAIN table /\ table[k] = l /\ k \in Keys
  BY DEF TableInUse, LockShape
<1>3. /\ ~Using(r)' /\ ~Building(r)'
      /\ \A q \in Requests : q # r => (Using(q)' <=> Using(q)) /\ (Building(q)' <=> Building(q))
  BY <1>1 DEF Using, Building, Idle
<1>4. /\ Users(l)' = Users(l) \ {r} /\ r \in Users(l)
      /\ \A m \in LockIds : m # l => Users(m)' = Users(m)
  BY <1>1, <1>3 DEF Users
<1>5. ASSUME NEW m \in LockIds PROVE locks'[m].users = Cardinality(Users(m)')
  <2>1. CASE m = l
    <3>1. Cardinality(Users(l) \ {r}) = Cardinality(Users(l)) - 1
      BY <1>1, <1>4, UsersCounted, FS_RemoveElement
    <3> QED
      BY <1>1, <1>4, <2>1, <3>1, UsersCounted
  <2>2. CASE m # l
    BY <1>1, <1>4, <2>2, UsersCounted
  <2> QED
    BY <2>1, <2>2
<1>6. locks'[l].users = 0 <=> Users(l)' = {}
  <2>1. IsFiniteSet(Users(l)')
    BY <1>1, <1>4, UsersCounted, FS_RemoveElement
  <2> QED
    BY <1>1, <1>5, <2>1, FS_EmptySet
<1>7. HolderBuilds'
  <2>1. ASSUME NEW q \in Requests, Building(q)'
        PROVE  locks'[req'[q].lock].holder = q
    <3>1. q # r /\ Building(q) /\ req'[q] = req[q]
      BY <1>1, <1>3, <2>1
    <3>2. locks[req[q].lock].holder = q /\ req[q].lock \in LockIds
      BY <3>1 DEF HolderBuilds, LockShape, Building, Using
    <3> QED
      BY <1>1, <3>1, <3>2
  <2>2. ASSUME NEW m \in LockIds, locks'[m].holder # None
        PROVE  /\ locks'[m].holder \in Requests /\ Building(locks[m].holder)'
               /\ req'[locks'[m].holder].lock = m
    <3> PICK h : h = locks[m].holder
      OBVIOUS
    <3>1. locks'[m].holder = h /\ h # None
      BY <1>1, <2>2
    <3>2. h \in Requests /\ Building(h) /\ req[h].lock = m
      BY <3>1 DEF HolderBuilds
    <3>3. h # r
      BY <1>1, <2>2, <3>1, <3>2
    <3>4. req'[h].lock = m /\ req'[h] = req[h]
      BY <1>1, <3>2, <3>3
    <3> QED
      BY <3>1, <3>2, <3>4 DEF Building
  <2> QED
    BY <2>1, <2>2 DEF HolderBuilds
<1>8. CASE Users(l)' = {}
  <2>1. table' = [j \in DOMAIN table \ {k} |-> table[j]]
    BY <1>1, <1>6, <1>8 DEF Without
  <2>2. ASSUME NEW q \in Requests, q # r, Using(q) PROVE req[q].key # k
    <3>1. req[q].lock # l
      BY <1>4, <1>8, <2>2 DEF Users
    <3> QED
      BY <2>2, <3>1, KeysHaveLocks
  <2>3. LockShape'
    BY <1>1, <1>3, <2>1 DEF LockShape
  <2>4. TableInUse'
    <3>1. \A q \in Requests : Using(q)' =>
            req'[q].key \in DOMAIN table' /\ table'[req'[q].key] = req'[q].lock
      BY <1>1, <1>3, <2>1, <2>2 DEF TableInUse
    <3>2. ASSUME NEW j \in DOMAIN table' PROVE \E q \in Requests : Using(q)' /\ req'[q].key = j
      <4>1. j \in DOMAIN table /\ j # k
        BY <2>1
      <4>2. PICK q \in Requests : Using(q) /\ req[q].key = j
        BY <4>1 DEF TableInUse
      <4> QED
        BY <1>1, <1>3, <4>1, <4>2
    <3>3. \A i, j \in DOMAIN table' : table'[i] = table'[j] => i = j
      BY <2>1 DEF TableInUse
    <3> QED
      BY <1>5, <3>1, <3>2, <3>3 DEF TableInUse
  <2> QED
    BY <1>7, <2>3, <2>4
<1>9. CASE Users(l)' # {}
  <2>1. table' = table
    BY <1>1, <1>6, <1>9
  <2>2. PICK q \in Requests : q # r /\ Using(q) /\ req[q].lock = l
    BY <1>4, <1>9 DEF Users
  <2>3. req[q].key = k
    BY <2>2, KeysHaveLocks
  <2>4. LockShape'
    BY <1>1, <1>3, <2>1 DEF LockShape
  <2>5. TableInUse'
    <3>1. \A p \in Requests : Using(p)' =>
            req'[p].key \in DOMAIN table' /\ table'[req'[p].key] = req'[p].lock
      BY <1>1, <1>3, <2>1 DEF TableInUse
    <3>2. \A j \in DOMAIN table' : \E p \in Requests : Using(p)' /\ req'[p].key = j
      BY <1>1, <1>3, <2>1, <2>2, <2>3 DEF TableInUse
    <3> QED
      BY <1>5, <2>1, <3>1, <3>2 DEF TableInUse
  <2> QED
    BY <1>7, <2>4, <2>5
<1> QED
  BY <1>7, <1>8, <1>9

\* A request that found nothing joins those that use the lock of its key.
Joins(r, k, l) ==
  LET free == locks[l].holder = None /\ locks[l].waiters = <<>>
  IN  /\ table' = With(table, k, l)
      /\ locks' = [locks EXCEPT
           ![l].users = @ + 1,
           ![l].holder = IF free THEN r ELSE @,
           ![l].waiters = IF free THEN @ ELSE Append(@, r)]
      /\ req' = [req EXCEPT
           ![r] = [at |-> IF free THEN "querying" ELSE "waiting",
                   key |-> k, lock |-> l, read |-> 0]]

LEMMA JoinKeeps ==
  ASSUME FeedInv, NEW r \in Requests, ~Using(r), NEW k \in Keys,
         NEW l, l = LockFor(k), Joins(r, k, l)
  PROVE  /\ LockShape' /\ TableInUse' /\ HolderBuilds'
         /\ req'[r].key = k /\ req'[r].at \in {"waiting", "querying"}
         /\ \A q \in Requests : q # r => req'[q] = req[q]
<1> FeedInv /\ LockShape /\ TableInUse /\ HolderBuilds
  BY DEF FeedInv
<1>1. /\ l \in LockIds
      /\ k \in DOMAIN table => l = table[k]
      /\ k \notin DOMAIN table => Users(l) = {} /\ \A j \in DOMAIN table : table[j] # l
  BY LockForKey
<1> PICK free : free = (locks[l].holder = None /\ locks[l].waiters = <<>>)
  OBVIOUS
<1>2. /\ DOMAIN locks' = LockIds
      /\ DOMAIN locks'[l] = {"holder", "waiters", "users"}
      /\ locks'[l].users = locks[l].users + 1
      /\ locks'[l].holder = IF free THEN r ELSE locks[l].holder
      /\ \A m \in LockIds : m # l => locks'[m] = locks[m]
  <2>1. /\ DOMAIN locks = LockIds /\ DOMAIN locks[l] = {"holder", "waiters", "users"}
    BY <1>1 DEF LockShape
  <2>2. locks' = [locks EXCEPT
           ![l].users = @ + 1,
           ![l].holder = IF free THEN r ELSE @,
           ![l].waiters = IF free THEN @ ELSE Append(@, r)]
    BY DEF Joins
  <2> QED
    BY <1>1, <2>1, <2>2
<1>3. /\ DOMAIN req' = Requests
      /\ req'[r] = [at |-> IF free THEN "querying" ELSE "waiting",
                    key |-> k, lock |-> l, read |-> 0]
      /\ \A q \in Requests : q # r => req'[q] = req[q]
  BY DEF Joins, LockShape
<1>4. /\ req'[r].key = k /\ req'[r].lock = l /\ req'[r].at \in {"waiting", "querying"}
      /\ free <=> req'[r].at = "querying"
      /\ req'[r] \in [at : {"waiting", "querying", "read"}, key : Keys,
                      lock : LockIds, read : Nat]
  BY <1>1, <1>3
<1>5. /\ Using(r)' /\ (Building(r)' <=> free) /\ ~Building(r)
      /\ \A q \in Requests : q # r => (Using(q)' <=> Using(q)) /\ (Building(q)' <=> Building(q))
  BY <1>3, <1>4 DEF Using, Building
<1>6. /\ DOMAIN table' = DOMAIN table \cup {k} /\ table'[k] = l
      /\ \A j \in DOMAIN table : table'[j] = table[j]
  BY <1>1 DEF Joins, With
<1>7. /\ Users(l)' = Users(l) \cup {r} /\ r \notin Users(l)
      /\ \A m \in LockIds : m # l => Users(m)' = Users(m)
  BY <1>3, <1>4, <1>5 DEF Users
<1>8. ASSUME NEW m \in LockIds PROVE locks'[m].users = Cardinality(Users(m)')
  <2>1. CASE m = l
    <3>1. Cardinality(Users(l) \cup {r}) = Cardinality(Users(l)) + 1
      BY <1>1, <1>7, UsersCounted, FS_AddElement
    <3> QED
      BY <1>1, <1>2, <1>7, <2>1, <3>1, UsersCounted
  <2>2. CASE m # l
    BY <1>2, <1>7, <2>2, UsersCounted
  <2> QED
    BY <2>1, <2>2
<1>9. LockShape'
  <2>1. DOMAIN table' \subseteq Keys /\ \A j \in DOMAIN table' : table'[j] \in LockIds
    BY <1>1, <1>6 DEF LockShape
  <2>2. ASSUME NEW q \in Requests
        PROVE  IF Using(q)'
               THEN req'[q] \in [at : {"waiting", "querying", "read"}, key : Keys,
                                 lock : LockIds, read : Nat]
               ELSE req'[q] = Idle
    BY <1>3, <1>4, <1>5 DEF LockShape
  <2>3. \A m \in LockIds : DOMAIN locks'[m] = {"holder", "waiters", "users"}
    BY <1>2 DEF LockShape
  <2> QED
    BY <1>2, <1>3, <2>1, <2>2, <2>3 DEF LockShape
<1>10. TableInUse'
  <2>1. ASSUME NEW q \in Requests, Using(q)'
        PROVE  req'[q].key \in DOMAIN table' /\ table'[req'[q].key] = req'[q].lock
    BY <1>3, <1>4, <1>5, <1>6, <2>1 DEF TableInUse
  <2>2. ASSUME NEW j \in DOMAIN table' PROVE \E q \in Requests : Using(q)' /\ req'[q].key = j
    <3>1. CASE j = k
      BY <1>4, <1>5, <3>1
    <3>2. CASE j # k
      <4>1. PICK q \in Requests : Using(q) /\ req[q].key = j
        BY <1>6, <3>2 DEF TableInUse
      <4> QED
        BY <1>3, <1>5, <4>1
    <3> QED
      BY <3>1, <3>2
  <2>3. ASSUME NEW i \in DOMAIN table', NEW j \in DOMAIN table', table'[i] = table'[j]
        PROVE  i = j
    BY <1>1, <1>6, <2>3 DEF TableInUse
  <2> QED
    BY <1>8, <2>1, <2>2, <2>3 DEF TableInUse
<1>11. HolderBuilds'
  <2>1. ASSUME NEW q \in Requests, Building(q)'
        PROVE  locks'[req'[q].lock].holder = q
    <3>1. CASE q = r
      BY <1>2, <1>4, <1>5, <2>1, <3>1
    <3>2. CASE q # r
      <4>1. Building(q) /\ req'[q] = req[q] /\ locks[req[q].lock].holder = q
            /\ req[q].lock \in LockIds /\ q # None
        BY <1>3, <1>5, <2>1, <3>2, RequestsAssumption
        DEF HolderBuilds, LockShape, Building, Using
      <4>2. req[q].lock = l => ~free
        BY <4>1
      <4> QED
        BY <1>2, <4>1, <4>2
    <3> QED
      BY <3>1, <3>2
  <2>2. ASSUME NEW m \in LockIds, locks'[m].holder # None
        PROVE  /\ locks'[m].holder \in Requests /\ Building(locks[m].holder)'
               /\ req'[locks'[m].holder].lock = m
    <3>1. CASE m = l /\ free
      <4>1. locks'[m].holder = r
        BY <1>2, <3>1
      <4> QED
        BY <1>4, <1>5, <3>1, <4>1 DEF Building
    <3>2. CASE ~(m = l /\ free)
      <4> PICK h : h = locks[m].holder
        OBVIOUS
      <4>1. locks'[m].holder = h /\ h # None
        BY <1>2, <2>2, <3>2
      <4>2. h \in Requests /\ Building(h) /\ req[h].lock = m /\ h # r
        BY <1>5, <4>1 DEF HolderBuilds
      <4>3. req'[h] = req[h]
        BY <1>3, <4>2
      <4> QED
        BY <4>1, <4>2, <4>3 DEF Building
    <3> QED
      BY <3>1, <3>2
  <2> QED
    BY <2>1, <2>2 DEF HolderBuilds
<1> QED
  BY <1>3, <1>4, <1>9, <1>10, <1>11

\* A request in place of a holder that left, or one that goes on building.
LEMMA GoesOnKeeps ==
  ASSUME FeedInv, NEW r \in Requests, Using(r), NEW l, l = req[r].lock,
         UNCHANGED table, DOMAIN req' = Requests,
         \A q \in Requests : q # r => req'[q] = req[q],
         req'[r] \in [at : {"querying", "read"}, key : Keys, lock : LockIds, read : Nat],
         req'[r].key = req[r].key, req'[r].lock = l,
         DOMAIN locks' = LockIds,
         \A m \in LockIds : m # l => locks'[m] = locks[m],
         DOMAIN locks'[l] = {"holder", "waiters", "users"},
         locks'[l].users = locks[l].users,
         locks'[l].holder = r,
         locks[l].holder = None \/ locks[l].holder = r
  PROVE  LockShape' /\ TableInUse' /\ HolderBuilds'
<1> FeedInv /\ LockShape /\ TableInUse /\ HolderBuilds /\ l \in LockIds
  BY DEF FeedInv, LockShape
<1>1. /\ Using(r)' /\ Building(r)'
      /\ \A q \in Requests : q # r => (Using(q)' <=> Using(q)) /\ (Building(q)' <=> Building(q))
  BY DEF Using, Building
<1>2. \A m \in LockIds : Users(m)' = Users(m)
  BY <1>1 DEF Users
<1>3. LockShape'
  <2>1. \A q \in Requests :
          IF Using(q)'
          THEN req'[q] \in [at : {"waiting", "querying", "read"}, key : Keys,
                            lock : LockIds, read : Nat]
          ELSE req'[q] = Idle
    BY <1>1 DEF LockShape
  <2>2. \A m \in LockIds : DOMAIN locks'[m] = {"holder", "waiters", "users"}
    BY DEF LockShape
  <2> QED
    BY <2>1, <2>2 DEF LockShape
<1>4. TableInUse'
  <2>1. \A q \in Requests : Using(q)' =>
          req'[q].key \in DOMAIN table' /\ table'[req'[q].key] = req'[q].lock
    BY <1>1 DEF TableInUse
  <2>2. ASSUME NEW j \in DOMAIN table' PROVE \E q \in Requests : Using(q)' /\ req'[q].key = j
    <3>1. PICK q \in Requests : Using(q) /\ req[q].key = j
      BY <2>2 DEF TableInUse
    <3> QED
      BY <1>1, <3>1
  <2>3. \A m \in LockIds : locks'[m].users = Cardinality(Users(m)')
    BY <1>2 DEF TableInUse
  <2> QED
    BY <2>1, <2>2, <2>3 DEF TableInUse
<1>5. ASSUME NEW q \in Requests, Building(q)'
      PROVE  locks'[req'[q].lock].holder = q
  <2>1. CASE q # r
    <3>1. Building(q) /\ req'[q] = req[q] /\ locks[req[q].lock].holder = q
          /\ req[q].lock \in LockIds /\ q # None
      BY <1>1, <1>5, <2>1, RequestsAssumption DEF HolderBuilds, LockShape, Building, Using
    <3> QED
      BY <2>1, <3>1
  <2> QED
    BY <2>1
<1>6. ASSUME NEW m \in LockIds, locks'[m].holder # None
      PROVE  /\ locks'[m].holder \in Requests /\ Building(locks[m].holder)'
             /\ req'[locks'[m].holder].lock = m
  <2>1. CASE m = l
    BY <1>1, <2>1 DEF Building
  <2>2. CASE m # l
    <3> PICK h : h = locks[m].holder
      OBVIOUS
    <3>1. locks'[m].holder = h /\ h # None
      BY <1>6, <2>2
    <3>2. h \in Requests /\ Building(h) /\ req[h].lock = m
      BY <3>1 DEF HolderBuilds
    <3>3. req'[h] = req[h]
      BY <2>2, <3>2
    <3> QED
      BY <3>1, <3>2, <3>3 DEF Building
  <2> QED
    BY <2>1, <2>2
<1>7. HolderBuilds'
  BY <1>5, <1>6 DEF HolderBuilds
<1> QED
  BY <1>3, <1>4, <1>7

-----------------------------------------------------------------------------
(* The cache. *)

\* Two requests that build have different keys: each holds the lock of its own.
LEMMA OneBuilds ==
  ASSUME FeedInv, NEW q \in Requests, NEW r \in Requests, q # r, Building(q), Building(r)
  PROVE  req[q].key # req[r].key
<1>1. Using(q) /\ Using(r)
  BY DEF Using, Building
<1>2. locks[req[q].lock].holder = q /\ locks[req[r].lock].holder = r
  BY DEF FeedInv, HolderBuilds
<1> QED
  BY <1>1, <1>2, KeysHaveLocks

\* What a request that finds nothing leaves of the cache.
LEMMA Missed ==
  ASSUME FeedInv, NEW k \in Keys, ~Hit(k), cache' = Looked(k), UNCHANGED <<clock, shown>>
  PROVE  /\ CacheShape' /\ k \notin DOMAIN cache' /\ DOMAIN cache' \subseteq DOMAIN cache
         /\ \A j \in DOMAIN cache' : shown[j] <= cache'[j].read /\ cache'[j].read <= clock
<1>1. cache' = [j \in DOMAIN cache \ {k} |-> cache[j]]
  BY DEF Looked, Without
<1>2. IsFiniteSet(DOMAIN cache \ {k}) /\ Cardinality(DOMAIN cache \ {k}) <= MaxSize
  <2>1. IsFiniteSet(DOMAIN cache) /\ Cardinality(DOMAIN cache) <= MaxSize
    BY DEF FeedInv, CacheShape
  <2>2. /\ IsFiniteSet(DOMAIN cache \ {k})
        /\ Cardinality(DOMAIN cache \ {k}) <= Cardinality(DOMAIN cache)
    BY <2>1, FS_Subset
  <2>3. Cardinality(DOMAIN cache \ {k}) \in Nat /\ Cardinality(DOMAIN cache) \in Nat
    BY <2>1, <2>2, FS_CardinalityType
  <2> QED
    BY <2>1, <2>2, <2>3, SizesAssumption
<1>3. CacheShape'
  BY <1>1, <1>2 DEF FeedInv, CacheShape
<1> QED
  BY <1>1, <1>3 DEF FeedInv, Freshness

\* What a request that finds a feed is given.
LEMMA Found ==
  ASSUME FeedInv, NEW k \in Keys, Hit(k), cache' = Looked(k), Respond(k, cache[k].read),
         UNCHANGED clock
  PROVE  /\ CacheShape' /\ cache' = cache
         /\ \A j \in Keys : j # k => shown'[j] = shown[j]
         /\ \A j \in DOMAIN cache : shown'[j] <= cache[j].read /\ cache[j].read <= clock
         /\ \A j \in Keys : shown'[j] <= clock
         /\ \A q \in Requests : Building(q) => req[q].key # k
<1>1. cache' = cache /\ k \in DOMAIN cache
  BY DEF Looked, Hit
<1>2. /\ clock \in Nat /\ cache[k].read \in Nat /\ shown \in [Keys -> Nat]
      /\ cache[k].read <= clock
  BY <1>1, SizesAssumption DEF FeedInv, CacheShape, Freshness
<1>3. /\ shown' \in [Keys -> Nat] /\ \A j \in Keys : j # k => shown'[j] = shown[j]
      /\ shown'[k] <= cache[k].read /\ shown'[k] <= clock
  <2>1. shown' = [shown EXCEPT ![k] = IF @ < cache[k].read THEN cache[k].read ELSE @]
    BY DEF Respond
  <2>2. shown[k] <= cache[k].read /\ shown[k] \in Nat
    BY <1>1, <1>2 DEF FeedInv, Freshness
  <2>3. shown'[k] = IF shown[k] < cache[k].read THEN cache[k].read ELSE shown[k]
    BY <1>2, <2>1
  <2> QED
    BY <1>2, <2>1, <2>2, <2>3
<1>4. CacheShape'
  BY <1>1, <1>3 DEF FeedInv, CacheShape
<1>5. \A j \in DOMAIN cache : shown'[j] <= cache[j].read /\ cache[j].read <= clock
  BY <1>3 DEF FeedInv, Freshness, CacheShape
<1>6. \A j \in Keys : shown'[j] <= clock
  BY <1>3 DEF FeedInv, Freshness
<1> QED
  BY <1>1, <1>3, <1>4, <1>5, <1>6 DEF FeedInv, Freshness

\* Pruning makes room for one more feed.
LEMMA RoomForOne ==
  ASSUME FeedInv, NEW victims, Pruned(victims), NEW k \in Keys, NEW S,
         S = (DOMAIN cache \ (Expired \cup victims)) \cup {k}
  PROVE  IsFiniteSet(S) /\ Cardinality(S) <= MaxSize
<1> DEFINE left == DOMAIN cache \ Expired
           n == IF Cardinality(left) >= MaxSize THEN Cardinality(left) - MaxSize + 1 ELSE 0
           kept == left \ victims
<1>1. IsFiniteSet(left) /\ Cardinality(left) \in Nat
  <2>1. IsFiniteSet(DOMAIN cache)
    BY DEF FeedInv, CacheShape
  <2> QED
    BY <2>1, FS_Subset, FS_CardinalityType
<1>2. victims \in SUBSET left /\ Cardinality(victims) = n
  BY DEF Pruned, Soonest
<1>3. IsFiniteSet(kept) /\ Cardinality(kept) = Cardinality(left) - n
  <2> HIDE DEF left, n
  <2>1. left \cap victims = victims
    BY <1>2
  <2>2. /\ IsFiniteSet(left \ victims)
        /\ Cardinality(left \ victims) = Cardinality(left) - Cardinality(left \cap victims)
    BY <1>1, FS_Difference
  <2> QED
    BY <1>2, <2>1, <2>2
<1>4. Cardinality(kept) \in Nat /\ Cardinality(kept) + 1 <= MaxSize
  <2> DEFINE c == Cardinality(left)
             d == Cardinality(kept)
  <2>1. d \in Nat
    BY <1>3, FS_CardinalityType
  <2>2. c \in Nat /\ d = c - n /\ MaxSize \in Nat \ {0}
    BY <1>1, <1>3, SizesAssumption
  <2>3. n = IF c >= MaxSize THEN c - MaxSize + 1 ELSE 0
    OBVIOUS
  <2> HIDE DEF left, kept, n, c, d
  <2>4. d + 1 <= MaxSize
    BY <2>1, <2>2, <2>3
  <2> QED
    BY <2>1, <2>4 DEF c, d
<1>5. S = kept \cup {k}
  BY <1>2
<1> HIDE DEF kept, left, n
<1>6. IsFiniteSet(S) /\ (Cardinality(S) = Cardinality(kept) \/ Cardinality(S) = Cardinality(kept) + 1)
  BY <1>3, <1>5, FS_AddElement
<1> QED
  BY <1>4, <1>6, SizesAssumption

-----------------------------------------------------------------------------
(* Every step keeps the invariant. *)

LEMMA FeedInit == Init => FeedInv
<1> SUFFICES ASSUME Init PROVE FeedInv
  OBVIOUS
<1> USE DEF Init
<1>1. CacheShape
  <2>1. DOMAIN cache = {} /\ clock = 0 /\ shown \in [Keys -> Nat]
    OBVIOUS
  <2>2. IsFiniteSet({}) /\ Cardinality({}) = 0
    BY FS_EmptySet
  <2> QED
    BY <2>1, <2>2, SizesAssumption DEF CacheShape
<1>2. \A r \in Requests : ~Using(r) /\ ~Building(r) /\ req[r].at # "read"
  BY DEF Using, Building, Idle
<1>3. LockShape
  BY <1>2 DEF LockShape, Unused
<1>4. TableInUse
  <2>1. \A l \in LockIds : Users(l) = {}
    BY <1>2 DEF Users
  <2>2. \A l \in LockIds : locks[l].users = Cardinality(Users(l))
    BY <2>1, FS_EmptySet DEF Unused
  <2> QED
    BY <1>2, <2>2 DEF TableInUse
<1>5. HolderBuilds
  BY <1>2 DEF HolderBuilds, Unused
<1>6. Freshness
  BY <1>2 DEF Freshness
<1> QED
  BY <1>1, <1>3, <1>4, <1>5, <1>6 DEF FeedInv

\* A request that joins a lock starts a feed the cache does not have.
LEMMA RequestStep ==
  ASSUME FeedInv, NEW r \in Requests, NEW k \in Keys, Request(r, k)
  PROVE  FeedInv'
<1>1. ~Using(r) /\ cache' = Looked(k) /\ clock' = clock
  BY DEF Request
<1>2. CASE Hit(k)
  <2>1. Respond(k, cache[k].read) /\ UNCHANGED <<table, locks, req>>
    BY <1>2 DEF Request
  <2>2. /\ CacheShape' /\ cache' = cache
        /\ \A j \in Keys : j # k => shown'[j] = shown[j]
        /\ \A j \in DOMAIN cache : shown'[j] <= cache[j].read /\ cache[j].read <= clock
        /\ \A j \in Keys : shown'[j] <= clock
        /\ \A q \in Requests : Building(q) => req[q].key # k
    BY <1>1, <1>2, <2>1, Found
  <2>3. LockShape' /\ TableInUse' /\ HolderBuilds'
    BY <2>1 DEF FeedInv, LockShape, TableInUse, HolderBuilds, Users, Using, Building
  <2>4. \A q \in Requests : Building(q) => req[q].key \notin DOMAIN cache
    BY DEF FeedInv, Freshness
  <2>5. ASSUME NEW q \in Requests, req[q].at = "read"
        PROVE  shown'[req[q].key] <= req[q].read /\ req[q].read <= clock
    <3>1. Building(q) /\ req[q].key \in Keys /\ req[q].key # k
      BY <2>2, <2>5 DEF FeedInv, LockShape, Building, Using
    <3> QED
      BY <2>2, <2>5, <3>1 DEF FeedInv, Freshness
  <2>6. Freshness'
    BY <1>1, <2>1, <2>2, <2>4, <2>5 DEF Freshness, Building
  <2> QED
    BY <2>2, <2>3, <2>6 DEF FeedInv
<1>3. CASE ~Hit(k)
  <2> PICK l : l = LockFor(k)
    OBVIOUS
  <2>1. Joins(r, k, l) /\ UNCHANGED shown
    BY <1>3 DEF Request, Joins
  <2>2. /\ LockShape' /\ TableInUse' /\ HolderBuilds'
        /\ req'[r].key = k /\ req'[r].at \in {"waiting", "querying"}
        /\ \A q \in Requests : q # r => req'[q] = req[q]
    BY <1>1, <2>1, JoinKeeps
  <2>3. /\ CacheShape' /\ k \notin DOMAIN cache' /\ DOMAIN cache' \subseteq DOMAIN cache
        /\ \A j \in DOMAIN cache' : shown[j] <= cache'[j].read /\ cache'[j].read <= clock
    BY <1>1, <1>3, <2>1, Missed
  <2>4. ASSUME NEW q \in Requests
        PROVE  /\ Building(q)' => req'[q].key \notin DOMAIN cache'
               /\ req'[q].at = "read" => shown[req'[q].key] <= req'[q].read /\ req'[q].read <= clock
    <3>1. CASE q = r
      BY <2>2, <2>3, <3>1
    <3>2. CASE q # r
      BY <2>2, <2>3, <3>2 DEF FeedInv, Freshness, Building
    <3> QED
      BY <3>1, <3>2
  <2>5. Freshness'
    BY <1>1, <2>1, <2>3, <2>4 DEF FeedInv, Freshness
  <2> QED
    BY <2>2, <2>3, <2>5 DEF FeedInv
<1> QED
  BY <1>2, <1>3

LEMMA WakeStep ==
  ASSUME FeedInv, NEW r \in Requests, Wake(r)
  PROVE  FeedInv'
<1> PICK k, l : k = req[r].key /\ l = req[r].lock
  OBVIOUS
<1>1. /\ req[r].at = "waiting" /\ locks[l].holder = None
      /\ Enter(r) /\ clock' = clock /\ cache' = Looked(k)
  BY DEF Wake, Enter
<1>2. /\ Using(r) /\ ~Building(r) /\ k \in Keys /\ l \in LockIds
      /\ req[r] \in [at : {"waiting", "querying", "read"}, key : Keys,
                     lock : LockIds, read : Nat]
  BY <1>1 DEF FeedInv, LockShape, Using, Building
<1>3. CASE Hit(k)
  <2>1. Respond(k, cache[k].read) /\ Leave(r)
    BY <1>1, <1>3 DEF Enter
  <2>2. /\ CacheShape' /\ cache' = cache
        /\ \A j \in Keys : j # k => shown'[j] = shown[j]
        /\ \A j \in DOMAIN cache : shown'[j] <= cache[j].read /\ cache[j].read <= clock
        /\ \A j \in Keys : shown'[j] <= clock
        /\ \A q \in Requests : Building(q) => req[q].key # k
    BY <1>1, <1>2, <1>3, <2>1, Found
  <2>3. LockShape' /\ TableInUse' /\ HolderBuilds'
    BY <1>2, <2>1, LeaveKeeps
  <2>4. req'[r] = Idle /\ \A q \in Requests : q # r => req'[q] = req[q]
    BY <1>2, <2>1, LeaveLock
  <2>5. ASSUME NEW q \in Requests
        PROVE  /\ Building(q)' => req'[q].key \notin DOMAIN cache
               /\ req'[q].at = "read" => shown'[req'[q].key] <= req'[q].read /\ req'[q].read <= clock
    <3>1. CASE q = r
      BY <2>4, <3>1 DEF Building, Idle
    <3>2. CASE q # r
      <4>1. req'[q] = req[q] /\ (Building(q)' <=> Building(q))
        BY <2>4, <3>2 DEF Building
      <4>2. Building(q) => req[q].key \notin DOMAIN cache
        BY DEF FeedInv, Freshness
      <4>3. ASSUME req[q].at = "read"
            PROVE  shown'[req[q].key] <= req[q].read /\ req[q].read <= clock
        <5>1. Building(q) /\ req[q].key \in Keys /\ req[q].key # k
          BY <2>2, <4>3 DEF FeedInv, LockShape, Building, Using
        <5> QED
          BY <2>2, <4>3, <5>1 DEF FeedInv, Freshness
      <4> QED
        BY <4>1, <4>2, <4>3
    <3> QED
      BY <3>1, <3>2
  <2>6. Freshness'
    BY <1>1, <2>2, <2>5 DEF Freshness
  <2> QED
    BY <2>2, <2>3, <2>6 DEF FeedInv
<1>4. CASE ~Hit(k)
  <2>1. /\ req' = [req EXCEPT ![r].at = "querying"]
        /\ locks' = [locks EXCEPT ![l].holder = r, ![l].waiters = Tail(@)]
        /\ UNCHANGED <<table, shown>>
    BY <1>1, <1>4 DEF Enter
  <2>2. /\ DOMAIN req' = Requests /\ \A q \in Requests : q # r => req'[q] = req[q]
        /\ req'[r] \in [at : {"querying", "read"}, key : Keys, lock : LockIds, read : Nat]
        /\ req'[r].key = k /\ req'[r].lock = l /\ req'[r].at = "querying"
    BY <1>2, <2>1 DEF FeedInv, LockShape
  <2>3. /\ DOMAIN locks' = LockIds
        /\ \A m \in LockIds : m # l => locks'[m] = locks[m]
        /\ DOMAIN locks'[l] = {"holder", "waiters", "users"}
        /\ locks'[l].users = locks[l].users
        /\ locks'[l].holder = r
    <3>1. DOMAIN locks = LockIds /\ DOMAIN locks[l] = {"holder", "waiters", "users"}
      BY <1>2 DEF FeedInv, LockShape
    <3> QED
      BY <1>2, <2>1, <3>1
  <2>4. LockShape' /\ TableInUse' /\ HolderBuilds'
    BY <1>1, <1>2, <2>1, <2>2, <2>3, GoesOnKeeps
  <2>5. /\ CacheShape' /\ k \notin DOMAIN cache' /\ DOMAIN cache' \subseteq DOMAIN cache
        /\ \A j \in DOMAIN cache' : shown[j] <= cache'[j].read /\ cache'[j].read <= clock
    BY <1>1, <1>2, <1>4, <2>1, Missed
  <2>6. ASSUME NEW q \in Requests
        PROVE  /\ Building(q)' => req'[q].key \notin DOMAIN cache'
               /\ req'[q].at = "read" => shown[req'[q].key] <= req'[q].read /\ req'[q].read <= clock
    <3>1. CASE q = r
      BY <2>2, <2>5, <3>1
    <3>2. CASE q # r
      BY <2>2, <2>5, <3>2 DEF FeedInv, Freshness, Building
    <3> QED
      BY <3>1, <3>2
  <2>7. Freshness'
    BY <1>1, <2>1, <2>5, <2>6 DEF FeedInv, Freshness
  <2> QED
    BY <2>4, <2>5, <2>7 DEF FeedInv
<1> QED
  BY <1>3, <1>4

LEMMA ReadStep ==
  ASSUME FeedInv, NEW r \in Requests, Read(r)
  PROVE  FeedInv'
<1> PICK k, l : k = req[r].key /\ l = req[r].lock
  OBVIOUS
<1>1. /\ req[r].at = "querying" /\ UNCHANGED <<clock, cache, table, locks, shown>>
      /\ req' = [req EXCEPT ![r].at = "read", ![r].read = clock]
  BY DEF Read
<1>2. /\ Using(r) /\ Building(r) /\ k \in Keys /\ l \in LockIds
      /\ req[r] \in [at : {"waiting", "querying", "read"}, key : Keys,
                     lock : LockIds, read : Nat]
  BY <1>1 DEF FeedInv, LockShape, Using, Building
<1>3. clock \in Nat
  BY SizesAssumption DEF FeedInv, CacheShape
<1>4. /\ DOMAIN req' = Requests /\ \A q \in Requests : q # r => req'[q] = req[q]
      /\ req'[r] \in [at : {"querying", "read"}, key : Keys, lock : LockIds, read : Nat]
      /\ req'[r].key = k /\ req'[r].lock = l /\ req'[r].at = "read" /\ req'[r].read = clock
  BY <1>1, <1>2, <1>3 DEF FeedInv, LockShape
<1>5. DOMAIN locks = LockIds /\ DOMAIN locks[l] = {"holder", "waiters", "users"}
      /\ locks[l].holder = r
  BY <1>2 DEF FeedInv, LockShape, HolderBuilds
<1>6. LockShape' /\ TableInUse' /\ HolderBuilds'
  BY <1>1, <1>2, <1>4, <1>5, GoesOnKeeps
<1>7. CacheShape'
  BY <1>1 DEF FeedInv, CacheShape
<1>8. ASSUME NEW q \in Requests
      PROVE  /\ Building(q)' => req'[q].key \notin DOMAIN cache
             /\ req'[q].at = "read" => shown[req'[q].key] <= req'[q].read /\ req'[q].read <= clock
  <2>1. CASE q = r
    <3>1. k \notin DOMAIN cache /\ shown[k] <= clock
      BY <1>2 DEF FeedInv, Freshness
    <3> QED
      BY <1>3, <1>4, <2>1, <3>1
  <2>2. CASE q # r
    BY <1>4, <2>2 DEF FeedInv, Freshness, Building
  <2> QED
    BY <2>1, <2>2
<1>9. Freshness'
  BY <1>1, <1>8 DEF FeedInv, Freshness
<1> QED
  BY <1>6, <1>7, <1>9 DEF FeedInv

\* The feed that is built is the first of its key, and no other is in work.
LEMMA FinishStep ==
  ASSUME FeedInv, NEW r \in Requests, Finish(r)
  PROVE  FeedInv'
<1> PICK k, read : k = req[r].key /\ read = req[r].read
  OBVIOUS
<1>1. /\ req[r].at = "read" /\ Respond(k, read) /\ Leave(r) /\ clock' = clock
  BY DEF Finish
<1>2. /\ Using(r) /\ Building(r) /\ k \in Keys /\ read \in Nat
      /\ shown[k] <= read /\ read <= clock /\ clock \in Nat /\ shown \in [Keys -> Nat]
  BY <1>1, SizesAssumption
  DEF FeedInv, LockShape, CacheShape, Freshness, Using, Building
<1>3. PICK victims \in SUBSET DOMAIN cache :
        /\ Pruned(victims)
        /\ cache' = With(Without(cache, Expired \cup victims), k,
                         [until |-> clock + TTL, read |-> read])
  BY DEF Finish
<1>4. /\ DOMAIN cache' = (DOMAIN cache \ (Expired \cup victims)) \cup {k}
      /\ cache'[k] = [until |-> clock + TTL, read |-> read]
      /\ \A j \in DOMAIN cache' : j # k => j \in DOMAIN cache /\ cache'[j] = cache[j]
  BY <1>3 DEF With, Without
<1>5. shown' \in [Keys -> Nat] /\ shown'[k] = read /\ \A j \in Keys : j # k => shown'[j] = shown[j]
  <2>1. shown' = [shown EXCEPT ![k] = IF @ < read THEN read ELSE @]
    BY <1>1 DEF Respond
  <2>2. shown[k] \in Nat /\ shown'[k] = IF shown[k] < read THEN read ELSE shown[k]
    BY <1>2, <2>1
  <2>3. shown'[k] = read
    BY <1>2, <2>2
  <2> QED
    BY <1>2, <2>1, <2>3
<1>6. LockShape' /\ TableInUse' /\ HolderBuilds'
  BY <1>1, <1>2, LeaveKeeps
<1>7. req'[r] = Idle /\ \A q \in Requests : q # r => req'[q] = req[q]
  BY <1>1, <1>2, LeaveLock
<1>8. CacheShape'
  <2>1. IsFiniteSet(DOMAIN cache') /\ Cardinality(DOMAIN cache') <= MaxSize
    BY <1>2, <1>3, <1>4, RoomForOne
  <2>2. cache'[k] \in [until : Nat, read : Nat]
    BY <1>2, <1>4, SizesAssumption
  <2>3. \A j \in DOMAIN cache' : j \in Keys /\ cache'[j] \in [until : Nat, read : Nat]
    BY <1>2, <1>4, <2>2 DEF FeedInv, CacheShape
  <2> QED
    BY <1>1, <1>5, <2>1, <2>3 DEF FeedInv, CacheShape
<1>9. ASSUME NEW q \in Requests
      PROVE  /\ Building(q)' => req'[q].key \notin DOMAIN cache'
             /\ req'[q].at = "read" => shown'[req'[q].key] <= req'[q].read /\ req'[q].read <= clock
  <2>1. CASE q = r
    BY <1>7, <2>1 DEF Building, Idle
  <2>2. CASE q # r
    <3>1. req'[q] = req[q] /\ (Building(q)' <=> Building(q))
      BY <1>7, <2>2 DEF Building
    <3>2. ASSUME Building(q)
          PROVE  req[q].key # k /\ req[q].key \in Keys /\ req[q].key \notin DOMAIN cache'
      <4>1. req[q].key # k
        BY <1>2, <2>2, <3>2, OneBuilds
      <4>2. req[q].key \notin DOMAIN cache /\ req[q].key \in Keys
        BY <3>2 DEF FeedInv, Freshness, LockShape, Building, Using
      <4> QED
        BY <1>4, <4>1, <4>2
    <3>3. ASSUME req[q].at = "read"
          PROVE  shown'[req[q].key] <= req[q].read /\ req[q].read <= clock
      <4>1. Building(q)
        BY <3>3 DEF Building
      <4> QED
        BY <1>5, <3>2, <3>3, <4>1 DEF FeedInv, Freshness
    <3> QED
      BY <3>1, <3>2, <3>3
  <2> QED
    BY <2>1, <2>2
<1>10. \A j \in DOMAIN cache' : shown'[j] <= cache'[j].read /\ cache'[j].read <= clock
  <2> SUFFICES ASSUME NEW j \in DOMAIN cache'
               PROVE  shown'[j] <= cache'[j].read /\ cache'[j].read <= clock
    OBVIOUS
  <2>1. CASE j = k
    BY <1>2, <1>4, <1>5, <2>1
  <2>2. CASE j # k
    <3>1. j \in Keys /\ j \in DOMAIN cache /\ cache'[j] = cache[j]
      BY <1>4, <2>2 DEF FeedInv, CacheShape
    <3> QED
      BY <1>5, <2>2, <3>1 DEF FeedInv, Freshness
  <2> QED
    BY <2>1, <2>2
<1>11. \A j \in Keys : shown'[j] <= clock
  BY <1>2, <1>5 DEF FeedInv, Freshness
<1>12. Freshness'
  BY <1>1, <1>9, <1>10, <1>11 DEF Freshness
<1> QED
  BY <1>6, <1>8, <1>12 DEF FeedInv

LEMMA BreakStep ==
  ASSUME FeedInv, NEW r \in Requests, Break(r)
  PROVE  FeedInv'
<1>1. Using(r) /\ Leave(r) /\ UNCHANGED <<clock, cache, shown>>
  BY DEF Break
<1>2. LockShape' /\ TableInUse' /\ HolderBuilds'
  BY <1>1, LeaveKeeps
<1>3. req'[r] = Idle /\ \A q \in Requests : q # r => req'[q] = req[q]
  BY <1>1, LeaveLock
<1>4. ~Building(r)' /\ req'[r].at # "read"
  BY <1>3 DEF Building, Idle
<1>5. CacheShape'
  BY <1>1 DEF FeedInv, CacheShape
<1>6. Freshness'
  BY <1>1, <1>3, <1>4 DEF FeedInv, Freshness, Building
<1> QED
  BY <1>2, <1>5, <1>6 DEF FeedInv

LEMMA FeedStep == FeedInv /\ [Next]_vars => FeedInv'
<1> SUFFICES ASSUME FeedInv, [Next]_vars PROVE FeedInv'
  OBVIOUS
<1>1. CASE Tick
  <2>1. /\ UNCHANGED <<cache, table, locks, req, shown>>
        /\ clock \in Nat /\ clock' = clock + 1 /\ clock' \in 0 .. MaxTime
    BY <1>1, SizesAssumption DEF FeedInv, CacheShape, Tick
  <2>2. CacheShape'
    BY <2>1 DEF FeedInv, CacheShape
  <2>3. LockShape' /\ TableInUse' /\ HolderBuilds'
    BY <2>1 DEF FeedInv, LockShape, TableInUse, HolderBuilds, Users, Using, Building
  <2>4. ASSUME NEW n \in Nat, n <= clock PROVE n <= clock'
    BY <2>1, <2>4
  <2>5. /\ \A r \in Requests : req[r].at = "read" => req[r].read \in Nat
        /\ \A k \in DOMAIN cache : cache[k].read \in Nat
        /\ \A k \in Keys : shown[k] \in Nat
    BY DEF FeedInv, LockShape, CacheShape, Using
  <2>6. Freshness'
    BY <2>1, <2>4, <2>5 DEF FeedInv, Freshness, Building
  <2> QED
    BY <2>2, <2>3, <2>6 DEF FeedInv
<1>2. CASE UNCHANGED vars
  <2>1. CacheShape'
    BY <1>2 DEF vars, FeedInv, CacheShape
  <2>2. LockShape' /\ TableInUse' /\ HolderBuilds'
    BY <1>2 DEF vars, FeedInv, LockShape, TableInUse, HolderBuilds, Users, Using, Building
  <2>3. Freshness'
    BY <1>2 DEF vars, FeedInv, Freshness, Building
  <2> QED
    BY <2>1, <2>2, <2>3 DEF FeedInv
<1>3. ASSUME NEW r \in Requests, Step(r) \/ Break(r) \/ \E k \in Keys : Request(r, k)
      PROVE  FeedInv'
  BY <1>3, RequestStep, WakeStep, ReadStep, FinishStep, BreakStep DEF Step
<1> QED
  BY <1>1, <1>2, <1>3 DEF Next

LEMMA FeedInvHolds == Spec => []FeedInv
<1>1. Init => FeedInv
  BY FeedInit
<1>2. FeedInv /\ [Next]_vars => FeedInv'
  BY FeedStep
<1> QED
  BY <1>1, <1>2, PTL DEF Spec

-----------------------------------------------------------------------------
(* What the API relies on. *)

\* At most one request builds a feed at a time, whatever fails or is cancelled,
\* and none builds a feed that is cached.
THEOREM OneFlight == Spec => []SingleFlight
<1>1. FeedInv => SingleFlight
  BY OneBuilds DEF SingleFlight, FeedInv, Freshness
<1> QED
  BY <1>1, FeedInvHolds, PTL

\* The table of locks has the keys in use and no other, every lock counts its
\* users, and the cache keeps within its size.
THEOREM LocksFollowRequests == Spec => []LocksInUse
<1>1. FeedInv => LocksInUse
  <2> SUFFICES ASSUME FeedInv PROVE LocksInUse
    OBVIOUS
  <2>1. DOMAIN table = {req[r].key : r \in {s \in Requests : Using(s)}}
    <3>1. \A k \in DOMAIN table : \E r \in {s \in Requests : Using(s)} : req[r].key = k
      BY DEF FeedInv, TableInUse
    <3>2. \A r \in {s \in Requests : Using(s)} : req[r].key \in DOMAIN table
      BY DEF FeedInv, TableInUse
    <3> QED
      BY <3>1, <3>2
  <2>2. \A r \in Requests : req[r].at \in {"idle", "waiting", "querying", "read"}
    BY DEF FeedInv, LockShape, Using, Idle
  <2>3. \A l \in LockIds :
          /\ locks[l].users = Cardinality({r \in Requests : Using(r) /\ req[r].lock = l})
          /\ locks[l].holder # None => Building(locks[l].holder)
    BY DEF FeedInv, TableInUse, HolderBuilds, Users
  <2> QED
    BY <2>1, <2>2, <2>3 DEF LocksInUse, TypeOK, FeedInv, CacheShape, LockShape
<1> QED
  BY <1>1, FeedInvHolds, PTL

\* Readers of a feed do not go back in time.
THEOREM ReadersGoForward == Spec => []NeverOlder
<1>1. FeedInv => NeverOlder
  BY DEF FeedInv, Freshness, NeverOlder
<1> QED
  BY <1>1, FeedInvHolds, PTL
=============================================================================
