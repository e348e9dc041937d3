----------------------------- MODULE FeedCache ------------------------------
(***************************************************************************)
(* The API's feed cache: concurrent requests for a feed, one of which      *)
(* reads the articles and builds the XML while the others wait for a lock  *)
(* that belongs to the feed's key.  A lock lives as long as it has users.  *)
(*                                                                         *)
(* asyncio runs a request until it waits, for the lock or for the          *)
(* database; a request can fail or be cancelled wherever it waits.  What a *)
(* feed shows is the time its articles were read.                          *)
(***************************************************************************)
EXTENDS Naturals, Sequences, FiniteSets, SequencesExt

CONSTANTS Keys,         \* cache keys: format and filters
          Requests,     \* requests that may be in progress at once
          None,         \* no request holds a lock
          TTL,          \* FEED_CACHE_TTL_SECONDS, in ticks
          MaxSize,      \* FEED_CACHE_MAX_SIZE
          MaxTime       \* bound of the clock

ASSUME RequestsAssumption == IsFiniteSet(Requests) /\ None \notin Requests
ASSUME SizesAssumption == TTL \in Nat \ {0} /\ MaxSize \in Nat \ {0} /\ MaxTime \in Nat

VARIABLES
  clock,     \* time.monotonic()
  cache,     \* _feed_cache: key -> when it expires and what it shows
  table,     \* _feed_locks: key -> which _FeedLock
  locks,     \* the _FeedLock objects: holder, waiting requests, users
  req,       \* per request: where it is, its key, its lock, what it has read
  shown      \* history: per key, the newest content a request was given

vars == <<clock, cache, table, locks, req, shown>>

LockIds == 1 .. Cardinality(Requests)
Idle == [at |-> "idle"]
Using(r) == req[r].at # "idle"
Building(r) == req[r].at \in {"querying", "read"}

Unused == [holder |-> None, waiters |-> <<>>, users |-> 0]

-----------------------------------------------------------------------------
Init ==
  /\ clock = 0
  /\ cache = [k \in {} |-> 0]
  /\ table = [k \in {} |-> 0]
  /\ locks = [l \in LockIds |-> Unused]
  /\ req = [r \in Requests |-> Idle]
  /\ shown = [k \in Keys |-> 0]

Tick ==
  /\ clock < MaxTime
  /\ clock' = clock + 1
  /\ UNCHANGED <<cache, table, locks, req, shown>>

Without(f, keys) == [k \in DOMAIN f \ keys |-> f[k]]
With(f, key, value) == [k \in DOMAIN f \cup {key} |-> IF k = key THEN value ELSE f[k]]

\* _get_cached_feed finds it, or drops it when it has expired.
Hit(k) == k \in DOMAIN cache /\ clock < cache[k].until
Looked(k) == IF Hit(k) THEN cache ELSE Without(cache, {k})

\* A response; of a key's contents the history keeps the newest.
Respond(k, content) ==
  shown' = [shown EXCEPT ![k] = IF @ < content THEN content ELSE @]

\* The lock of the key: the one in the table, or a new one.
LockFor(k) ==
  IF k \in DOMAIN table THEN table[k]
  ELSE CHOOSE l \in LockIds : locks[l].users = 0

\* A request that finds nothing enters the lock, or waits behind others; inside
\* it looks again, finds nothing, and asks the database.
Request(r, k) ==
  /\ ~Using(r)
  /\ cache' = Looked(k)
  /\ IF Hit(k)
     THEN Respond(k, cache[k].read) /\ UNCHANGED <<table, locks, req>>
     ELSE LET l == LockFor(k)
              free == locks[l].holder = None /\ locks[l].waiters = <<>>
          IN  /\ table' = With(table, k, l)
              /\ locks' = [locks EXCEPT
                   ![l].users = @ + 1,
                   ![l].holder = IF free THEN r ELSE @,
                   ![l].waiters = IF free THEN @ ELSE Append(@, r)]
              /\ req' = [req EXCEPT
                   ![r] = [at |-> IF free THEN "querying" ELSE "waiting",
                           key |-> k, lock |-> l, read |-> 0]]
              /\ UNCHANGED shown
  /\ UNCHANGED clock

\* A request that leaves the lock is not among those that wait for it.
Others(waiters, r) == SelectSeq(waiters, LAMBDA x : x # r)

\* Broken: the lock leaves the table with its first user; or users are not
\* counted out; or the lock is not released.
LeaveForAll(r) ==
  LET l == req[r].lock IN
  /\ locks' = [locks EXCEPT
       ![l].users = @ - 1,
       ![l].holder = IF @ = r THEN None ELSE @,
       ![l].waiters = Others(@, r)]
  /\ table' = Without(table, {req[r].key})
  /\ req' = [req EXCEPT ![r] = Idle]
LeaveUncounted(r) ==
  LET l == req[r].lock IN
  /\ locks' = [locks EXCEPT
       ![l].holder = IF @ = r THEN None ELSE @,
       ![l].waiters = Others(@, r)]
  /\ req' = [req EXCEPT ![r] = Idle]
  /\ UNCHANGED table
LeaveHolding(r) ==
  LET l == req[r].lock IN
  /\ locks' = [locks EXCEPT ![l].users = @ - 1,
                            ![l].waiters = Others(@, r)]
  /\ table' = IF locks'[l].users = 0 THEN Without(table, {req[r].key}) ELSE table
  /\ req' = [req EXCEPT ![r] = Idle]

\* The end of _lock_feed, by whatever way it is left.
Leave(r) ==
  LET l == req[r].lock IN
  /\ locks' = [locks EXCEPT
       ![l].users = @ - 1,
       ![l].holder = IF @ = r THEN None ELSE @,
       ![l].waiters = Others(@, r)]
  /\ table' = IF locks'[l].users = 0 THEN Without(table, {req[r].key}) ELSE table
  /\ req' = [req EXCEPT ![r] = Idle]

\* Broken: what was built during the wait is not looked at.
EnterAnyway(r) ==
  /\ req' = [req EXCEPT ![r].at = "querying"]
  /\ locks' = [locks EXCEPT ![req[r].lock].holder = r,
                            ![req[r].lock].waiters = Tail(@)]
  /\ UNCHANGED <<cache, table, shown>>

\* Inside the lock: what another request has built meanwhile will do.
Enter(r) ==
  /\ cache' = Looked(req[r].key)
  /\ IF Hit(req[r].key)
     THEN /\ Respond(req[r].key, cache[req[r].key].read)
          /\ Leave(r)
     ELSE /\ req' = [req EXCEPT ![r].at = "querying"]
          /\ locks' = [locks EXCEPT ![req[r].lock].holder = r,
                                    ![req[r].lock].waiters = Tail(@)]
          /\ UNCHANGED <<table, shown>>

\* The first waiter of a free lock runs.
Wake(r) ==
  /\ req[r].at = "waiting"
  /\ locks[req[r].lock].holder = None /\ Head(locks[req[r].lock].waiters) = r
  /\ Enter(r)
  /\ UNCHANGED clock

\* list_feed_articles
Read(r) ==
  /\ req[r].at = "querying"
  /\ req' = [req EXCEPT ![r].at = "read", ![r].read = clock]
  /\ UNCHANGED <<clock, cache, table, locks, shown>>

\* _prune_feed_cache: the expired ones go, then those that expire first.
Expired == {k \in DOMAIN cache : cache[k].until <= clock}
Soonest(S, n) == {T \in SUBSET S :
  /\ Cardinality(T) = n
  /\ \A k \in T, other \in S \ T : cache[k].until <= cache[other].until}

Pruned(victims) ==
  LET left == DOMAIN cache \ Expired IN
  victims \in Soonest(left, IF Cardinality(left) >= MaxSize
                            THEN Cardinality(left) - MaxSize + 1 ELSE 0)

\* The XML is built, cached and sent.
Finish(r) ==
  /\ req[r].at = "read"
  /\ \E victims \in SUBSET DOMAIN cache :
       /\ Pruned(victims)
       /\ cache' = With(Without(cache, Expired \cup victims), req[r].key,
                        [until |-> clock + TTL, read |-> req[r].read])
  /\ Respond(req[r].key, req[r].read)
  /\ Leave(r)
  /\ UNCHANGED clock

\* The database fails, or the request is cancelled, where it waits.
Break(r) ==
  /\ Using(r)
  /\ Leave(r)
  /\ UNCHANGED <<clock, cache, shown>>

Step(r) == Wake(r) \/ Read(r) \/ Finish(r)

Next ==
  \/ Tick
  \/ \E r \in Requests :
       Step(r) \/ Break(r) \/ \E k \in Keys : Request(r, k)

\* The event loop runs woken requests, and the database answers.
Spec == Init /\ [][Next]_vars /\ \A r \in Requests : WF_vars(Step(r))

-----------------------------------------------------------------------------
(* Properties *)

\* Shape of the state; the cache keeps within FEED_CACHE_MAX_SIZE, and a lock
\* counts exactly the requests that refer to it.
TypeOK ==
  /\ clock \in 0 .. MaxTime
  /\ DOMAIN cache \subseteq Keys /\ Cardinality(DOMAIN cache) <= MaxSize
  /\ DOMAIN table \subseteq Keys
  /\ \A k \in DOMAIN table : table[k] \in LockIds
  /\ \A r \in Requests : req[r].at \in {"idle", "waiting", "querying", "read"}
  /\ \A l \in LockIds :
       /\ locks[l].users = Cardinality({r \in Requests : Using(r) /\ req[r].lock = l})
       /\ locks[l].holder # None => Building(locks[l].holder)

\* At most one request builds a feed at a time, also when locks come and go with
\* failing and cancelled requests; and none builds a feed the cache has, however
\* long it waited for others that built it (_lock_feed, _get_feed).
SingleFlight ==
  \A r \in Requests : Building(r) =>
    /\ req[r].key \notin DOMAIN cache
    /\ \A s \in Requests \ {r} : Building(s) => req[s].key # req[r].key

\* The table of locks has just the keys that are in use: it does not grow.
LocksInUse ==
  TypeOK /\ DOMAIN table = {req[r].key : r \in {s \in Requests : Using(s)}}

\* What is cached for a key is never older than what a request was given
\* before: readers of a feed do not go back in time.
NeverOlder == \A k \in DOMAIN cache : shown[k] <= cache[k].read

\* Every request ends, whatever happens to those before it.
Answers == \A r \in Requests : req[r].at = "waiting" ~> ~Using(r)
=============================================================================
