------------------------------ MODULE HttpPool ------------------------------
(***************************************************************************)
(* The curl-cffi sessions behind a crawler: those of CurlCffiClient, which *)
(* all crawlers share, and those ArcaLiveCrawlerV15 keeps for itself by    *)
(* the same scheme.  A request that fails or is cancelled may have cost    *)
(* the session a slot of its pool, so the session is retired: requests     *)
(* that use it go on, the next request makes a new one, and whoever uses   *)
(* the retired one last closes it.  close() leaves sessions in use to      *)
(* their last user as well.                                                *)
(***************************************************************************)
EXTENDS Naturals, FiniteSets, FiniteSetsExt

CONSTANT Requests     \* requests that may be in progress at once

ASSUME RequestsAssumption == IsFiniteSet(Requests)

\* Names of sessions.  A closed session's name is given again to a new one;
\* no more sessions are open than the current one and one for each request.
Sessions == 1 .. Cardinality(Requests) + 1

VARIABLES
  client,    \* "own"; "injected", the caller passed a session; or "v15"
  current,   \* self._session, self._curl_session; 0 for None
  users,     \* self._session_users; 0 for no entry
  closed,    \* close() was called, or an injected session was lost
  made,      \* the sessions there have been
  closes,    \* per session: the calls of its close(), each made in the step
             \* that decides on it; nothing here waits for its end
  using,     \* per request: the session it awaits; 0 for none
  late       \* history: the sessions made after close()

poolVars == <<client, current, users, closed, made, closes, using, late>>

Users(s) == {r \in Requests : using[r] = s}
\* Names a new session can get.
Free == {s \in Sessions : s \notin made \/ closes[s] = 1}

-----------------------------------------------------------------------------
PoolInit ==
  /\ client \in {"own", "injected", "v15"}
  /\ made = IF client = "injected" THEN {1} ELSE {}
  /\ current = IF client = "injected" THEN 1 ELSE 0
  /\ users = [s \in Sessions |-> 0]
  /\ closed = FALSE
  /\ closes = [s \in Sessions |-> 0]
  /\ using = [r \in Requests |-> 0]
  /\ late = {}

\* Only CurlCffiClient remembers that it was closed.
Refuses == closed /\ client # "v15"

Make(s) ==
  /\ made' = made \cup {s}
  /\ closes' = [closes EXCEPT ![s] = 0]
  /\ late' = IF closed THEN late \cup {s} ELSE late \ {s}

\* The request up to the await: the session is made when there is none.
Get(r) ==
  /\ ~Refuses /\ using[r] = 0
  /\ \E s \in Sessions :
       /\ IF current = 0 THEN s \in Free /\ (\A free \in Free : s <= free) /\ Make(s)
          ELSE s = current /\ UNCHANGED <<made, closes, late>>
       /\ current' = s
       /\ users' = [users EXCEPT ![s] = @ + 1]
       /\ using' = [using EXCEPT ![r] = s]
  /\ UNCHANGED <<client, closed>>

\* Broken: a retired session is closed by nobody.
DepartLeaving(r) ==
  /\ using' = [using EXCEPT ![r] = 0]
  /\ users' = [users EXCEPT ![using[r]] = @ - 1]
  /\ UNCHANGED closes

\* The `finally` of the request, with the session current at that moment.
Depart(r) ==
  LET s == using[r] IN
  /\ using' = [using EXCEPT ![r] = 0]
  /\ users' = [users EXCEPT ![s] = @ - 1]
  /\ closes' = IF users[s] = 1 /\ s # current' THEN [closes EXCEPT ![s] = @ + 1]
               ELSE closes

Succeed(r) ==
  /\ using[r] # 0
  /\ UNCHANGED current
  /\ Depart(r)
  /\ UNCHANGED <<client, closed, made, late>>

\* An error, a timeout or a cancellation retires the session if it is still
\* the current one; without an injected session the client cannot go on.
Fail(r) ==
  /\ using[r] # 0
  /\ current' = IF current = using[r] THEN 0 ELSE current
  /\ closed' = (closed \/ client = "injected")
  /\ Depart(r)
  /\ UNCHANGED <<client, made, late>>

\* Broken: close() does not look at who uses the session.
CloseAtOnce ==
  /\ ~Refuses
  /\ closed' = TRUE
  /\ current' = 0
  /\ closes' = IF current # 0 THEN [closes EXCEPT ![current] = @ + 1] ELSE closes
  /\ late' = {}
  /\ UNCHANGED <<client, users, made, using>>

\* close() of a closed CurlCffiClient returns at once.
Close ==
  /\ ~Refuses
  /\ closed' = TRUE
  /\ current' = 0
  /\ closes' = IF current # 0 /\ users[current] = 0
               THEN [closes EXCEPT ![current] = @ + 1] ELSE closes
  /\ late' = {}
  /\ UNCHANGED <<client, users, made, using>>

End(r) == Succeed(r) \/ Fail(r)

-----------------------------------------------------------------------------
(* Properties *)

\* Shape of the state; the table counts the requests that await a session.
PoolTypeOK ==
  /\ client \in {"own", "injected", "v15"}
  /\ made \subseteq Sessions /\ late \subseteq made
  /\ current \in made \cup {0}
  /\ closed \in BOOLEAN
  /\ closes \in [Sessions -> Nat]
  /\ using \in [Requests -> made \cup {0}]
  /\ users \in [Sessions -> Nat]
  /\ \A s \in Sessions : users[s] = Cardinality(Users(s))

\* A session that is neither current nor in use has been closed once, and no
\* other has been: however failures of other requests, new sessions and close()
\* interleave, none is closed under a request, none leaks, and none is closed
\* twice.
ClosedWhenUnused ==
  /\ PoolTypeOK
  /\ \A s \in made : closes[s] = IF s # current /\ Users(s) = {} THEN 1 ELSE 0

\* After close(), every session is closed in the end; only those a V15 crawler
\* makes for requests that go on after close() can stay open.
ClosedInTheEnd == 
  closed ~> \A s \in made : closes[s] = 1 \/ (client = "v15" /\ s \in late)
=============================================================================
