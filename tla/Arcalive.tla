------------------------------ MODULE Arcalive ------------------------------
(***************************************************************************)
(* One get() of an Arcalive crawler over its HTTP sessions: a task per URL *)
(* asks for the list, and the app API crawler (V2) then looks up the name  *)
(* of the list's channel, which it asks for at most once: a lock for each  *)
(* channel is held while the name is fetched.  Behind a fallback proxy     *)
(* every single request also holds the lock of the site.  V15 reads lists  *)
(* only.  get() may be cancelled, the sessions closed, at any moment.      *)
(***************************************************************************)
EXTENDS HttpPool, Sequences, SequencesExt

CONSTANTS Slugs,     \* channels; Requests are positions in url_list
          SlugOf,    \* the channel of a URL
          Origin,    \* names the site's lock among those of the channels
          Contents   \* per URL: the sets of posts its list may show

ASSUME UrlsAssumption == Requests \subseteq Nat /\ Requests # {}
ASSUME ContentsAssumption == \A u \in Requests : {} \in Contents[u]
ASSUME SlugsAssumption == SlugOf \in [Requests -> Slugs] /\ Origin \notin Slugs

VARIABLES
  gated,      \* a fallback proxy is set: requests share the site's lock
  at,         \* per URL: where its task is
  left,       \* per URL: attempts left for the request under way
  line,       \* asyncio.Locks: first the holder, then those that wait
  named,      \* self._channels
  listed,     \* per URL: payload["articles"]; {} when unusable as well
  reply,      \* per URL: the posts request() and parsing() give; {} if none
  cancelled   \* get() is being cancelled

taskVars == <<gated, at, left, line, named, listed, reply, cancelled>>
vars == <<poolVars, taskVars>>

Locks == Slugs \cup {Origin}
Nothing == [u \in Requests |-> {}]
First(u, l) == line[l] # <<>> /\ Head(line[l]) = u
Asking(u) == at[u] \in {"list", "info"}

\* Attempts of one request: directly twice and by the proxy once, or by the
\* proxy alone while its time runs; or TRANSPORT_ATTEMPTS.
Attempts == IF gated THEN {1, 3} ELSE IF client = "v15" THEN {1} ELSE {2}

-----------------------------------------------------------------------------
Init ==
  /\ PoolInit
  /\ gated \in BOOLEAN
  /\ at = [u \in Requests |-> "idle"]
  /\ left = [u \in Requests |-> 0]
  /\ line = [l \in Locks |-> <<>>]
  /\ named = {}
  /\ listed = Nothing /\ reply = Nothing
  /\ cancelled = FALSE

\* The order of url_list, in which asyncio.gather runs the tasks.
InOrder(urls) == \A i, j \in DOMAIN urls : i < j => urls[i] < urls[j]

Start ==
  /\ \A u \in Requests : at[u] = "idle"
  /\ at' = [u \in Requests |-> "list"]
  /\ left' \in [Requests -> Attempts]
  /\ \E urls \in SetToSeqs(Requests) :
       /\ InOrder(urls)
       /\ line' = IF gated THEN [line EXCEPT ![Origin] = urls] ELSE line
  /\ UNCHANGED <<poolVars, gated, named, listed, reply, cancelled>>

\* An attempt starts, in the site's lock if there is one.
Send(u) ==
  /\ Asking(u) /\ (gated => First(u, Origin))
  /\ Get(u)
  /\ UNCHANGED taskVars

\* A task is in a line at most once; it releases the lock or waits no longer.
Without(u, locks) ==
  [l \in Locks |-> IF l \in locks /\ Contains(line[l], u)
                   THEN RemoveAt(line[l], CHOOSE i \in DOMAIN line[l] : line[l][i] = u)
                   ELSE line[l]]

\* Broken: a request for a name that fails leaves the channel locked.
FinishHolding(u) ==
  /\ at' = [at EXCEPT ![u] = "done"]
  /\ left' = [left EXCEPT ![u] = 0]
  /\ line' = IF SlugOf[u] \in named' THEN Without(u, Locks) ELSE Without(u, {Origin})
  /\ reply' = [reply EXCEPT ![u] = listed[u]]

\* The end of a task with what its list showed, named or not.
Finish(u) ==
  /\ at' = [at EXCEPT ![u] = "done"]
  /\ left' = [left EXCEPT ![u] = 0]
  /\ line' = Without(u, Locks)
  /\ reply' = [reply EXCEPT ![u] = listed[u]]

\* request() of BaseCrawler returns None.
GiveUp(u) == UNCHANGED <<named, listed>> /\ Finish(u)

\* An attempt ends without a response and is repeated while attempts are left.
NoResponse(u) ==
  /\ Asking(u) /\ Fail(u)
  /\ IF left[u] > 1
     THEN /\ left' = [left EXCEPT ![u] = @ - 1]
          /\ UNCHANGED <<at, line, named, listed, reply>>
     ELSE GiveUp(u)
  /\ UNCHANGED <<gated, cancelled>>

\* Nothing is sent: the client was closed and raises on every attempt, or the
\* URL's backoff after an error status runs as its request begins.
Unsent(u) ==
  /\ Asking(u) /\ (gated => First(u, Origin))
  /\ using[u] = 0 /\ (Refuses \/ left[u] \in Attempts)
  /\ GiveUp(u)
  /\ UNCHANGED <<poolVars, gated, cancelled>>

\* A response without a usable body: the proxy is asked, or that was it.
NoBody(u) ==
  /\ Asking(u) /\ Succeed(u)
  /\ \/ /\ gated /\ left[u] > 1
        /\ left' = [left EXCEPT ![u] = 1]
        /\ UNCHANGED <<at, line, named, listed, reply>>
     \/ GiveUp(u)
  /\ UNCHANGED <<gated, cancelled>>

\* The list arrives.  V2 goes on to the lock of the channel.
List(u) ==
  /\ at[u] = "list" /\ Succeed(u)
  /\ \E ids \in Contents[u] :
       /\ listed' = [listed EXCEPT ![u] = ids]
       /\ IF client = "v15"
          THEN /\ reply' = [reply EXCEPT ![u] = ids]
               /\ at' = [at EXCEPT ![u] = "done"]
               /\ line' = Without(u, {Origin})
          ELSE /\ at' = [at EXCEPT ![u] = "channel"]
               /\ line' = [Without(u, {Origin}) EXCEPT ![SlugOf[u]] = Append(@, u)]
               /\ UNCHANGED reply
  /\ left' = [left EXCEPT ![u] = 0]
  /\ UNCHANGED <<gated, named, cancelled>>

Describe(u) ==
  /\ at' = [at EXCEPT ![u] = "info"]
  /\ \E k \in Attempts : left' = [left EXCEPT ![u] = k]
  /\ line' = IF gated THEN [line EXCEPT ![Origin] = Append(@, u)] ELSE line
  /\ UNCHANGED reply

\* Broken: what was fetched during the wait for the lock is not looked at.
EnterAnyway(u) ==
  /\ at[u] = "channel" /\ First(u, SlugOf[u])
  /\ Describe(u)
  /\ UNCHANGED <<poolVars, gated, named, listed, cancelled>>

\* _channel() in its lock: a known name will do, another is asked for.
Enter(u) ==
  /\ at[u] = "channel" /\ First(u, SlugOf[u])
  /\ UNCHANGED <<poolVars, gated, named, listed, cancelled>>
  /\ IF SlugOf[u] \in named THEN Finish(u) ELSE Describe(u)

\* The channel's metadata arrives and can be read.
Name(u) ==
  /\ at[u] = "info" /\ Succeed(u)
  /\ named' = named \cup {SlugOf[u]}
  /\ Finish(u)
  /\ UNCHANGED <<gated, listed, cancelled>>

-----------------------------------------------------------------------------
(* The end of get() *)

Busy == {u \in Requests : at[u] \notin {"idle", "done"}}

Cancel ==
  /\ Busy # {} /\ ~cancelled
  /\ cancelled' = TRUE
  /\ UNCHANGED <<poolVars, gated, at, left, line, named, listed, reply>>

\* CancelledError where the task waits, for one task after the other in the
\* order of url_list: its locks are released.
Abort(u) ==
  /\ cancelled /\ Busy # {} /\ u = Min(Busy)
  /\ IF using[u] = 0 THEN UNCHANGED poolVars ELSE Fail(u)
  /\ at' = [at EXCEPT ![u] = "done"]
  /\ left' = [left EXCEPT ![u] = 0]
  /\ line' = Without(u, Locks)
  /\ UNCHANGED <<gated, named, listed, reply, cancelled>>

\* The lists of two channels never show the same post.
Conflict == \E u, v \in Requests : SlugOf[u] # SlugOf[v] /\ reply[u] \cap reply[v] # {}

\* Broken: an empty list is skipped like by the other crawlers.
SnapshotOfAny == IF client # "v15" /\ Conflict THEN {} ELSE UNION {reply[u] : u \in Requests}

\* What get() makes of the lists: V2 needs them all, V15 merges.
Snapshot ==
  IF client # "v15" /\ (Conflict \/ \E u \in Requests : reply[u] = {})
  THEN {} ELSE UNION {reply[u] : u \in Requests}

Return ==
  /\ \A u \in Requests : at[u] = "done"
  /\ at' = [u \in Requests |-> "idle"]
  /\ listed' = Nothing /\ reply' = Nothing
  /\ cancelled' = FALSE
  /\ UNCHANGED <<poolVars, gated, left, line, named>>

Step(u) ==
  \/ ~cancelled /\ (Send(u) \/ NoResponse(u) \/ Unsent(u) \/ NoBody(u)
                      \/ List(u) \/ Enter(u) \/ Name(u))
  \/ Abort(u)

Progress == Return \/ \E u \in Requests : Step(u)

Next ==
  \/ Start \/ Cancel \/ Progress
  \/ Close /\ UNCHANGED taskVars

\* Every attempt has a timeout, and the event loop runs what can run; a get()
\* has so few steps that more need not be asked.
Spec == Init /\ [][Next]_vars /\ WF_vars(Progress)

-----------------------------------------------------------------------------
(* Properties *)

\* Shape of the state; who asks for the name of a channel holds its lock.
TypeOK ==
  /\ PoolTypeOK
  /\ gated \in BOOLEAN /\ cancelled \in BOOLEAN
  /\ at \in [Requests -> {"idle", "list", "channel", "info", "done"}]
  /\ left \in [Requests -> 0 .. 3]
  /\ line \in [Locks -> Seq(Requests)]
  /\ named \subseteq Slugs
  /\ \A u \in Requests : listed[u] \in Contents[u] /\ reply[u] \in {{}, listed[u]}
  /\ \A u \in Requests : using[u] # 0 => Asking(u) /\ (gated => First(u, Origin))
  /\ \A u \in Requests : at[u] = "info" => First(u, SlugOf[u])

\* The posts of a get() of V2 are those of all its lists or none: one list that
\* failed would make its posts look removed.  A name that could not be fetched
\* costs nothing, however the tasks wait for each other.
WholeOrNothing ==
  TypeOK /\ ((client # "v15" /\ ~cancelled /\ \A u \in Requests : at[u] = "done") =>
    \/ Snapshot = {} /\ \E u \in Requests :
         listed[u] = {} \/ \E v \in Requests :
                             SlugOf[v] # SlugOf[u] /\ listed[v] \cap listed[u] # {}
    \/ Snapshot # {} /\ \A u \in Requests : listed[u] # {} /\ listed[u] \subseteq Snapshot)

\* A request for the metadata of a channel starts only while its name is not
\* known and nobody else asks for it, however many lists the channel has.
AskedOnce ==
  [][\A u \in Requests : at[u] = "info" /\ using[u] = 0 /\ using'[u] # 0 =>
       /\ SlugOf[u] \notin named
       /\ \A v \in Requests \ {u} : SlugOf[v] = SlugOf[u] => at[v] # "info"]_vars

\* Every get() ends, with the channel's lock around the site's lock, whoever
\* fails, is cancelled or loses its session inside them.
EndsAlways == (\E u \in Requests : at[u] # "idle") ~> (\A u \in Requests : at[u] = "idle")
=============================================================================
