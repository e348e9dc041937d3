--------------------------- MODULE RequestPolicy ----------------------------
(***************************************************************************)
(* How one crawler asks a site for its pages: BaseCrawler.request.  The    *)
(* requests of a cycle run concurrently; with a fallback proxy those of    *)
(* one origin share a lock, and a site that blocks direct access is asked  *)
(* through the proxy for a while; a URL that answered 429, or another      *)
(* status of RESPONSE_BACKOFF_STATUS_CODES, is left alone until later.     *)
(***************************************************************************)
EXTENDS Naturals, Sequences

CONSTANTS Callers,      \* requests that may be in progress at once
          Urls, Origins,
          OriginOf,     \* scheme, host and port of a URL
          Settings,     \* crawlers to look at, see below
          Attempts,     \* TRANSPORT_ATTEMPTS
          Minute,       \* the delay of a 429 when Delays is empty
          Cooldown,     \* PROXY_COOLDOWN_SECONDS
          RetryAfters,  \* what a Retry-After header may ask for; 0 for none
          Nobody,       \* nobody holds a lock
          MaxTime       \* bound of the clock

ASSUME SettingsAssumption ==
  \A s \in Settings :
    /\ s.mode \in {"fallback", "set"}
    /\ s.url \in [Callers -> Urls]
    /\ s.codes \subseteq {"blocked", "busy", "error"}
    /\ s.delays \in Seq(Nat) /\ \A k \in DOMAIN s.delays : s.delays[k] >= Minute
    /\ s.codes # {} <=> s.delays # <<>>
    /\ s.codes # {} => "busy" \in s.codes
ASSUME OriginAssumption == OriginOf \in [Urls -> Origins] /\ Nobody \notin Callers
ASSUME TimesAssumption ==
  /\ Attempts \in Nat \ {0} /\ Minute \in Nat \ {0} /\ Cooldown \in Nat \ {0}
  /\ 0 \in RetryAfters /\ RetryAfters \subseteq Nat /\ MaxTime \in Nat

VARIABLES
  setting,     \* the crawler's class and configuration; never changes
  clock,       \* time.monotonic()
  until,       \* _response_backoff_until; 0 for no entry
  failures,    \* _response_backoff_failures; 0 for no entry
  proxyUntil,  \* _proxy_until; 0 for no entry
  lock,        \* the locks of the origins, or of the URLs
  call,        \* per caller: where it is, and what the direct request returned
  last,        \* history: per URL, the last answer, "none" after a cancellation
  calm         \* history: per URL, the time a 429 asks to wait for

vars == <<setting, clock, until, failures, proxyUntil, lock, call, last, calm>>

\* "fallback"; or "set": no proxy, or proxy_mode: always.
Mode == setting.mode
\* RESPONSE_BACKOFF_STATUS_CODES and RESPONSE_BACKOFF_DELAYS_SECONDS
Codes == setting.codes
Delays == setting.delays

\* "ok"; "garbled": 200 that cannot be decoded; "blocked": 403, or 200 with a
\* challenge; "busy": 429; "error": any other status.
Statuses == {"ok", "garbled", "blocked", "busy", "error"}
\* Retry-After is read from an answer that is no page.
Answer == [status : Statuses \ {"ok", "garbled"}, retry : RetryAfters]
            \cup [status : {"ok", "garbled"}, retry : {0}]
Replies == {<<>>} \cup {<<a>> : a \in Answer}      \* <<>>: no connection

Idle == [at |-> "idle"]
Waiting(l) == [at |-> "waiting", lock |-> l]
Asking(c) == call[c].at = "asking"
Url(c) == setting.url[c]
Origin(c) == OriginOf[Url(c)]

Larger(a, b) == IF a < b THEN b ELSE a

-----------------------------------------------------------------------------
Init ==
  /\ setting \in Settings
  /\ clock = 0
  /\ until = [u \in Urls |-> 0] /\ failures = [u \in Urls |-> 0]
  /\ proxyUntil = [o \in Origins |-> 0]
  /\ lock = [l \in Origins \cup Urls |-> [holder |-> Nobody, waiters |-> <<>>]]
  /\ call = [c \in Callers |-> Idle]
  /\ last = [u \in Urls |-> "none"] /\ calm = [u \in Urls |-> 0]

Tick ==
  /\ clock < MaxTime
  /\ clock' = clock + 1
  /\ UNCHANGED <<setting, until, failures, proxyUntil, lock, call, last, calm>>

\* Broken: one lock per URL with a fallback proxy too.
LockPerUrl(c) == {Url(c)}

\* The lock a request takes, if any.
LockOf(c) ==
  IF Mode = "fallback" THEN {Origin(c)}
  ELSE IF Codes # {} \/ until[Url(c)] # 0 THEN {Url(c)} ELSE {}

\* A first request: direct unless the proxy's time runs, or as configured.
\* `answer` keeps what the direct request returned once the proxy is tried.
Ask(route, left, answer) ==
  [at |-> "asking", route |-> route, left |-> left, answer |-> answer]

First(c) ==
  IF Mode = "set" THEN Ask("set", Attempts, <<>>)
  ELSE IF proxyUntil[Origin(c)] > clock THEN Ask("proxy", 1, <<>>)
  ELSE Ask("direct", 2, <<>>)

Resting(c) == until[Url(c)] > clock

\* request(): it runs until it waits for its lock or for an answer; a URL
\* whose backoff runs is not asked.
Request(c) ==
  /\ call[c] = Idle
  /\ \A l \in LockOf(c) : lock[l].holder = Nobody /\ lock[l].waiters = <<>>
  /\ ~Resting(c)
  /\ call' = [call EXCEPT ![c] = First(c)]
  /\ lock' = [l \in DOMAIN lock |->
                IF l \in LockOf(c) THEN [lock[l] EXCEPT !.holder = c] ELSE lock[l]]
  /\ UNCHANGED <<setting, clock, until, failures, proxyUntil, last, calm>>

Wait(c) ==
  /\ call[c] = Idle
  /\ \E l \in LockOf(c) :
       /\ lock[l].holder # Nobody \/ lock[l].waiters # <<>>
       /\ lock' = [lock EXCEPT ![l].waiters = Append(@, c)]
       /\ call' = [call EXCEPT ![c] = Waiting(l)]
  /\ UNCHANGED <<setting, clock, until, failures, proxyUntil, last, calm>>

\* Broken: an exception leaves the lock locked.
LeaveHolding(c) ==
  /\ call' = [call EXCEPT ![c] = Idle]
  /\ lock' = [l \in DOMAIN lock |->
       [lock[l] EXCEPT !.waiters = SelectSeq(@, LAMBDA d : d # c)]]

\* The end of request(), by whatever way.
Leave(c) ==
  /\ call' = [call EXCEPT ![c] = Idle]
  /\ lock' = [l \in DOMAIN lock |->
       [holder |-> IF lock[l].holder = c THEN Nobody ELSE lock[l].holder,
        waiters |-> SelectSeq(lock[l].waiters, LAMBDA d : d # c)]]

\* The first waiter of a released lock looks at the backoff and the proxy now.
Wake(c) ==
  /\ call[c].at = "waiting"
  /\ LET l == call[c].lock IN
       /\ lock[l].holder = Nobody
       /\ lock[l].waiters # <<>> /\ Head(lock[l].waiters) = c
       /\ IF Resting(c) THEN Leave(c)
          ELSE /\ call' = [call EXCEPT ![c] = First(c)]
               /\ lock' = [lock EXCEPT ![l] = [holder |-> c, waiters |-> Tail(@.waiters)]]
  /\ UNCHANGED <<setting, clock, until, failures, proxyUntil, last, calm>>

-----------------------------------------------------------------------------
(* An answer *)

\* Broken: 429 goes to the proxy as well.
SwitchesOnBusy(c, reply) ==
  /\ call[c].route = "direct"
  /\ reply # <<>> => reply[1].status \in {"blocked", "busy"}

\* A direct request that is blocked or never connects goes to the proxy.
Switches(c, reply) ==
  call[c].route = "direct" /\ (reply # <<>> => reply[1].status = "blocked")

\* Broken: a failed proxy connection hides what the direct request returned.
FinalReply(c, reply) == reply

Final(c, reply) == IF reply = <<>> THEN call[c].answer ELSE reply

\* The delays _schedule_response_backoff uses; none for other statuses.
DelaysFor(status) ==
  IF status = "busy" /\ Delays = <<>> THEN <<Minute>>
  ELSE IF status \in Codes THEN Delays ELSE <<>>

Schedule(u, answer) ==
  LET delays == DelaysFor(answer.status)
      k == failures[u] + 1
      delay == delays[IF k < Len(delays) THEN k ELSE Len(delays)]
  IN  IF delays = <<>> THEN UNCHANGED <<until, failures>>
      ELSE /\ failures' = [failures EXCEPT ![u] = k]
           /\ until' = [until EXCEPT ![u] = clock + Larger(delay, answer.retry)]

Clear(u) ==
  /\ until' = [until EXCEPT ![u] = 0]
  /\ failures' = [failures EXCEPT ![u] = 0]

\* A page came: the proxy is kept for a while, or direct access is back.
NoteRoute(c) ==
  proxyUntil' = [proxyUntil EXCEPT ![Origin(c)] =
    IF call[c].route = "switched" THEN clock + Cooldown
    ELSE IF call[c].route = "direct" THEN 0 ELSE @]

\* What the end of _request_with_backoff does with the answer it settles for.
Conclude(c, reply) ==
  LET u == Url(c) IN
  IF reply = <<>> THEN UNCHANGED <<until, failures, proxyUntil>>
  ELSE CASE reply[1].status = "ok" -> Clear(u) /\ NoteRoute(c)
         [] reply[1].status = "garbled" -> Clear(u) /\ UNCHANGED proxyUntil
         [] OTHER -> Schedule(u, reply[1]) /\ UNCHANGED proxyUntil

\* An attempt ends; it is repeated, or the proxy is tried, or that was it.
Reply(c, reply) ==
  /\ Asking(c)
  /\ IF reply = <<>> /\ call[c].left > 1
     THEN call' = [call EXCEPT ![c].left = @ - 1]
          /\ UNCHANGED <<until, failures, proxyUntil, lock>>
     ELSE IF Switches(c, reply)
     THEN call' = [call EXCEPT ![c] = Ask("switched", 1, reply)]
          /\ UNCHANGED <<until, failures, proxyUntil, lock>>
     ELSE Conclude(c, Final(c, reply)) /\ Leave(c)
  /\ IF reply = <<>> THEN UNCHANGED <<last, calm>>
     ELSE /\ last' = [last EXCEPT ![Url(c)] = reply[1].status]
          /\ calm' = IF reply[1].status = "busy"
                     THEN [calm EXCEPT ![Url(c)] = clock + Larger(Minute, reply[1].retry)]
                     ELSE calm
  /\ UNCHANGED <<setting, clock>>

\* The request is cancelled where it waits.
Cancel(c) ==
  /\ call[c] # Idle
  /\ last' = IF Asking(c) THEN [last EXCEPT ![Url(c)] = "none"] ELSE last
  /\ Leave(c)
  /\ UNCHANGED <<setting, clock, until, failures, proxyUntil, calm>>

Step(c) == Wake(c) \/ \E reply \in Replies : Reply(c, reply)

Next == Tick \/ \E c \in Callers : Request(c) \/ Wait(c) \/ Step(c) \/ Cancel(c)

\* The event loop wakes waiters; every attempt has a timeout.
Spec == Init /\ [][Next]_vars /\ \A c \in Callers : WF_vars(Step(c))

-----------------------------------------------------------------------------
(* Properties *)

\* Shape of the state; a URL's backoff and its failure count come and go
\* together, and a lock is held by a request that is under way.
TypeOK ==
  /\ setting \in Settings /\ clock \in 0 .. MaxTime
  /\ until \in [Urls -> Nat] /\ failures \in [Urls -> Nat]
  /\ \A u \in Urls : until[u] = 0 <=> failures[u] = 0
  /\ proxyUntil \in [Origins -> Nat]
  /\ \A l \in DOMAIN lock : lock[l].holder = Nobody \/ Asking(lock[l].holder)

Starts(c) == call'[c].at = "asking" /\ call'[c] # call[c]

\* After a 429 the URL is not asked again before a minute, or the longer time
\* its Retry-After asks for, is over: not by a retry, not through the proxy,
\* and not by a request that was already waiting.
QuietAfterBusy == [][\A c \in Callers : Starts(c) => clock >= calm[Url(c)]]_vars

\* While the proxy's time runs, no request to the origin starts directly, also
\* when it had been waiting since before, or is the second attempt of one.
NoDirectInWindow ==
  [][\A c \in Callers :
       Starts(c) /\ call'[c].route = "direct" => clock >= proxyUntil[Origin(c)]]_vars

\* When a URL is not being asked, its last answer decides: a blocked or busy
\* one has left a backoff, also when the proxy could not be reached after it,
\* and a page has cleared it.
BackoffFollowsAnswers ==
  TypeOK /\ \A u \in Urls :
    (\A c \in Callers : Asking(c) => Url(c) # u) =>
      /\ last[u] \in Codes \cup {"busy"} => until[u] # 0
      /\ last[u] \in {"ok", "garbled"} => until[u] = 0

\* Every request ends, whatever happens to the one that holds its lock.
Ends == \A c \in Callers : call[c].at = "waiting" ~> call[c] = Idle
=============================================================================
