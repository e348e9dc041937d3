------------------------ MODULE RequestPolicyProofs -------------------------
(***************************************************************************)
(* Proofs about RequestPolicy, for any URLs, crawlers and times.           *)
(***************************************************************************)
EXTENDS RequestPolicy, TLAPS

-----------------------------------------------------------------------------
(* The inductive invariant. *)

Routes == {"set", "proxy", "direct", "switched"}

CallShape ==
  call \in [Callers ->
    {Idle} \cup [at : {"waiting"}, lock : Origins \cup Urls]
      \cup [at : {"asking"}, route : Routes, left : Nat, answer : Replies]]

LockShape ==
  /\ DOMAIN lock = Origins \cup Urls
  /\ \A l \in DOMAIN lock :
       /\ lock[l] = [holder |-> lock[l].holder, waiters |-> lock[l].waiters]
       /\ lock[l].holder \in Callers \cup {Nobody}

HistoryShape == last \in [Urls -> Statuses \cup {"none"}] /\ calm \in [Urls -> Nat]

Shape == TypeOK /\ CallShape /\ LockShape /\ HistoryShape

\* What the lock of a request stands for, when its class makes it take one.
Key(c) == IF Mode = "fallback" THEN Origin(c) ELSE Url(c)
Locked == Mode = "fallback" \/ Codes # {}

Held ==
  Locked =>
    \A c \in Callers :
      /\ Asking(c) => lock[Key(c)].holder = c
      /\ call[c].at = "waiting" => call[c].lock = Key(c)

\* A second route is only taken behind a fallback proxy, a first answer is kept
\* only after a block, and a direct request is never one the proxy should make.
RouteInv ==
  \A c \in Callers : Asking(c) =>
    /\ call[c].route = "set" <=> Mode = "set"
    /\ call[c].answer # <<>> =>
         /\ call[c].route = "switched"
         /\ call[c].answer[1].status = "blocked" /\ last[Url(c)] = "blocked"
    /\ call[c].route = "direct" => proxyUntil[Origin(c)] <= clock

\* The last answer decides, or the proxy is being tried after it.
Settled(u) ==
  /\ last[u] \in Codes \cup {"busy"} => until[u] # 0
  /\ last[u] \in {"ok", "garbled"} => until[u] = 0
Trying(u) == \E c \in Callers : Asking(c) /\ Url(c) = u /\ call[c].answer # <<>>
BackoffInv == \A u \in Urls : Settled(u) \/ Trying(u)

\* Requests for a URL come one at a time: because of the lock, or because the
\* crawler asks for each URL once.
ApartIn(s) ==
  \/ s.mode = "fallback" \/ s.codes # {}
  \/ \A c, d \in Callers : s.url[c] = s.url[d] => c = d
Apart == ApartIn(setting)

\* The time a 429 asks for is over, or a backoff lasts at least as long; and it
\* is over for whoever asks.
CalmInv ==
  Apart =>
    /\ \A u \in Urls : calm[u] <= clock \/ calm[u] <= until[u]
    /\ \A c \in Callers : Asking(c) => calm[Url(c)] <= clock

PolicyInv == Shape /\ Held /\ RouteInv /\ BackoffInv /\ CalmInv

-----------------------------------------------------------------------------
(* Requests and answers. *)

LEMMA Places ==
  ASSUME TypeOK, NEW c \in Callers
  PROVE  /\ Mode \in {"fallback", "set"} /\ Url(c) \in Urls /\ Origin(c) \in Origins
         /\ Key(c) \in Origins \cup Urls /\ LockOf(c) \subseteq Origins \cup Urls
         /\ Locked => LockOf(c) = {Key(c)}
<1>1. Mode \in {"fallback", "set"} /\ Url(c) \in Urls /\ Origin(c) \in Origins
  BY SettingsAssumption, OriginAssumption DEF TypeOK, Mode, Url, Origin
<1> QED
  BY <1>1 DEF Key, Locked, LockOf

LEMMA AskersDiffer ==
  ASSUME TypeOK, Held, Locked, NEW c \in Callers, NEW d \in Callers,
         Asking(c), Asking(d), Url(c) = Url(d) \/ (Mode = "fallback" /\ Origin(c) = Origin(d))
  PROVE  c = d
BY DEF Held, Key, Origin

LEMMA SomeAnswer ==
  ASSUME NEW reply \in Replies, reply # <<>>
  PROVE  /\ reply[1] \in Answer /\ reply[1].status \in Statuses
         /\ reply[1].retry \in Nat
<1>1. PICK a \in Answer : reply = <<a>>
  BY DEF Replies
<1>2. a.status \in Statuses /\ a.retry \in Nat
  BY TimesAssumption DEF Answer, Statuses
<1> QED
  BY <1>1, <1>2

LEMMA NoAnswer == <<>> \in Replies
BY DEF Replies

LEMMA FirstAsks ==
  ASSUME TypeOK, NEW c \in Callers
  PROVE  /\ First(c) \in [at : {"asking"}, route : Routes, left : Nat, answer : Replies]
         /\ First(c).answer = <<>> /\ First(c).at = "asking"
         /\ First(c).route = "set" <=> Mode = "set"
         /\ First(c).route = "direct" => ~(proxyUntil[Origin(c)] > clock)
BY TimesAssumption, NoAnswer DEF First, Ask, Routes

LEMMA LargerBound ==
  ASSUME NEW a \in Nat, NEW b \in Nat
  PROVE  Larger(a, b) \in Nat /\ Larger(a, b) >= a /\ Larger(a, b) >= b
BY DEF Larger

\* An answer of the backoff's statuses leaves a backoff, and a 429 one that
\* lasts as long as it asks for.
LEMMA Schedules ==
  ASSUME Shape, NEW u \in Urls, NEW answer \in Answer, Schedule(u, answer)
  PROVE  /\ until' \in [Urls -> Nat] /\ failures' \in [Urls -> Nat]
         /\ \A v \in Urls : until'[v] = 0 <=> failures'[v] = 0
         /\ \A v \in Urls \ {u} : until'[v] = until[v]
         /\ answer.status \in Codes \cup {"busy"} => until'[u] # 0
         /\ answer.status = "busy" => until'[u] >= clock + Larger(Minute, answer.retry)
<1> DEFINE delays == DelaysFor(answer.status)
           k == failures[u] + 1
           j == IF k < Len(delays) THEN k ELSE Len(delays)
<1>1. answer.retry \in Nat /\ clock \in Nat /\ Minute \in Nat /\ Minute > 0
      /\ failures[u] \in Nat
  <2>1. answer.retry \in RetryAfters
    BY TimesAssumption DEF Answer
  <2>2. clock \in Nat /\ failures[u] \in Nat
    BY TimesAssumption DEF Shape, TypeOK
  <2>3. Minute \in Nat /\ Minute > 0
    BY TimesAssumption
  <2>4. answer.retry \in Nat
    BY <2>1, TimesAssumption
  <2> QED
    BY <2>2, <2>3, <2>4
<1>2. Delays \in Seq(Nat) /\ (\A i \in DOMAIN Delays : Delays[i] >= Minute)
      /\ (Codes # {} <=> Delays # <<>>) /\ (Codes # {} => "busy" \in Codes)
  BY SettingsAssumption DEF Shape, TypeOK, Codes, Delays
<1>3. delays \in Seq(Nat) /\ \A i \in DOMAIN delays : delays[i] >= Minute
  <2>1. CASE delays = <<Minute>>
    BY <2>1, <1>1
  <2>2. CASE delays = Delays
    BY <2>2, <1>2
  <2>3. CASE delays = <<>>
    BY <2>3
  <2> QED
    BY <2>1, <2>2, <2>3 DEF DelaysFor
<1>4. answer.status \in Codes \cup {"busy"} => delays # <<>>
  BY <1>2 DEF DelaysFor
<1>5. CASE delays = <<>>
  BY <1>4, <1>5 DEF Schedule, Shape, TypeOK
<1>6. CASE delays # <<>>
  <2>1. PICK n \in Nat : n = Len(delays)
    BY <1>3
  <2>2. DOMAIN delays = 1 .. n /\ n > 0
    BY <1>3, <1>6, <2>1
  <2>3. j \in 1 .. n
    BY <1>1, <2>1, <2>2
  <2>4. delays[j] \in Nat /\ delays[j] >= Minute
    BY <1>3, <2>2, <2>3
  <2>5. PICK d \in Nat : d = delays[j] /\ d >= Minute
    BY <2>4
  <2>6. /\ failures' = [failures EXCEPT ![u] = failures[u] + 1]
        /\ until' = [until EXCEPT ![u] = clock + Larger(d, answer.retry)]
    BY <1>6, <2>5 DEF Schedule
  <2>7. Larger(d, answer.retry) \in Nat /\ Larger(d, answer.retry) >= Minute
        /\ Larger(d, answer.retry) >= Larger(Minute, answer.retry)
    BY <1>1, <2>5 DEF Larger
  <2>8. /\ until' \in [Urls -> Nat] /\ failures' \in [Urls -> Nat]
        /\ until'[u] = clock + Larger(d, answer.retry) /\ failures'[u] # 0
    BY <1>1, <2>6, <2>7 DEF Shape, TypeOK
  <2>9. until'[u] # 0
    BY <1>1, <2>7, <2>8
  <2>10. \A v \in Urls \ {u} : until'[v] = until[v] /\ failures'[v] = failures[v]
    BY <2>6 DEF Shape, TypeOK
  <2>11. until'[u] >= clock + Larger(Minute, answer.retry)
    <3>1. PICK x \in Nat, y \in Nat : x = Larger(d, answer.retry)
             /\ y = Larger(Minute, answer.retry) /\ x >= y
      BY <1>1, <2>7, LargerBound
    <3> QED
      BY <1>1, <2>8, <3>1
  <2> QED
    BY <2>8, <2>9, <2>10, <2>11 DEF Shape, TypeOK
<1> QED
  BY <1>5, <1>6

\* What an answer that is settled for does, at its URL and its origin only.
LEMMA Concludes ==
  ASSUME Shape, NEW c \in Callers, NEW reply \in Replies, Conclude(c, reply)
  PROVE  /\ until' \in [Urls -> Nat] /\ failures' \in [Urls -> Nat]
         /\ \A v \in Urls : until'[v] = 0 <=> failures'[v] = 0
         /\ \A v \in Urls \ {Url(c)} : until'[v] = until[v]
         /\ reply = <<>> => until' = until
         /\ reply # <<>> =>
              /\ reply[1].status \in Codes \cup {"busy"} => until'[Url(c)] # 0
              /\ reply[1].status \in {"ok", "garbled"} => until'[Url(c)] = 0
              /\ reply[1].status = "busy" =>
                   until'[Url(c)] >= clock + Larger(Minute, reply[1].retry)
         /\ proxyUntil' \in [Origins -> Nat]
         /\ \A o \in Origins \ {Origin(c)} : proxyUntil'[o] = proxyUntil[o]
<1>1. Url(c) \in Urls /\ Origin(c) \in Origins
  BY Places DEF Shape
<1>2. CASE reply = <<>>
  BY <1>2 DEF Conclude, Shape, TypeOK
<1>3. CASE reply # <<>>
  <2>1. reply[1] \in Answer /\ reply[1].status \in Statuses
    BY <1>3, SomeAnswer
  <2>2. CASE reply[1].status \in {"ok", "garbled"}
    <3>1. Clear(Url(c))
      BY <1>3, <2>2 DEF Conclude
    <3>2. /\ until' \in [Urls -> Nat] /\ failures' \in [Urls -> Nat]
          /\ \A v \in Urls : until'[v] = 0 <=> failures'[v] = 0
          /\ \A v \in Urls \ {Url(c)} : until'[v] = until[v]
          /\ until'[Url(c)] = 0
      BY <1>1, <3>1 DEF Clear, Shape, TypeOK
    <3>3. /\ proxyUntil' \in [Origins -> Nat]
          /\ \A o \in Origins \ {Origin(c)} : proxyUntil'[o] = proxyUntil[o]
      <4>1. proxyUntil \in [Origins -> Nat] /\ clock + Cooldown \in Nat
        BY TimesAssumption DEF Shape, TypeOK
      <4>2. NoteRoute(c) \/ UNCHANGED proxyUntil
        BY <1>3, <2>2 DEF Conclude
      <4> QED
        BY <1>1, <4>1, <4>2 DEF NoteRoute
    <3>4. reply[1].status \notin Codes \cup {"busy"}
      BY <2>2, SettingsAssumption DEF Shape, TypeOK, Codes
    <3> QED
      BY <1>3, <2>2, <3>2, <3>3, <3>4
  <2>3. CASE reply[1].status \notin {"ok", "garbled"}
    <3>1. Schedule(Url(c), reply[1]) /\ UNCHANGED proxyUntil
      BY <1>3, <2>3 DEF Conclude
    <3> QED
      BY <1>1, <1>3, <2>1, <2>3, <3>1, Schedules DEF Shape, TypeOK
  <2> QED
    BY <2>2, <2>3
<1> QED
  BY <1>2, <1>3

-----------------------------------------------------------------------------
(* What a step does to the locks and to the tasks of the requests. *)

\* A lock is taken by c, or only its waiters change.
Takes(c) ==
  /\ DOMAIN lock' = DOMAIN lock
  /\ \A l \in DOMAIN lock :
       /\ lock'[l] = [holder |-> lock'[l].holder, waiters |-> lock'[l].waiters]
       /\ lock'[l].holder # lock[l].holder =>
            lock[l].holder = Nobody /\ lock'[l].holder = c

\* c is in no lock any more.
Frees(c) ==
  /\ DOMAIN lock' = DOMAIN lock
  /\ \A l \in DOMAIN lock :
       /\ lock'[l] = [holder |-> lock'[l].holder, waiters |-> lock'[l].waiters]
       /\ lock'[l].holder = IF lock[l].holder = c THEN Nobody ELSE lock[l].holder

Begins(c) ==
  /\ ~Asking(c) /\ ~Resting(c)
  /\ call' = [call EXCEPT ![c] = First(c)]
  /\ Takes(c)
  /\ Locked => lock[Key(c)].holder = Nobody /\ lock'[Key(c)].holder = c
  /\ UNCHANGED <<setting, clock, until, failures, proxyUntil, last, calm>>

Stops(c) == call' = [call EXCEPT ![c] = Idle] /\ Frees(c)

LEMMA RequestBegins ==
  ASSUME Shape, NEW c \in Callers, Request(c)
  PROVE  Begins(c)
<1>1. /\ ~Asking(c) /\ ~Resting(c)
      /\ call' = [call EXCEPT ![c] = First(c)]
      /\ UNCHANGED <<setting, clock, until, failures, proxyUntil, last, calm>>
  BY DEF Request, Idle, Asking
<1>2. \A l \in LockOf(c) : lock[l].holder = Nobody
  BY DEF Request
<1>3. lock' = [l \in DOMAIN lock |->
                IF l \in LockOf(c) THEN [lock[l] EXCEPT !.holder = c] ELSE lock[l]]
  BY DEF Request
<1>4. \A l \in DOMAIN lock :
        lock[l] = [holder |-> lock[l].holder, waiters |-> lock[l].waiters]
  BY DEF Shape, LockShape
<1>5. \A l \in DOMAIN lock :
        lock'[l] = [holder |-> IF l \in LockOf(c) THEN c ELSE lock[l].holder,
                    waiters |-> lock[l].waiters]
  BY <1>3, <1>4
<1>6. Takes(c)
  BY <1>2, <1>3, <1>5 DEF Takes
<1>7. Locked => lock[Key(c)].holder = Nobody /\ lock'[Key(c)].holder = c
  <2> SUFFICES ASSUME Locked
               PROVE  lock[Key(c)].holder = Nobody /\ lock'[Key(c)].holder = c
    OBVIOUS
  <2>1. Key(c) \in DOMAIN lock /\ Key(c) \in LockOf(c)
    BY Places DEF Shape, LockShape
  <2>2. PICK k \in DOMAIN lock : k = Key(c) /\ k \in LockOf(c)
    BY <2>1
  <2>3. lock'[k] = [lock[k] EXCEPT !.holder = c]
    BY <1>3, <2>2
  <2>4. lock[k] = [holder |-> lock[k].holder, waiters |-> lock[k].waiters]
    BY <1>4
  <2>5. lock'[k].holder = c
    BY <2>3, <2>4
  <2> QED
    BY <1>2, <2>2, <2>5
<1> QED
  BY <1>1, <1>6, <1>7 DEF Begins

LEMMA LeaveStops ==
  ASSUME NEW c \in Callers, Leave(c)
  PROVE  Stops(c)
BY DEF Leave, Stops, Frees

LEMMA WakeBegins ==
  ASSUME Shape, Held, NEW c \in Callers, Wake(c), ~Resting(c)
  PROVE  Begins(c)
<1>1. call[c].at = "waiting"
  BY DEF Wake
<1>2. PICK l : l = call[c].lock
  OBVIOUS
<1>3. l \in DOMAIN lock /\ (Locked => l = Key(c))
  BY <1>1, <1>2 DEF Shape, CallShape, LockShape, Held, Idle
<1>4. /\ lock[l].holder = Nobody
      /\ call' = [call EXCEPT ![c] = First(c)]
      /\ lock' = [lock EXCEPT ![l] = [holder |-> c, waiters |-> Tail(lock[l].waiters)]]
  BY <1>2 DEF Wake
<1>5. \A k \in DOMAIN lock :
        lock[k] = [holder |-> lock[k].holder, waiters |-> lock[k].waiters]
  BY DEF Shape, LockShape
<1>6. lock'[l] = [holder |-> c, waiters |-> Tail(lock[l].waiters)]
      /\ DOMAIN lock' = DOMAIN lock /\ \A k \in DOMAIN lock \ {l} : lock'[k] = lock[k]
  BY <1>3, <1>4 DEF Shape, LockShape
<1>7. Takes(c)
  BY <1>4, <1>5, <1>6 DEF Takes
<1>8. UNCHANGED <<setting, clock, until, failures, proxyUntil, last, calm>>
  BY DEF Wake
<1> QED
  BY <1>1, <1>3, <1>4, <1>6, <1>7, <1>8 DEF Begins, Asking

-----------------------------------------------------------------------------
(* The invariant over each kind of step. *)

LEMMA BeginStep ==
  ASSUME PolicyInv, NEW c \in Callers, Begins(c)
  PROVE  PolicyInv'
<1> USE DEF PolicyInv
<1>0. UNCHANGED <<setting, clock, until, failures, proxyUntil, last, calm>>
  BY DEF Begins
<1>1. First(c) \in [at : {"asking"}, route : Routes, left : Nat, answer : Replies]
      /\ First(c).answer = <<>> /\ First(c).at = "asking"
      /\ (First(c).route = "set" <=> Mode = "set")
      /\ (First(c).route = "direct" => ~(proxyUntil[Origin(c)] > clock))
  BY FirstAsks DEF Shape
<1>2. call'[c] = First(c) /\ \A d \in Callers \ {c} : call'[d] = call[d]
  BY DEF Begins, Shape, CallShape
<1>3. Asking(c)' /\ ~Asking(c) /\ \A d \in Callers \ {c} : Asking(d)' <=> Asking(d)
  BY <1>1, <1>2 DEF Asking, Begins
<1>4. \A d \in Callers : Url(d)' = Url(d) /\ Origin(d)' = Origin(d)
  BY <1>0 DEF Url, Origin
<1>5. Url(c) \in Urls /\ Origin(c) \in Origins
  BY Places DEF Shape
<1>6. Takes(c)
  BY DEF Begins
<1>7. Shape'
  <2>1. CallShape'
    BY <1>1 DEF Begins, Shape, CallShape
  <2>2. LockShape'
    BY <1>6 DEF Takes, Shape, LockShape
  <2>3. \A l \in DOMAIN lock' :
          lock'[l].holder = Nobody \/ call'[lock'[l].holder].at = "asking"
    <3> SUFFICES ASSUME NEW l \in DOMAIN lock, lock'[l].holder # Nobody
                 PROVE  call'[lock'[l].holder].at = "asking"
      BY <1>6 DEF Takes
    <3>1. CASE lock'[l].holder = c
      BY <1>3, <3>1 DEF Asking
    <3>2. CASE lock'[l].holder # c
      <4>1. lock'[l].holder = lock[l].holder /\ Asking(lock[l].holder)
            /\ lock[l].holder \in Callers
        BY <1>6, <3>2 DEF Takes, Shape, LockShape, TypeOK
      <4>2. PICK d \in Callers : d = lock'[l].holder /\ d # c /\ Asking(d)
        BY <3>2, <4>1
      <4> QED
        BY <1>3, <4>2 DEF Asking
    <3> QED
      BY <3>1, <3>2
  <2> QED
    BY <1>0, <2>1, <2>2, <2>3 DEF Shape, TypeOK, HistoryShape, Asking
<1>8. Held'
  <2> SUFFICES ASSUME Locked, NEW d \in Callers
               PROVE  /\ Asking(d)' => lock'[Key(d)].holder = d
                      /\ call'[d].at = "waiting" => call'[d].lock = Key(d)
    BY <1>0 DEF Held, Locked, Key, Mode, Codes, Origin, Url
  <2>1. lock[Key(c)].holder = Nobody /\ lock'[Key(c)].holder = c
    BY DEF Begins
  <2>2. CASE d = c
    BY <1>1, <1>2, <2>1, <2>2
  <2>3. CASE d # c
    <3>1. call'[d] = call[d] /\ (Asking(d)' <=> Asking(d))
      BY <1>2, <1>3, <2>3
    <3>2. Asking(d) => lock[Key(d)].holder = d /\ d # Nobody
      BY OriginAssumption DEF Held
    <3>3. Key(d) \in DOMAIN lock
      BY Places DEF Shape, LockShape
    <3>4. Asking(d) => lock'[Key(d)].holder = d
      BY <1>6, <3>2, <3>3 DEF Takes
    <3> QED
      BY <3>1, <3>4 DEF Held
  <2> QED
    BY <2>2, <2>3
<1>9. RouteInv'
  <2> SUFFICES ASSUME NEW d \in Callers, Asking(d)'
               PROVE  /\ call'[d].route = "set" <=> Mode = "set"
                      /\ call'[d].answer # <<>> =>
                           /\ call'[d].route = "switched"
                           /\ call'[d].answer[1].status = "blocked"
                           /\ last[Url(d)] = "blocked"
                      /\ call'[d].route = "direct" => proxyUntil[Origin(d)] <= clock
    BY <1>0, <1>4 DEF RouteInv, Mode
  <2>1. CASE d = c
    <3>1. proxyUntil[Origin(c)] \in Nat /\ clock \in Nat
      BY <1>5 DEF Shape, TypeOK
    <3> QED
      BY <1>1, <1>2, <2>1, <3>1
  <2>2. CASE d # c
    BY <1>2, <1>3, <2>2 DEF RouteInv
  <2> QED
    BY <2>1, <2>2
<1>10. BackoffInv'
  <2> SUFFICES ASSUME NEW u \in Urls
               PROVE  Settled(u)' \/ Trying(u)'
    BY DEF BackoffInv
  <2>1. CASE Settled(u)
    BY <1>0, <2>1 DEF Settled, Codes
  <2>2. CASE Trying(u)
    <3>1. PICK d \in Callers : Asking(d) /\ Url(d) = u /\ call[d].answer # <<>>
      BY <2>2 DEF Trying
    <3>2. Asking(d)' /\ Url(d)' = u /\ call'[d].answer # <<>>
      BY <1>2, <1>3, <1>4, <3>1
    <3> QED
      BY <3>2 DEF Trying
  <2> QED
    BY <2>1, <2>2 DEF BackoffInv
<1>11. CalmInv'
  <2> SUFFICES ASSUME Apart
               PROVE  /\ \A u \in Urls : calm[u] <= clock \/ calm[u] <= until[u]
                      /\ \A d \in Callers : Asking(d)' => calm[Url(d)] <= clock
    BY <1>0, <1>4 DEF CalmInv, Apart
  <2>1. \A u \in Urls : calm[u] <= clock \/ calm[u] <= until[u]
    BY DEF CalmInv
  <2>2. calm[Url(c)] <= clock
    <3>1. ~(until[Url(c)] > clock)
      BY DEF Begins, Resting
    <3>2. until[Url(c)] \in Nat /\ clock \in Nat /\ calm[Url(c)] \in Nat
      BY <1>5 DEF Shape, TypeOK, HistoryShape
    <3> QED
      BY <1>5, <2>1, <3>1, <3>2
  <2>3. \A d \in Callers \ {c} : Asking(d)' => calm[Url(d)] <= clock
    BY <1>3 DEF CalmInv
  <2> QED
    BY <2>1, <2>2, <2>3
<1> QED
  BY <1>7, <1>8, <1>9, <1>10, <1>11

LEMMA TickStep ==
  ASSUME PolicyInv, Tick
  PROVE  PolicyInv'
<1> USE DEF PolicyInv, Tick
<1>1. clock \in Nat /\ MaxTime \in Nat /\ clock' = clock + 1 /\ clock' \in 0 .. MaxTime
  BY TimesAssumption DEF Shape, TypeOK
<1>2. \A c \in Callers : /\ Asking(c)' <=> Asking(c)
                         /\ Url(c)' = Url(c) /\ Origin(c)' = Origin(c) /\ Key(c)' = Key(c)
  BY DEF Asking, Url, Origin, Key, Mode
<1>3. Shape'
  BY <1>1 DEF Shape, TypeOK, CallShape, LockShape, HistoryShape, Asking
<1>4. Held'
  BY <1>2 DEF Held, Locked, Mode, Codes
<1>5. RouteInv'
  <2> SUFFICES ASSUME NEW c \in Callers, Asking(c), call[c].route = "direct"
               PROVE  proxyUntil[Origin(c)] <= clock'
    BY <1>2 DEF RouteInv, Mode
  <2>1. proxyUntil[Origin(c)] <= clock
    BY DEF RouteInv
  <2>2. proxyUntil[Origin(c)] \in Nat
    BY Places DEF Shape, TypeOK
  <2> QED
    BY <1>1, <2>1, <2>2
<1>6. BackoffInv'
  BY DEF BackoffInv, Settled, Trying, Asking, Url, Codes
<1>7. CalmInv'
  <2> SUFFICES ASSUME Apart
               PROVE  /\ \A u \in Urls : calm[u] <= clock' \/ calm[u] <= until[u]
                      /\ \A d \in Callers : Asking(d) => calm[Url(d)] <= clock'
    BY <1>2 DEF CalmInv, Apart
  <2>1. \A u \in Urls : calm[u] \in Nat /\ until[u] \in Nat
    BY DEF Shape, TypeOK, HistoryShape
  <2>2. \A u \in Urls : calm[u] <= clock \/ calm[u] <= until[u]
    BY DEF CalmInv
  <2>3. \A u \in Urls : calm[u] <= clock' \/ calm[u] <= until[u]
    BY <1>1, <2>1, <2>2
  <2>4. \A d \in Callers : Asking(d) => calm[Url(d)] <= clock'
    <3> SUFFICES ASSUME NEW d \in Callers, Asking(d) PROVE calm[Url(d)] <= clock'
      OBVIOUS
    <3>1. calm[Url(d)] <= clock /\ Url(d) \in Urls
      BY Places DEF CalmInv, Shape
    <3> QED
      BY <1>1, <2>1, <3>1
  <2> QED
    BY <2>3, <2>4
<1> QED
  BY <1>3, <1>4, <1>5, <1>6, <1>7

LEMMA WaitStep ==
  ASSUME PolicyInv, NEW c \in Callers, Wait(c)
  PROVE  PolicyInv'
<1> USE DEF PolicyInv
<1>0. UNCHANGED <<setting, clock, until, failures, proxyUntil, last, calm>>
  BY DEF Wait
<1>1. PICK l \in LockOf(c) : /\ lock' = [lock EXCEPT ![l].waiters = Append(@, c)]
                             /\ call' = [call EXCEPT ![c] = Waiting(l)]
  BY DEF Wait
<1>2. l \in DOMAIN lock /\ l \in Origins \cup Urls /\ (Locked => l = Key(c))
  BY Places DEF Shape, LockShape
<1>3. /\ call'[c] = Waiting(l) /\ \A d \in Callers \ {c} : call'[d] = call[d]
      /\ Waiting(l) \in [at : {"waiting"}, lock : Origins \cup Urls]
      /\ Waiting(l).at = "waiting" /\ Waiting(l).lock = l
  BY <1>1, <1>2 DEF Shape, CallShape, Waiting
<1>4. call[c].at = "idle"
  BY DEF Wait, Idle
<1>5. \A d \in Callers : /\ Asking(d)' <=> Asking(d)
                         /\ Asking(d) => call'[d] = call[d]
                         /\ Url(d)' = Url(d) /\ Origin(d)' = Origin(d) /\ Key(d)' = Key(d)
  BY <1>0, <1>3, <1>4 DEF Asking, Url, Origin, Key, Mode
<1>6. /\ DOMAIN lock' = DOMAIN lock
      /\ \A k \in DOMAIN lock :
           /\ lock'[k] = [holder |-> lock'[k].holder, waiters |-> lock'[k].waiters]
           /\ lock'[k].holder = lock[k].holder
  <2>1. \A k \in DOMAIN lock :
          lock[k] = [holder |-> lock[k].holder, waiters |-> lock[k].waiters]
    BY DEF Shape, LockShape
  <2>2. lock'[l] = [lock[l] EXCEPT !.waiters = Append(@, c)]
        /\ \A k \in DOMAIN lock \ {l} : lock'[k] = lock[k]
    BY <1>1, <1>2
  <2>3. lock'[l] = [holder |-> lock[l].holder, waiters |-> Append(lock[l].waiters, c)]
    BY <1>2, <2>1, <2>2
  <2>4. DOMAIN lock' = DOMAIN lock
    BY <1>1
  <2> QED
    BY <2>1, <2>2, <2>3, <2>4
<1>7. Shape'
  <2>1. CallShape'
    BY <1>1, <1>3 DEF Shape, CallShape
  <2>2. LockShape'
    BY <1>6 DEF Shape, LockShape
  <2>3. \A k \in DOMAIN lock' :
          lock'[k].holder = Nobody \/ call'[lock'[k].holder].at = "asking"
    BY <1>5, <1>6 DEF Shape, TypeOK, LockShape, Asking
  <2> QED
    BY <1>0, <2>1, <2>2, <2>3 DEF Shape, TypeOK, HistoryShape, Asking
<1>8. Held'
  <2> SUFFICES ASSUME Locked, NEW d \in Callers
               PROVE  /\ Asking(d) => lock'[Key(d)].holder = d
                      /\ call'[d].at = "waiting" => call'[d].lock = Key(d)
    BY <1>0, <1>5 DEF Held, Locked, Mode, Codes
  <2>1. Asking(d) => lock'[Key(d)].holder = d
    <3>1. Key(d) \in DOMAIN lock
      BY Places DEF Shape, LockShape
    <3> QED
      BY <1>6, <3>1 DEF Held
  <2>2. call'[d].at = "waiting" => call'[d].lock = Key(d)
    BY <1>2, <1>3 DEF Held
  <2> QED
    BY <2>1, <2>2
<1>9. RouteInv'
  BY <1>0, <1>5 DEF RouteInv, Mode
<1>10. BackoffInv'
  <2> SUFFICES ASSUME NEW u \in Urls PROVE Settled(u)' \/ Trying(u)'
    BY DEF BackoffInv
  <2>1. Settled(u) => Settled(u)'
    BY <1>0 DEF Settled, Codes
  <2>2. Trying(u) => Trying(u)'
    BY <1>5 DEF Trying
  <2> QED
    BY <2>1, <2>2 DEF BackoffInv
<1>11. CalmInv'
  BY <1>0, <1>5 DEF CalmInv, Apart
<1> QED
  BY <1>7, <1>8, <1>9, <1>10, <1>11

\* What is left when c's request has ended, in whatever way.
LEMMA Stopped ==
  ASSUME Shape, Held, NEW c \in Callers, Stops(c), UNCHANGED setting
  PROVE  /\ CallShape' /\ LockShape' /\ Held'
         /\ \A l \in DOMAIN lock' :
              lock'[l].holder = Nobody \/ call'[lock'[l].holder].at = "asking"
         /\ \A d \in Callers : Asking(d)' <=> (Asking(d) /\ d # c)
         /\ \A d \in Callers \ {c} : call'[d] = call[d]
<1>1. call'[c] = Idle /\ \A d \in Callers \ {c} : call'[d] = call[d]
  BY DEF Stops, Shape, CallShape
<1>2. CallShape'
  BY DEF Stops, Shape, CallShape
<1>3. LockShape'
  BY DEF Stops, Frees, Shape, LockShape
<1>4. \A d \in Callers : Asking(d)' <=> (Asking(d) /\ d # c)
  BY <1>1 DEF Asking, Idle
<1>5. \A l \in DOMAIN lock' :
        lock'[l].holder = Nobody \/ call'[lock'[l].holder].at = "asking"
  <2> SUFFICES ASSUME NEW l \in DOMAIN lock, lock'[l].holder # Nobody
               PROVE  call'[lock'[l].holder].at = "asking"
    BY DEF Stops, Frees
  <2>1. lock'[l].holder = lock[l].holder /\ lock[l].holder # c
    BY DEF Stops, Frees
  <2>2. lock[l].holder \in Callers /\ Asking(lock[l].holder)
    BY <2>1 DEF Shape, LockShape, TypeOK
  <2> QED
    BY <1>1, <2>1, <2>2 DEF Asking
<1>6. Held'
  <2> SUFFICES ASSUME Locked, NEW d \in Callers
               PROVE  /\ Asking(d)' => lock'[Key(d)].holder = d
                      /\ call'[d].at = "waiting" => call'[d].lock = Key(d)
    BY DEF Held, Locked, Key, Mode, Codes, Origin, Url
  <2>1. CASE d = c
    BY <1>1, <1>4, <2>1 DEF Idle
  <2>2. CASE d # c
    <3>1. Key(d) \in DOMAIN lock
      BY Places DEF Shape, LockShape
    <3>2. Asking(d) => lock'[Key(d)].holder = d
      BY <2>2, <3>1 DEF Held, Stops, Frees
    <3> QED
      BY <1>1, <1>4, <2>2, <3>2 DEF Held
  <2> QED
    BY <2>1, <2>2
<1> QED
  BY <1>1, <1>2, <1>3, <1>4, <1>5, <1>6

\* A cancelled request, and a waiter that finds the backoff running.
LEMMA QuitStep ==
  ASSUME PolicyInv, NEW c \in Callers, Stops(c),
         UNCHANGED <<setting, clock, until, failures, proxyUntil, calm>>,
         last' = IF Asking(c) THEN [last EXCEPT ![Url(c)] = "none"] ELSE last
  PROVE  PolicyInv'
<1> USE DEF PolicyInv
<1>1. /\ CallShape' /\ LockShape' /\ Held'
      /\ \A l \in DOMAIN lock' :
           lock'[l].holder = Nobody \/ call'[lock'[l].holder].at = "asking"
      /\ \A d \in Callers : Asking(d)' <=> (Asking(d) /\ d # c)
      /\ \A d \in Callers \ {c} : call'[d] = call[d]
  BY Stopped
<1>2. \A d \in Callers : Url(d)' = Url(d) /\ Origin(d)' = Origin(d)
  BY DEF Url, Origin
<1>3. Url(c) \in Urls
  BY Places DEF Shape
<1>4. /\ last' \in [Urls -> Statuses \cup {"none"}]
      /\ Asking(c) => last'[Url(c)] = "none"
      /\ \A u \in Urls : last'[u] = last[u] \/ (last'[u] = "none" /\ u = Url(c) /\ Asking(c))
      /\ ~Asking(c) => last' = last
  BY <1>3 DEF Shape, HistoryShape
<1>5. Shape'
  BY <1>1, <1>4 DEF Shape, TypeOK, HistoryShape, Asking
<1>6. RouteInv'
  <2> SUFFICES ASSUME NEW d \in Callers, Asking(d), d # c
               PROVE  /\ call[d].route = "set" <=> Mode = "set"
                      /\ call[d].answer # <<>> =>
                           /\ call[d].route = "switched"
                           /\ call[d].answer[1].status = "blocked"
                           /\ last'[Url(d)] = "blocked"
                      /\ call[d].route = "direct" => proxyUntil[Origin(d)] <= clock
    BY <1>1, <1>2 DEF RouteInv, Mode
  <2>1. /\ call[d].route = "set" <=> Mode = "set"
        /\ call[d].answer # <<>> =>
             /\ call[d].route = "switched"
             /\ call[d].answer[1].status = "blocked" /\ last[Url(d)] = "blocked"
        /\ call[d].route = "direct" => proxyUntil[Origin(d)] <= clock
    BY DEF RouteInv
  <2>2. call[d].answer # <<>> => last'[Url(d)] = last[Url(d)]
    <3> SUFFICES ASSUME call[d].answer # <<>>, Asking(c), Url(d) = Url(c) PROVE FALSE
      BY <1>4, Places DEF Shape
    <3>1. Locked
      BY <2>1, SettingsAssumption DEF Locked, Shape, TypeOK, Mode
    <3> QED
      BY <3>1, AskersDiffer DEF Shape
  <2> QED
    BY <2>1, <2>2
<1>7. BackoffInv'
  <2> SUFFICES ASSUME NEW u \in Urls PROVE Settled(u)' \/ Trying(u)'
    BY DEF BackoffInv
  <2>0. last[u] \in Statuses \cup {"none"} /\ "none" \notin Codes
    BY SettingsAssumption DEF Shape, TypeOK, HistoryShape, Codes
  <2>1. CASE last'[u] = "none"
    BY <2>0, <2>1 DEF Settled, Codes
  <2>2. CASE last'[u] # "none"
    <3>1. last'[u] = last[u] /\ ~(u = Url(c) /\ Asking(c))
      BY <1>4, <2>2
    <3>2. Settled(u) => Settled(u)'
      BY <3>1 DEF Settled, Codes
    <3>3. Trying(u) => Trying(u)'
      <4> SUFFICES ASSUME NEW d \in Callers, Asking(d), Url(d) = u, call[d].answer # <<>>
                   PROVE  Trying(u)'
        BY DEF Trying
      <4>1. d # c
        BY <3>1
      <4> QED
        BY <1>1, <1>2, <4>1 DEF Trying
    <3> QED
      BY <3>2, <3>3 DEF BackoffInv
  <2> QED
    BY <2>1, <2>2
<1>8. CalmInv'
  BY <1>1, <1>2 DEF CalmInv, Apart
<1> QED
  BY <1>1, <1>5, <1>6, <1>7, <1>8

\* The request goes on, with a task that is good for c.
GoesOn(c, task) ==
  /\ Asking(c) /\ call' = [call EXCEPT ![c] = task]
  /\ task \in [at : {"asking"}, route : Routes, left : Nat, answer : Replies]
  /\ task.route = "set" <=> Mode = "set"
  /\ task.route = "direct" => call[c].route = "direct"
  /\ UNCHANGED <<setting, clock, until, failures, proxyUntil, lock, calm>>

LEMMA GoneOn ==
  ASSUME PolicyInv, NEW c \in Callers, NEW task, GoesOn(c, task)
  PROVE  /\ call'[c] = task /\ \A d \in Callers \ {c} : call'[d] = call[d]
         /\ \A d \in Callers : /\ Asking(d)' <=> Asking(d)
                               /\ Url(d)' = Url(d) /\ Origin(d)' = Origin(d)
         /\ CallShape' /\ LockShape' /\ Held' /\ CalmInv'
         /\ \A l \in DOMAIN lock' :
              lock'[l].holder = Nobody \/ call'[lock'[l].holder].at = "asking"
<1> USE DEF PolicyInv, GoesOn
<1>1. call'[c] = task /\ task.at = "asking" /\ \A d \in Callers \ {c} : call'[d] = call[d]
  BY DEF Shape, CallShape
<1>2. \A d \in Callers :
        /\ Asking(d)' <=> Asking(d)
        /\ Url(d)' = Url(d) /\ Origin(d)' = Origin(d) /\ Key(d)' = Key(d)
  BY <1>1 DEF Asking, Url, Origin, Key, Mode
<1>3. CallShape'
  BY DEF Shape, CallShape
<1>4. LockShape'
  BY DEF Shape, LockShape
<1>5. \A l \in DOMAIN lock' :
        lock'[l].holder = Nobody \/ call'[lock'[l].holder].at = "asking"
  BY <1>2 DEF Shape, TypeOK, LockShape, Asking
<1>6. Held'
  <2>1. \A d \in Callers : call'[d].at = "waiting" => call[d] = call'[d]
    BY <1>1
  <2> QED
    BY <1>2, <2>1 DEF Held, Locked, Mode, Codes
<1>7. CalmInv'
  BY <1>2 DEF CalmInv, Apart
<1> QED
  BY <1>1, <1>2, <1>3, <1>4, <1>5, <1>6, <1>7

LEMMA RetryStep ==
  ASSUME PolicyInv, NEW c \in Callers, Asking(c), call[c].left > 1,
         call' = [call EXCEPT ![c].left = @ - 1],
         UNCHANGED <<setting, clock, until, failures, proxyUntil, lock, last, calm>>
  PROVE  PolicyInv'
<1> USE DEF PolicyInv
<1>1. call[c] \in [at : {"asking"}, route : Routes, left : Nat, answer : Replies]
  BY DEF Shape, CallShape, Asking, Idle
<1>2. PICK task : task = [call[c] EXCEPT !.left = @ - 1]
  OBVIOUS
<1>3. /\ task \in [at : {"asking"}, route : Routes, left : Nat, answer : Replies]
      /\ task.route = call[c].route /\ task.answer = call[c].answer
  <2>1. call[c].left - 1 \in Nat
    BY <1>1
  <2> QED
    BY <1>1, <1>2, <2>1
<1>4. call[c].route = "set" <=> Mode = "set"
  BY DEF RouteInv
<1>5. GoesOn(c, task)
  BY <1>2, <1>3, <1>4 DEF GoesOn
<1>6. /\ call'[c] = task /\ \A d \in Callers \ {c} : call'[d] = call[d]
      /\ \A d \in Callers : /\ Asking(d)' <=> Asking(d)
                            /\ Url(d)' = Url(d) /\ Origin(d)' = Origin(d)
      /\ CallShape' /\ LockShape' /\ Held' /\ CalmInv'
      /\ \A l \in DOMAIN lock' :
           lock'[l].holder = Nobody \/ call'[lock'[l].holder].at = "asking"
  BY <1>5, GoneOn
<1>7. \A d \in Callers : call'[d].route = call[d].route /\ call'[d].answer = call[d].answer
  BY <1>3, <1>6
<1>8. Shape'
  BY <1>6 DEF Shape, TypeOK, HistoryShape, Asking
<1>9. RouteInv'
  BY <1>6, <1>7 DEF RouteInv, Mode
<1>10. BackoffInv'
  <2> SUFFICES ASSUME NEW u \in Urls PROVE Settled(u)' \/ Trying(u)'
    BY DEF BackoffInv
  <2>1. Settled(u) => Settled(u)'
    BY DEF Settled, Codes
  <2>2. Trying(u) => Trying(u)'
    BY <1>6, <1>7 DEF Trying
  <2> QED
    BY <2>1, <2>2 DEF BackoffInv
<1> QED
  BY <1>6, <1>8, <1>9, <1>10

LEMMA SwitchStep ==
  ASSUME PolicyInv, NEW c \in Callers, NEW reply \in Replies, Asking(c), Switches(c, reply),
         call' = [call EXCEPT ![c] = Ask("switched", 1, reply)],
         last' = IF reply = <<>> THEN last ELSE [last EXCEPT ![Url(c)] = "blocked"],
         UNCHANGED <<setting, clock, until, failures, proxyUntil, lock, calm>>
  PROVE  PolicyInv'
<1> USE DEF PolicyInv
<1>1. call[c].route = "direct" /\ (reply # <<>> => reply[1].status = "blocked")
  BY DEF Switches
<1>2. PICK task : task = Ask("switched", 1, reply)
  OBVIOUS
<1>3. /\ task \in [at : {"asking"}, route : Routes, left : Nat, answer : Replies]
      /\ task.route = "switched" /\ task.answer = reply
  BY <1>2 DEF Ask, Routes
<1>4. (call[c].route = "set" <=> Mode = "set") /\ call[c].answer = <<>>
  BY <1>1 DEF RouteInv
<1>5. GoesOn(c, task)
  BY <1>1, <1>2, <1>3, <1>4 DEF GoesOn
<1>6. /\ call'[c] = task /\ \A d \in Callers \ {c} : call'[d] = call[d]
      /\ \A d \in Callers : /\ Asking(d)' <=> Asking(d)
                            /\ Url(d)' = Url(d) /\ Origin(d)' = Origin(d)
      /\ CallShape' /\ LockShape' /\ Held' /\ CalmInv'
      /\ \A l \in DOMAIN lock' :
           lock'[l].holder = Nobody \/ call'[lock'[l].holder].at = "asking"
  BY <1>5, GoneOn
<1>7. Url(c) \in Urls
  BY Places DEF Shape
<1>8. /\ last' \in [Urls -> Statuses \cup {"none"}]
      /\ reply = <<>> => last' = last
      /\ reply # <<>> => last'[Url(c)] = "blocked"
      /\ \A u \in Urls \ {Url(c)} : last'[u] = last[u]
  BY <1>7 DEF Shape, HistoryShape, Statuses
<1>9. Shape'
  BY <1>6, <1>8 DEF Shape, TypeOK, HistoryShape, Asking
<1>10. Mode = "fallback" /\ Locked
  BY <1>1, <1>4, Places DEF Shape, Locked
<1>11. \A d \in Callers : Asking(d) /\ Url(d) = Url(c) => d = c
  BY <1>10, AskersDiffer DEF Shape
<1>12. RouteInv'
  <2> SUFFICES ASSUME NEW d \in Callers, Asking(d)
               PROVE  /\ call'[d].route = "set" <=> Mode = "set"
                      /\ call'[d].answer # <<>> =>
                           /\ call'[d].route = "switched"
                           /\ call'[d].answer[1].status = "blocked"
                           /\ last'[Url(d)] = "blocked"
                      /\ call'[d].route = "direct" => proxyUntil[Origin(d)] <= clock
    BY <1>6 DEF RouteInv, Mode
  <2>1. CASE d = c
    BY <1>1, <1>3, <1>6, <1>8, <1>10, <2>1
  <2>2. CASE d # c
    <3>1. last'[Url(d)] = last[Url(d)]
      BY <1>8, <1>11, <2>2, Places DEF Shape
    <3> QED
      BY <1>6, <2>2, <3>1 DEF RouteInv
  <2> QED
    BY <2>1, <2>2
<1>13. BackoffInv'
  <2> SUFFICES ASSUME NEW u \in Urls PROVE Settled(u)' \/ Trying(u)'
    BY DEF BackoffInv
  <2>1. CASE u = Url(c) /\ reply # <<>>
    BY <1>3, <1>6, <2>1 DEF Trying
  <2>2. CASE ~(u = Url(c) /\ reply # <<>>)
    <3>1. last'[u] = last[u]
      BY <1>8, <2>2
    <3>2. Settled(u) => Settled(u)'
      BY <3>1 DEF Settled, Codes
    <3>3. Trying(u) => Trying(u)'
      <4> SUFFICES ASSUME NEW d \in Callers, Asking(d), Url(d) = u, call[d].answer # <<>>
                   PROVE  Trying(u)'
        BY DEF Trying
      <4>1. d # c
        BY <1>4
      <4> QED
        BY <1>6, <4>1 DEF Trying
    <3> QED
      BY <3>2, <3>3 DEF BackoffInv
  <2> QED
    BY <2>1, <2>2
<1> QED
  BY <1>6, <1>9, <1>12, <1>13

LEMMA ConcludeStep ==
  ASSUME PolicyInv, NEW c \in Callers, NEW reply \in Replies, Asking(c),
         Conclude(c, Final(c, reply)), Stops(c), UNCHANGED <<setting, clock>>,
         last' = IF reply = <<>> THEN last ELSE [last EXCEPT ![Url(c)] = reply[1].status],
         calm' = IF reply # <<>> /\ reply[1].status = "busy"
                 THEN [calm EXCEPT ![Url(c)] = clock + Larger(Minute, reply[1].retry)]
                 ELSE calm
  PROVE  PolicyInv'
<1> USE DEF PolicyInv
<1>1. /\ CallShape' /\ LockShape' /\ Held'
      /\ \A l \in DOMAIN lock' :
           lock'[l].holder = Nobody \/ call'[lock'[l].holder].at = "asking"
      /\ \A d \in Callers : Asking(d)' <=> (Asking(d) /\ d # c)
      /\ \A d \in Callers \ {c} : call'[d] = call[d]
  BY Stopped
<1>2. PICK final : final = Final(c, reply)
  OBVIOUS
<1>3. final \in Replies /\ (reply # <<>> => final = reply)
      /\ (reply = <<>> => final = call[c].answer)
  BY <1>2 DEF Final, Shape, CallShape, Asking, Idle
<1>4. /\ until' \in [Urls -> Nat] /\ failures' \in [Urls -> Nat]
      /\ \A v \in Urls : until'[v] = 0 <=> failures'[v] = 0
      /\ \A v \in Urls \ {Url(c)} : until'[v] = until[v]
      /\ final = <<>> => until' = until
      /\ final # <<>> =>
           /\ final[1].status \in Codes \cup {"busy"} => until'[Url(c)] # 0
           /\ final[1].status \in {"ok", "garbled"} => until'[Url(c)] = 0
           /\ final[1].status = "busy" =>
                until'[Url(c)] >= clock + Larger(Minute, final[1].retry)
      /\ proxyUntil' \in [Origins -> Nat]
      /\ \A o \in Origins \ {Origin(c)} : proxyUntil'[o] = proxyUntil[o]
  BY <1>2, <1>3, Concludes
<1>5. Url(c) \in Urls /\ \A d \in Callers : Url(d)' = Url(d) /\ Origin(d)' = Origin(d)
  BY Places DEF Shape, Url, Origin
<1>6. /\ last' \in [Urls -> Statuses \cup {"none"}]
      /\ reply = <<>> => last' = last
      /\ reply # <<>> => last'[Url(c)] = reply[1].status
      /\ \A v \in Urls \ {Url(c)} : last'[v] = last[v]
  BY <1>5, SomeAnswer DEF Shape, HistoryShape
<1>7. /\ calm' \in [Urls -> Nat] /\ \A v \in Urls \ {Url(c)} : calm'[v] = calm[v]
      /\ \/ reply # <<>> /\ reply[1].status = "busy"
            /\ calm'[Url(c)] = clock + Larger(Minute, reply[1].retry)
         \/ calm'[Url(c)] = calm[Url(c)]
  <2>1. calm \in [Urls -> Nat] /\ clock \in Nat /\ Minute \in Nat
    BY TimesAssumption DEF Shape, TypeOK, HistoryShape
  <2>2. CASE reply # <<>> /\ reply[1].status = "busy"
    <3>1. PICK r \in Nat : r = reply[1].retry
      BY <2>2, SomeAnswer
    <3>2. PICK x \in Nat : x = Larger(Minute, r)
      BY <2>1, LargerBound
    <3> QED
      BY <1>5, <2>1, <2>2, <3>1, <3>2
  <2>3. CASE ~(reply # <<>> /\ reply[1].status = "busy")
    BY <2>1, <2>3
  <2> QED
    BY <2>2, <2>3
<1>8. Shape'
  BY <1>1, <1>4, <1>6, <1>7 DEF Shape, TypeOK, HistoryShape, Asking
<1>9. RouteInv'
  <2> SUFFICES ASSUME NEW d \in Callers, Asking(d), d # c
               PROVE  /\ call[d].route = "set" <=> Mode = "set"
                      /\ call[d].answer # <<>> =>
                           /\ call[d].route = "switched"
                           /\ call[d].answer[1].status = "blocked"
                           /\ last'[Url(d)] = "blocked"
                      /\ call[d].route = "direct" => proxyUntil'[Origin(d)] <= clock
    BY <1>1, <1>5 DEF RouteInv, Mode
  <2>1. /\ call[d].route = "set" <=> Mode = "set"
        /\ call[d].answer # <<>> =>
             /\ call[d].route = "switched"
             /\ call[d].answer[1].status = "blocked" /\ last[Url(d)] = "blocked"
        /\ call[d].route = "direct" => proxyUntil[Origin(d)] <= clock
    BY DEF RouteInv
  <2>2. Url(d) \in Urls /\ Origin(d) \in Origins
    BY Places DEF Shape
  <2>3. Mode = "fallback" => Url(d) # Url(c) /\ Origin(d) # Origin(c)
    BY AskersDiffer DEF Locked, Shape
  <2>4. Mode \in {"fallback", "set"}
    BY Places DEF Shape
  <2>5. call[d].answer # <<>> => last'[Url(d)] = "blocked"
    BY <1>6, <2>1, <2>2, <2>3, <2>4
  <2>6. call[d].route = "direct" => proxyUntil'[Origin(d)] <= clock
    BY <1>4, <2>1, <2>2, <2>3, <2>4
  <2> QED
    BY <2>1, <2>5, <2>6
<1>10. BackoffInv'
  <2> SUFFICES ASSUME NEW u \in Urls PROVE Settled(u)' \/ Trying(u)'
    BY DEF BackoffInv
  <2>0. Codes' = Codes
    BY DEF Codes
  <2>1. CASE u # Url(c)
    <3>1. last'[u] = last[u] /\ until'[u] = until[u]
      BY <1>4, <1>6, <2>1
    <3>2. Settled(u) => Settled(u)'
      BY <2>0, <3>1 DEF Settled
    <3>3. Trying(u) => Trying(u)'
      <4> SUFFICES ASSUME NEW d \in Callers, Asking(d), Url(d) = u, call[d].answer # <<>>
                   PROVE  Trying(u)'
        BY DEF Trying
      <4>1. d # c
        BY <2>1
      <4> QED
        BY <1>1, <1>5, <4>1 DEF Trying
    <3> QED
      BY <3>2, <3>3 DEF BackoffInv
  <2>2. CASE u = Url(c) /\ reply # <<>>
    BY <1>3, <1>4, <1>6, <2>0, <2>2 DEF Settled
  <2>3. CASE u = Url(c) /\ reply = <<>> /\ final # <<>>
    <3>1. final[1].status = "blocked" /\ last'[u] = "blocked"
      BY <1>3, <1>6, <2>3 DEF RouteInv
    <3> QED
      BY <1>4, <2>0, <2>3, <3>1 DEF Settled
  <2>4. CASE u = Url(c) /\ reply = <<>> /\ final = <<>>
    <3>1. ~Trying(u)
      <4> SUFFICES ASSUME NEW d \in Callers, Asking(d), Url(d) = u, call[d].answer # <<>>
                   PROVE  FALSE
        BY DEF Trying
      <4>1. call[d].route = "switched" /\ (call[d].route = "set" <=> Mode = "set")
        BY DEF RouteInv
      <4>2. Locked
        BY <4>1, Places DEF Locked, Shape
      <4>3. d = c
        BY <2>4, <4>2, AskersDiffer DEF Shape
      <4> QED
        BY <1>3, <2>4, <4>3
    <3>2. Settled(u)
      BY <3>1 DEF BackoffInv
    <3>3. last'[u] = last[u] /\ until'[u] = until[u]
      BY <1>4, <1>6, <2>4
    <3> QED
      BY <2>0, <3>2, <3>3 DEF Settled
  <2> QED
    BY <2>1, <2>2, <2>3, <2>4
<1>11. CalmInv'
  <2> SUFFICES ASSUME Apart
               PROVE  /\ \A u \in Urls : calm'[u] <= clock \/ calm'[u] <= until'[u]
                      /\ \A d \in Callers : Asking(d) /\ d # c => calm'[Url(d)] <= clock
    BY <1>1, <1>5 DEF CalmInv, Apart
  <2>1. calm[Url(c)] <= clock
    BY DEF CalmInv
  <2>2. ASSUME NEW u \in Urls PROVE calm'[u] <= clock \/ calm'[u] <= until'[u]
    <3>1. CASE u # Url(c)
      BY <1>4, <1>7, <3>1 DEF CalmInv
    <3>2. CASE u = Url(c) /\ calm'[u] = calm[u]
      BY <2>1, <3>2
    <3>3. CASE u = Url(c) /\ calm'[u] # calm[u]
      <4>1. reply # <<>> /\ reply[1].status = "busy" /\ final = reply
            /\ calm'[u] = clock + Larger(Minute, reply[1].retry)
        BY <1>3, <1>7, <3>3
      <4>2. PICK x \in Nat : x = calm'[u]
        BY <1>7
      <4>3. until'[u] >= x /\ until'[u] \in Nat
        BY <1>4, <3>3, <4>1, <4>2
      <4> QED
        BY <4>2, <4>3
    <3> QED
      BY <3>1, <3>2, <3>3
  <2>3. ASSUME NEW d \in Callers, Asking(d), d # c PROVE calm'[Url(d)] <= clock
    <3>1. Url(d) # Url(c)
      <4>1. CASE Locked
        BY <2>3, <4>1, AskersDiffer DEF Shape
      <4>2. CASE ~Locked
        BY <2>3, <4>2 DEF Apart, ApartIn, Locked, Mode, Codes, Url
      <4> QED
        BY <4>1, <4>2
    <3>2. Url(d) \in Urls /\ calm[Url(d)] <= clock
      BY <2>3, Places DEF CalmInv, Shape
    <3> QED
      BY <1>7, <3>1, <3>2
  <2> QED
    BY <2>2, <2>3
<1> QED
  BY <1>1, <1>8, <1>9, <1>10, <1>11

LEMMA ReplyStep ==
  ASSUME PolicyInv, NEW c \in Callers, NEW reply \in Replies, Reply(c, reply)
  PROVE  PolicyInv'
<1>1. Asking(c) /\ UNCHANGED <<setting, clock>>
  BY DEF Reply
<1>2. last' = IF reply = <<>> THEN last ELSE [last EXCEPT ![Url(c)] = reply[1].status]
  BY DEF Reply
<1>3. calm' = IF reply # <<>> /\ reply[1].status = "busy"
              THEN [calm EXCEPT ![Url(c)] = clock + Larger(Minute, reply[1].retry)]
              ELSE calm
  BY DEF Reply
<1>4. CASE reply = <<>> /\ call[c].left > 1
  BY <1>1, <1>2, <1>3, <1>4, RetryStep DEF Reply
<1>5. CASE ~(reply = <<>> /\ call[c].left > 1) /\ Switches(c, reply)
  <2>1. call' = [call EXCEPT ![c] = Ask("switched", 1, reply)]
        /\ UNCHANGED <<until, failures, proxyUntil, lock>>
    BY <1>5 DEF Reply
  <2>2. reply # <<>> => reply[1].status = "blocked"
    BY <1>5 DEF Switches
  <2>3. /\ last' = IF reply = <<>> THEN last ELSE [last EXCEPT ![Url(c)] = "blocked"]
        /\ calm' = calm
    BY <1>2, <1>3, <2>2
  <2> QED
    BY <1>1, <1>5, <2>1, <2>3, SwitchStep
<1>6. CASE ~(reply = <<>> /\ call[c].left > 1) /\ ~Switches(c, reply)
  <2>1. Conclude(c, Final(c, reply)) /\ Leave(c)
    BY <1>6 DEF Reply
  <2> QED
    BY <1>1, <1>2, <1>3, <2>1, LeaveStops, ConcludeStep
<1> QED
  BY <1>4, <1>5, <1>6

-----------------------------------------------------------------------------
(* The invariant holds. *)

LEMMA PolicyStart == Init => PolicyInv
<1> SUFFICES ASSUME Init PROVE PolicyInv
  OBVIOUS
<1> USE DEF Init
<1>1. \A c \in Callers : call[c] = Idle /\ ~Asking(c) /\ call[c].at = "idle"
  BY DEF Idle, Asking
<1>2. Shape
  BY <1>1, TimesAssumption
     DEF Shape, TypeOK, CallShape, LockShape, HistoryShape, Statuses
<1>3. Held /\ RouteInv
  BY <1>1 DEF Held, RouteInv
<1>4. BackoffInv
  <2>1. "none" \notin Codes
    BY SettingsAssumption DEF Codes
  <2> QED
    BY <2>1 DEF BackoffInv, Settled
<1>5. CalmInv
  BY <1>1 DEF CalmInv
<1> QED
  BY <1>2, <1>3, <1>4, <1>5 DEF PolicyInv

LEMMA PolicyStep == PolicyInv /\ [Next]_vars => PolicyInv'
<1> SUFFICES ASSUME PolicyInv, [Next]_vars PROVE PolicyInv'
  OBVIOUS
<1>0. Shape /\ Held
  BY DEF PolicyInv
<1>1. CASE Tick
  BY <1>1, TickStep
<1>2. ASSUME NEW c \in Callers, Request(c) PROVE PolicyInv'
  BY <1>0, <1>2, RequestBegins, BeginStep
<1>3. ASSUME NEW c \in Callers, Wait(c) PROVE PolicyInv'
  BY <1>3, WaitStep
<1>4. ASSUME NEW c \in Callers, Wake(c) PROVE PolicyInv'
  <2>1. CASE Resting(c)
    <3>1. Leave(c) /\ ~Asking(c)
          /\ UNCHANGED <<setting, clock, until, failures, proxyUntil, last, calm>>
      BY <1>4, <2>1 DEF Wake, Asking
    <3> QED
      BY <3>1, LeaveStops, QuitStep
  <2>2. CASE ~Resting(c)
    BY <1>0, <1>4, <2>2, WakeBegins, BeginStep
  <2> QED
    BY <2>1, <2>2
<1>5. ASSUME NEW c \in Callers, NEW reply \in Replies, Reply(c, reply) PROVE PolicyInv'
  BY <1>5, ReplyStep
<1>6. ASSUME NEW c \in Callers, Cancel(c) PROVE PolicyInv'
  <2>1. /\ Leave(c)
        /\ UNCHANGED <<setting, clock, until, failures, proxyUntil, calm>>
        /\ last' = IF Asking(c) THEN [last EXCEPT ![Url(c)] = "none"] ELSE last
    BY <1>6 DEF Cancel
  <2> QED
    BY <2>1, LeaveStops, QuitStep
<1>7. CASE UNCHANGED vars
  <2> USE <1>7 DEF vars, PolicyInv
  <2>1. Shape'
    BY DEF Shape, TypeOK, CallShape, LockShape, HistoryShape, Asking
  <2>2. Held'
    BY DEF Held, Locked, Key, Mode, Codes, Asking, Origin, Url
  <2>3. RouteInv'
    BY DEF RouteInv, Mode, Asking, Origin, Url
  <2>4. BackoffInv'
    BY DEF BackoffInv, Settled, Trying, Codes, Asking, Url
  <2>5. CalmInv'
    BY DEF CalmInv, Apart, Asking, Url
  <2> QED
    BY <2>1, <2>2, <2>3, <2>4, <2>5
<1> QED
  BY <1>1, <1>2, <1>3, <1>4, <1>5, <1>6, <1>7 DEF Next, Step

THEOREM PolicyInvHolds == Spec => []PolicyInv
BY PolicyStart, PolicyStep, PTL DEF Spec

\* A URL that is not being asked has a backoff if its last answer was a 429 or
\* another blocking status, also when the proxy could not be reached after it,
\* and none if a page came.
THEOREM BackoffFollows == Spec => []BackoffFollowsAnswers
<1>1. PolicyInv => BackoffFollowsAnswers
  BY DEF PolicyInv, Shape, BackoffInv, Settled, Trying, BackoffFollowsAnswers
<1> QED
  BY <1>1, PolicyInvHolds, PTL

-----------------------------------------------------------------------------
(* When a request is sent. *)

LEMMA StartsOf ==
  ASSUME PolicyInv, [Next]_vars, NEW c \in Callers, Starts(c)
  PROVE  \/ Begins(c)
         \/ Asking(c) /\ (call'[c].route = "direct" => call[c].route = "direct")
<1>0. Shape /\ Held
  BY DEF PolicyInv
<1>1. CASE Tick
  BY <1>1 DEF Tick, Starts
<1>2. ASSUME NEW d \in Callers, Request(d)
      PROVE  Begins(c)
  <2>1. Begins(d)
    BY <1>0, <1>2, RequestBegins
  <2> QED
    BY <1>0, <2>1 DEF Begins, Starts, Shape, CallShape
<1>3. ASSUME NEW d \in Callers, Wait(d) PROVE FALSE
  <2>1. PICK l : call' = [call EXCEPT ![d] = Waiting(l)]
    BY <1>3 DEF Wait
  <2> QED
    BY <1>0, <2>1 DEF Starts, Waiting, Shape, CallShape
<1>4. ASSUME NEW d \in Callers, Wake(d) PROVE Begins(c)
  <2>1. CASE Resting(d)
    <3>1. call' = [call EXCEPT ![d] = Idle]
      BY <1>4, <2>1 DEF Wake, Leave
    <3> QED
      BY <1>0, <3>1 DEF Starts, Idle, Shape, CallShape
  <2>2. CASE ~Resting(d)
    <3>1. Begins(d)
      BY <1>0, <1>4, <2>2, WakeBegins
    <3> QED
      BY <1>0, <3>1 DEF Begins, Starts, Shape, CallShape
  <2> QED
    BY <2>1, <2>2
<1>5. ASSUME NEW d \in Callers, NEW reply \in Replies, Reply(d, reply)
      PROVE  Asking(c) /\ (call'[c].route = "direct" => call[c].route = "direct")
  <2>1. \/ call' = [call EXCEPT ![d].left = @ - 1]
        \/ call' = [call EXCEPT ![d] = Ask("switched", 1, reply)]
        \/ call' = [call EXCEPT ![d] = Idle]
    BY <1>5 DEF Reply, Leave
  <2>2. d = c /\ Asking(c)
    BY <1>0, <1>5, <2>1 DEF Reply, Starts, Shape, CallShape
  <2>3. call[c] \in [at : {"asking"}, route : Routes, left : Nat, answer : Replies]
    BY <1>0, <2>2 DEF Shape, CallShape, Asking, Idle
  <2>4. CASE call' = [call EXCEPT ![d].left = @ - 1]
    BY <1>0, <2>2, <2>3, <2>4 DEF Shape, CallShape
  <2>5. CASE call' = [call EXCEPT ![d] = Ask("switched", 1, reply)]
    BY <1>0, <2>2, <2>5 DEF Ask, Shape, CallShape
  <2>6. CASE call' = [call EXCEPT ![d] = Idle]
    BY <1>0, <2>2, <2>6 DEF Starts, Idle, Shape, CallShape
  <2> QED
    BY <2>1, <2>2, <2>4, <2>5, <2>6
<1>6. ASSUME NEW d \in Callers, Cancel(d) PROVE FALSE
  <2>1. call' = [call EXCEPT ![d] = Idle]
    BY <1>6 DEF Cancel, Leave
  <2> QED
    BY <1>0, <2>1 DEF Starts, Idle, Shape, CallShape
<1>7. CASE UNCHANGED vars
  BY <1>7 DEF vars, Starts
<1> QED
  BY <1>1, <1>2, <1>3, <1>4, <1>5, <1>6, <1>7 DEF Next, Step

\* While the proxy's time runs, no request to the origin is sent directly: not
\* one that had been waiting since before, and not a second attempt.
THEOREM NoDirectWhileProxied == Spec => NoDirectInWindow
<1>1. PolicyInv /\ [Next]_vars =>
        [\A c \in Callers :
           Starts(c) /\ call'[c].route = "direct" => clock >= proxyUntil[Origin(c)]]_vars
  <2> SUFFICES ASSUME PolicyInv, [Next]_vars, NEW c \in Callers,
                      Starts(c), call'[c].route = "direct"
               PROVE  clock >= proxyUntil[Origin(c)]
    OBVIOUS
  <2>0. Shape /\ RouteInv
    BY DEF PolicyInv
  <2>1. clock \in Nat /\ proxyUntil[Origin(c)] \in Nat
    BY <2>0, Places DEF Shape, TypeOK
  <2>2. CASE Begins(c)
    <3>1. call'[c] = First(c)
      BY <2>0, <2>2 DEF Begins, Shape, CallShape
    <3> QED
      BY <2>0, <2>1, <3>1, FirstAsks DEF Shape
  <2>3. CASE Asking(c) /\ call[c].route = "direct"
    BY <2>0, <2>1, <2>3 DEF RouteInv
  <2> QED
    BY <2>2, <2>3, StartsOf
<1> QED
  BY <1>1, PolicyInvHolds, PTL DEF Spec, NoDirectInWindow

\* After a 429 the URL is left alone for as long as the site asks, if requests
\* for it come one at a time.
THEOREM QuietAfterTooMany ==
  ASSUME \A s \in Settings : ApartIn(s)
  PROVE  Spec => QuietAfterBusy
<1>1. PolicyInv /\ [Next]_vars =>
        [\A c \in Callers : Starts(c) => clock >= calm[Url(c)]]_vars
  <2> SUFFICES ASSUME PolicyInv, [Next]_vars, NEW c \in Callers, Starts(c)
               PROVE  clock >= calm[Url(c)]
    OBVIOUS
  <2>0. Shape /\ CalmInv
    BY DEF PolicyInv
  <2>1. Apart
    BY <2>0 DEF Apart, Shape, TypeOK
  <2>2. /\ Url(c) \in Urls /\ clock \in Nat
        /\ calm[Url(c)] \in Nat /\ until[Url(c)] \in Nat
    BY <2>0, Places DEF Shape, TypeOK, HistoryShape
  <2>3. CASE Begins(c)
    <3>1. ~(until[Url(c)] > clock)
      BY <2>3 DEF Begins, Resting
    <3>2. calm[Url(c)] <= clock \/ calm[Url(c)] <= until[Url(c)]
      BY <2>0, <2>1, <2>2 DEF CalmInv
    <3> QED
      BY <2>2, <3>1, <3>2
  <2>4. CASE Asking(c)
    BY <2>0, <2>1, <2>2, <2>4 DEF CalmInv
  <2> QED
    BY <2>3, <2>4, StartsOf
<1> QED
  BY <1>1, PolicyInvHolds, PTL DEF Spec, QuietAfterBusy
=============================================================================
