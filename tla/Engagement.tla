----------------------------- MODULE Engagement -----------------------------
(***************************************************************************)
(* The comment and recommendation counts of one announced post, and the    *)
(* message that shows them.  Counts alone change a message only when it    *)
(* has not been touched for ENGAGEMENT_UPDATE_INTERVAL_SECONDS; a change   *)
(* of the "best" mark, or of title, price and state, does so at once.      *)
(*                                                                         *)
(* A cycle comes every minute.  Its stats are <<>> (the list shows none)   *)
(* or <<stats>>.  The send job shares the cached dict until the next cycle *)
(* has changed that dict in place; an edit job shows what its cycle saw.   *)
(***************************************************************************)
EXTENDS Naturals, Sequences

CONSTANTS Counts,        \* (recommend, comment_count)
          Interval,      \* ENGAGEMENT_UPDATE_INTERVAL_SECONDS, in cycles
          MaxJobs,       \* jobs of the post that wait before a cycle, plus one
          MaxRestarts    \* bound

ASSUME CountsAssumption == Counts # {}
ASSUME IntervalAssumption == Interval \in Nat \ {0}
ASSUME JobsAssumption == MaxJobs \in Nat \ {0} /\ MaxRestarts \in Nat

Stats == [count : Counts, best : BOOLEAN]
Shown == {<<>>} \cup {<<s>> : s \in Stats}

VARIABLES
  cached,     \* _engagement(article_cache[name][id])
  timer,      \* engagement_state: <<>>, or its age in cycles and last_stats
  queue,      \* jobs of the post: what they show, and whether they share
  message,    \* what the message shows; <<>> before it is sent
  quiet,      \* history: cycles since the last job was put, up to Interval
  other,      \* history: the last cycle saw another title, price or state
  odd,        \* parity of the minute: a cycle that changes nothing is a step too
  restarts

vars == <<cached, timer, queue, message, quiet, other, odd, restarts>>

-----------------------------------------------------------------------------
\* The cycle that announces the post.
Init ==
  /\ cached \in Shown
  /\ timer = IF cached = <<>> THEN <<>> ELSE <<[age |-> 0, stats |-> cached]>>
  /\ queue = <<[shows |-> cached, shares |-> TRUE]>>
  /\ message = <<>>
  /\ quiet = 0 /\ other = FALSE /\ odd = FALSE /\ restarts = 0

Older(age) == IF age < Interval THEN age + 1 ELSE age

\* setdefault(article_id, (now, None)), one cycle after the last.
Timer == IF timer = <<>> THEN [age |-> 0, stats |-> <<>>]
         ELSE [timer[1] EXCEPT !.age = Older(@)]

\* Broken: counts are compared with the cache; or the interval is not awaited.
DueByCache(s) ==
  /\ s # <<>>
  /\ \/ cached = <<>>
     \/ cached # <<>> /\ cached[1].best # s[1].best
     \/ s # cached /\ Timer.age >= Interval
DueAtOnce(s) ==
  /\ s # <<>>
  /\ \/ cached = <<>>
     \/ cached # <<>> /\ cached[1].best # s[1].best
     \/ s # Timer.stats

\* stats_due
Due(s) ==
  /\ s # <<>>
  /\ \/ cached = <<>>
     \/ cached # <<>> /\ cached[1].best # s[1].best
     \/ s # Timer.stats /\ Timer.age >= Interval

\* article.update(new_article), then the cache holds another dict.
Refreshed(s) ==
  [k \in DOMAIN queue |->
     [shows |-> IF queue[k].shares THEN s ELSE queue[k].shows, shares |-> FALSE]]

\* The comparison of a listed post, with the edit job that send() puts.
Cycle(s, changed) ==
  /\ Len(queue) < MaxJobs
  /\ LET update == changed \/ Due(s) IN
       /\ timer' = IF s = <<>> THEN (IF timer = <<>> THEN timer ELSE <<Timer>>)
                   ELSE <<IF update THEN [age |-> 0, stats |-> s] ELSE Timer>>
       /\ queue' = IF update
                   THEN Append(Refreshed(s), [shows |-> s, shares |-> FALSE])
                   ELSE Refreshed(s)
       /\ quiet' = IF update THEN 0 ELSE Older(quiet)
  /\ cached' = s
  /\ other' = changed
  /\ odd' = ~odd
  /\ UNCHANGED <<message, restarts>>

\* A cycle that gets no list.
Miss ==
  /\ timer' = IF timer = <<>> THEN timer ELSE <<Timer>>
  /\ quiet' = Older(quiet)
  /\ other' = FALSE
  /\ odd' = ~odd
  /\ UNCHANGED <<cached, queue, message, restarts>>

\* The bot carries out the next job.
Deliver ==
  /\ queue # <<>>
  /\ message' = Head(queue).shows
  /\ queue' = Tail(queue)
  /\ UNCHANGED <<cached, timer, quiet, other, odd, restarts>>

\* A shutdown and a start from its dump: the state of the timer is cleared.
Restart ==
  /\ restarts < MaxRestarts
  /\ restarts' = restarts + 1
  /\ timer' = <<>>
  /\ queue' = [k \in DOMAIN queue |-> [queue[k] EXCEPT !.shares = FALSE]]
  /\ UNCHANGED <<cached, message, quiet, other, odd>>

Crawl == \E s \in Shown, changed \in BOOLEAN : Cycle(s, changed)

Next == Crawl \/ Miss \/ Deliver \/ Restart

\* Cycles go on, and the bot works off its queue.
Spec == Init /\ [][Next]_vars /\ WF_vars(Crawl) /\ WF_vars(Deliver)

-----------------------------------------------------------------------------
(* Properties *)

\* Shape of the state; a cycle puts at most one job for the post.
TypeOK ==
  /\ cached \in Shown /\ message \in Shown
  /\ timer = <<>> \/ timer[1] \in [age : 0 .. Interval, stats : Shown]
  /\ queue \in Seq([shows : Shown, shares : BOOLEAN]) /\ Len(queue) <= MaxJobs
  /\ quiet \in 0 .. Interval /\ other \in BOOLEAN
  /\ odd \in BOOLEAN /\ restarts \in 0 .. MaxRestarts

\* A change of the counts alone touches the message only when the last
\* notification is Interval old, also across restarts and missed cycles.
CountsWait ==
  /\ []TypeOK
  /\ [][Crawl /\ quiet' = 0 /\ ~other'
          /\ cached # <<>> /\ cached'[1].best = cached[1].best
          => Older(quiet) = Interval]_vars

\* Counts that stay as they are reach the message, also when they changed
\* while the interval ran or the process restarted.
CountsArrive ==
  \A s \in Stats : <>[](cached = <<s>>) => <>[](message = <<s>>)
=============================================================================
