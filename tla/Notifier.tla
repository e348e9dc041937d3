------------------------------ MODULE Notifier ------------------------------
(***************************************************************************)
(* The notification path end to end: one crawler's diff (Crawling), the    *)
(* dispatch of its result to a bot, and the bot's consumer (Bot) working   *)
(* off the queue against Telegram while the next cycles come in.           *)
(*                                                                         *)
(* A cycle has two steps.  _crawling compares the page, changes the cached *)
(* dicts in place and forgets expired messages; the database is saved with *)
(* awaits in between; then send() puts the jobs without suspending.        *)
(***************************************************************************)
EXTENDS Crawling, Bot, SequencesExt

CONSTANT MaxCycles      \* bound on the pages fetched

ASSUME MaxCyclesAssumption == MaxCycles \in Nat
ASSUME PostsAreIds == Posts = Ids /\ Texts = Versions

VARIABLES
  cycles,       \* pages fetched so far
  crawled,      \* whether a cycle is between crawling() and send()
  newest,       \* history: the newest content a page showed of a post, or 0
  announced,    \* history: posts ever reported as new
  lost,         \* history: posts a request of which failed for good
  repeated      \* history: posts whose send was carried out and stopped late

cycle == <<cycles, crawled, newest, announced>>
troubles == <<lost, repeated>>
notifierVars == <<vars, botVars, cycle, troubles>>

-----------------------------------------------------------------------------
NotifierInit ==
  /\ Init /\ tombstones = {}
  /\ BotInit
  /\ cycles = 0 /\ crawled = FALSE
  /\ newest = [i \in Ids |-> 0] /\ announced = {}
  /\ lost = {} /\ repeated = {}

\* The pages of a list whose posts change for the newer only and do not come
\* back once the list has moved past them (Crawling has all the other pages).
Plausible(page) ==
  /\ DOMAIN page \cap dropped = {}
  /\ \A i \in DOMAIN page : page[i] >= newest[i]

\* crawling(): on a first page _crawling returns before it touches the bots.
Compare(page) ==
  /\ ~crawled /\ cycles < MaxCycles
  /\ Plausible(page)
  /\ Crawl(page)
  /\ IF DOMAIN cache = {} THEN UNCHANGED botVars
     ELSE Refresh(Below(Ids, page), Staying(page), page)
  /\ cycles' = cycles + 1
  /\ crawled' = TRUE
  /\ newest' = [i \in Ids |-> IF i \in DOMAIN page THEN page[i] ELSE newest[i]]
  /\ announced' = announced \cup news'
  /\ UNCHANGED troubles

\* Broken: an edit job holds a copy of the article made before the change.
JobsForCopies(op, posts) ==
  [k \in 1 .. Len(posts) |->
     [op |-> op, post |-> posts[k], live |-> op = "send",
      text |-> IF posts[k] \in DOMAIN cache /\ op = "send" THEN cache[posts[k]]
               ELSE CHOOSE v \in Versions : \A w \in Versions : v <= w]]

\* The jobs for the posts of a result list.  The article of a new post is the
\* cached dict, that of a changed or removed one is the dict it replaced.
JobsFor(op, posts) ==
  [k \in 1 .. Len(posts) |->
     [op |-> op, post |-> posts[k], live |-> op = "send",
      text |-> IF posts[k] \in DOMAIN cache THEN cache[posts[k]]
               ELSE CHOOSE v \in Versions : TRUE]]

\* send(): the new posts first, then the changed, then the removed, each in the
\* order of the page they were found on.
Dispatch ==
  /\ crawled
  /\ \E new \in SetToSeqs(news), update \in SetToSeqs(updates), remove \in SetToSeqs(removals) :
       Enqueue(JobsFor("send", new) \o JobsFor("edit", update) \o JobsFor("delete", remove))
  /\ crawled' = FALSE
  /\ UNCHANGED <<vars, cycles, newest, announced, troubles>>

Consumer == Work /\ UNCHANGED <<vars, cycle, troubles>>

\* A timeout or another error drops the job.  A consumer stopped once Telegram
\* has acted on a send carries it out again.
Disturbance ==
  /\ Trouble
  /\ lost' = lost \cup {j.post : j \in IF consumer' = "waiting" THEN ToSet(job) ELSE {}}
  /\ repeated' = repeated \cup
       {j.post : j \in {i \in ToSet(job) : i.op = "send" /\ consumer = "answering"
                                          /\ consumer' = "stopped"}}
  /\ UNCHANGED <<vars, cycle>>

NotifierNext ==
  \/ \E page \in Pages : Compare(page)
  \/ Dispatch
  \/ Consumer
  \/ Disturbance

\* A cycle that has crawled goes on to send, and the consumer works.
NotifierFairness == WF_notifierVars(Dispatch) /\ WF_notifierVars(Consumer)

NotifierSpec ==
  NotifierInit /\ [][NotifierNext]_notifierVars /\ NotifierFairness

-----------------------------------------------------------------------------
(* Properties *)

\* The bot's state stays well-formed in the pipeline, jobs name real posts.
NotifierTypeOK ==
  /\ TypeOK
  /\ cycles \in 0 .. MaxCycles /\ crawled \in BOOLEAN
  /\ newest \in [Ids -> Nat] /\ announced \subseteq seen
  /\ lost \subseteq announced /\ repeated \subseteq announced

Cards(p) == {m \in DOMAIN channel : channel[m].post = p /\ channel[m].up}

\* A message never goes back to an older text of its post: not by a queued
\* job that shares a dict with the cache, not by a retry, not by a repeat.
NoRegress ==
  [][\A m \in DOMAIN channel : channel'[m].text >= channel[m].text]_notifierVars

\* A post has at most one message in the channel, whatever failed, timed out or
\* was stopped, except when a send was stopped after Telegram had acted on it, or
\* when the tombstone limit let the diff forget the post.
AtMostOneCard ==
  /\ NotifierTypeOK
  /\ \A p \in Ids \ (repeated \cup evicted) : Cardinality(Cards(p)) <= 1

\* Once pages stop coming, every announced post still listed has a message
\* that shows its latest text, and a post reported as removed that the list has
\* not moved past has none; unless a request of it failed for good, a delete put
\* off by RetryAfter included, or its send was stopped late and repeated.
CardsInStep ==
  /\ \A p \in (announced \cap DOMAIN cache) \ (tombstones \cup lost) :
       \E m \in Cards(p) : channel[m].text = cache[p]
  /\ \A p \in tombstones \ (lost \cup repeated) : Cards(p) = {}

Converges == <>[]CardsInStep

\* The message of a post reported as removed is taken down.
WithdrawnTakenDown == \A p \in Ids : p \in removals ~> Cards(p) = {}
=============================================================================
