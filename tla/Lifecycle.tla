----------------------------- MODULE Lifecycle ------------------------------
(***************************************************************************)
(* The life of the bot process: startup from the dump, crawling cycles,    *)
(* configuration reloads (SIGHUP), shutdown with a final dump, and crashes *)
(* in between.  Cycles, reloads and the shutdown share one asyncio.Lock;   *)
(* the bots' consumers run beside all of them.                             *)
(*                                                                         *)
(* Articles are posts 1, 2, ...: the manager knows a set of them, and a    *)
(* new one is one send job for every bot.  What a job does to Telegram is  *)
(* Bot's subject; here it is delivered in one step.                        *)
(***************************************************************************)
EXTENDS Naturals, Sequences, FiniteSets, SequencesExt

CONSTANTS NBots,        \* bots in the configuration, in its order 1 .. NBots
          Outcomes,     \* what a reload may find in the configuration
          MaxPosts, MaxReloads, MaxCrashes, MaxStarts, MaxFailures   \* bounds

ASSUME NBotsAssumption == NBots \in Nat \ {0}
ASSUME OutcomesAssumption ==
  Outcomes \subseteq
    {"same",        \* every bot unchanged
     "missing",     \* no file, or one that does not parse
     "badCrawler",  \* init_crawlers raises
     "badBot",      \* init_bots raises at a new entry that stands before some bot
     "changed",     \* some bot has other kwargs
     "disabled"}    \* some bot is disabled or removed
ASSUME BoundsAssumption ==
  {MaxPosts, MaxReloads, MaxCrashes, MaxStarts, MaxFailures} \subseteq Nat /\ MaxPosts # 0

Bots == 1 .. NBots
Posts == 1 .. MaxPosts

VARIABLES
  proc,       \* "down", "starting" (init_session under way), "up"
  stopping,   \* SIGTERM or SIGINT was received
  closed,     \* BotManager.closed
  holder,     \* who has _run_lock: "none", "cycle", "reload", "close"
  waiters,    \* who waits for it, in order
  stage,      \* how far the holder is
  known,      \* article_cache and article_tombstones
  fresh,      \* result["new"] of the running cycle
  active,     \* self.bots
  running,    \* bots whose consumer task is alive
  queue, job, \* of each bot: the jobs that wait, and the one in flight
  snapshot,   \* the queues a dump has collected, by bot
  disk        \* dump.json: <<>> or one record

VARIABLES
  posted,     \* posts the board has so far
  starts, reloads, crashes, failures,    \* how often; bounded
  delivered, twice,   \* history, by bot: posts sent, posts sent again
  silent,     \* history: posts found by a first crawl, never to be announced
  lapsed,     \* history: the process ended without a successful dump
  renewed     \* history: bots a reload has replaced or left out

tasks == <<holder, waiters, stage>>
manager == <<known, fresh, active>>
bots == <<running, queue, job>>
counts == <<starts, reloads, crashes, failures>>
past == <<delivered, twice, silent, lapsed, renewed>>
vars == <<proc, stopping, closed, tasks, manager, bots, snapshot, disk,
          posted, counts, past>>

Empty == [b \in Bots |-> <<>>]

-----------------------------------------------------------------------------
(* The process *)

Memory(fill) ==
  /\ holder' = "none" /\ waiters' = <<>> /\ stage' = "idle"
  /\ known' = {} /\ fresh' = {} /\ active' = fill
  /\ running' = fill /\ queue' = Empty /\ job' = Empty
  /\ snapshot' = <<>>
  /\ stopping' = FALSE /\ closed' = FALSE

Init ==
  /\ proc = "down" /\ stopping = FALSE /\ closed = FALSE
  /\ holder = "none" /\ waiters = <<>> /\ stage = "idle"
  /\ known = {} /\ fresh = {} /\ active = {}
  /\ running = {} /\ queue = Empty /\ job = Empty
  /\ snapshot = <<>> /\ disk = <<>>
  /\ posted = 1
  /\ starts = 0 /\ reloads = 0 /\ crashes = 0 /\ failures = 0
  /\ delivered = [b \in Bots |-> {}] /\ twice = [b \in Bots |-> {}]
  /\ silent = {} /\ lapsed = FALSE /\ renewed = {}

\* load_config: the bots exist and their consumers run before the dump is read.
Start ==
  /\ proc = "down" /\ starts < MaxStarts
  /\ starts' = starts + 1
  /\ proc' = "starting"
  /\ Memory(Bots)
  /\ UNCHANGED <<disk, posted, reloads, crashes, failures, past>>

\* load_data, and with it the end of init_session.
Load ==
  /\ proc = "starting"
  /\ proc' = "up"
  /\ IF disk = <<>> THEN UNCHANGED <<known, queue>>
     ELSE known' = disk[1].known /\ queue' = disk[1].queue
  /\ UNCHANGED <<stopping, closed, tasks, fresh, active, running, job, snapshot,
                 disk, posted, counts, past>>

\* Broken: close() saves although startup is incomplete.
AbortStartupSaving ==
  /\ proc = "starting"
  /\ proc' = "down"
  /\ Memory({})
  /\ disk' = <<[known |-> known, queue |-> queue]>>
  /\ UNCHANGED <<posted, counts, past>>

\* init_session raises, or a signal came before it ended: close(save_state=False)
\* closes what there is and leaves the dump alone.
AbortStartup ==
  /\ proc = "starting"
  /\ proc' = "down"
  /\ Memory({})
  /\ UNCHANGED <<disk, posted, counts, past>>

Signal ==
  /\ proc # "down" /\ ~stopping
  /\ stopping' = TRUE
  /\ UNCHANGED <<proc, closed, tasks, manager, bots, snapshot, disk, posted,
                 counts, past>>

Crash ==
  /\ proc # "down" /\ crashes < MaxCrashes
  /\ crashes' = crashes + 1
  /\ proc' = "down"
  /\ lapsed' = TRUE
  /\ Memory({})
  /\ UNCHANGED <<disk, posted, starts, reloads, failures, delivered, twice, silent,
                 renewed>>

\* _run_application ends: tasks that still wait for the lock are cancelled.
Exit ==
  /\ proc = "up" /\ closed /\ holder # "close"
  /\ proc' = "down"
  /\ Memory({})
  /\ UNCHANGED <<disk, posted, counts, past>>

-----------------------------------------------------------------------------
(* The lock: FIFO, and free for a moment before the first waiter runs. *)

Acquire(task, first) ==
  IF holder = "none" /\ waiters = <<>>
  THEN holder' = task /\ stage' = first /\ UNCHANGED waiters
  ELSE waiters' = Append(waiters, task) /\ UNCHANGED <<holder, stage>>

FirstStage(task) == IF task = "cycle" THEN "crawl" ELSE "collect"

Wake ==
  /\ holder = "none" /\ waiters # <<>>
  /\ holder' = Head(waiters) /\ stage' = FirstStage(Head(waiters))
  /\ waiters' = Tail(waiters)
  /\ UNCHANGED <<proc, stopping, closed, manager, bots, snapshot, disk, posted,
                 counts, past>>

Release == holder' = "none" /\ stage' = "idle" /\ UNCHANGED waiters

\* The 60-second loop starts _run, which returns when the lock is held.
ScheduleCycle ==
  /\ proc = "up" /\ ~closed
  /\ holder = "none" /\ ~Contains(waiters, "cycle")
  /\ Acquire("cycle", "crawl")
  /\ UNCHANGED <<proc, stopping, closed, manager, bots, snapshot, disk, posted,
                 counts, past>>

\* SIGHUP
RequestReload ==
  /\ proc = "up" /\ ~stopping /\ reloads < MaxReloads
  /\ reloads' = reloads + 1
  /\ Acquire("reload", "collect")
  /\ UNCHANGED <<proc, stopping, closed, manager, bots, snapshot, disk, posted,
                 starts, crashes, failures, past>>

\* Broken: like a cycle, close() gives up when the lock is held.
RequestCloseWhenFree ==
  /\ proc = "up" /\ stopping /\ ~closed
  /\ holder = "none" /\ waiters = <<>>
  /\ Acquire("close", "collect")
  /\ UNCHANGED <<proc, stopping, closed, manager, bots, snapshot, disk, posted,
                 counts, past>>

\* The main task leaves its wait and calls close().
RequestClose ==
  /\ proc = "up" /\ stopping /\ ~closed
  /\ holder # "close" /\ ~Contains(waiters, "close")
  /\ Acquire("close", "collect")
  /\ UNCHANGED <<proc, stopping, closed, manager, bots, snapshot, disk, posted,
                 counts, past>>

\* A cycle or a reload that gets the lock after close() finds closed set.
TooLate ==
  /\ holder \in {"cycle", "reload"} /\ closed
  /\ Release
  /\ UNCHANGED <<proc, stopping, closed, manager, bots, snapshot, disk, posted,
                 counts, past>>

-----------------------------------------------------------------------------
(* A crawling cycle *)

PostArticle ==
  /\ posted < MaxPosts
  /\ posted' = posted + 1
  /\ UNCHANGED <<proc, stopping, closed, tasks, manager, bots, snapshot, disk,
                 counts, past>>

\* crawling(): what the cache does not know is new, unless the cache is empty.
Crawl ==
  /\ holder = "cycle" /\ ~closed /\ stage = "crawl"
  /\ known' = 1 .. posted
  /\ fresh' = IF known = {} THEN {} ELSE (1 .. posted) \ known
  /\ silent' = IF known = {} THEN silent \cup (1 .. posted) ELSE silent
  /\ stage' = "send"
  /\ UNCHANGED <<proc, stopping, closed, holder, waiters, active, bots, snapshot,
                 disk, posted, counts, delivered, twice, lapsed,
                 renewed>>

\* No page came, or the crawler was left out by a reload that failed.
CrawlNothing ==
  /\ holder = "cycle" /\ ~closed /\ stage = "crawl"
  /\ stage' = "send"
  /\ UNCHANGED <<proc, stopping, closed, holder, waiters, manager, bots, snapshot,
                 disk, posted, counts, past>>

\* crawling() fails as a whole: the cycle ends with the exception logged.
CrawlFails ==
  /\ holder = "cycle" /\ ~closed /\ stage = "crawl" /\ failures < MaxFailures
  /\ failures' = failures + 1
  /\ Release
  /\ UNCHANGED <<proc, stopping, closed, manager, bots, snapshot, disk, posted,
                 starts, reloads, crashes, past>>

\* send(), after the awaits of the database steps: every bot gets the new posts
\* in the order of the page.
SendAll ==
  /\ holder = "cycle" /\ ~closed /\ stage = "send"
  /\ \E new \in SetToSeqs(fresh) :
       queue' = [b \in Bots |-> IF b \in active THEN queue[b] \o new ELSE queue[b]]
  /\ running' = running \cup active
  /\ fresh' = {}
  /\ Release
  /\ UNCHANGED <<proc, stopping, closed, known, active, job, snapshot, disk,
                 posted, counts, past>>

-----------------------------------------------------------------------------
(* The bots' consumers *)

TakeJob(b) ==
  /\ b \in running /\ job[b] = <<>> /\ queue[b] # <<>>
  /\ job' = [job EXCEPT ![b] = <<Head(queue[b])>>]
  /\ queue' = [queue EXCEPT ![b] = Tail(@)]
  /\ UNCHANGED <<proc, stopping, closed, tasks, manager, running, snapshot, disk,
                 posted, counts, past>>

Deliver(b) ==
  /\ b \in running /\ job[b] # <<>>
  /\ twice' = [twice EXCEPT ![b] = @ \cup (delivered[b] \cap {job[b][1]})]
  /\ delivered' = [delivered EXCEPT ![b] = @ \cup {job[b][1]}]
  /\ job' = [job EXCEPT ![b] = <<>>]
  /\ UNCHANGED <<proc, stopping, closed, tasks, manager, running, queue, snapshot,
                 disk, posted, counts, silent, lapsed, renewed>>

\* Broken: the consumer goes on.
StopConsumerNot(b) ==
  /\ UNCHANGED running
  /\ queue' = [queue EXCEPT ![b] = job[b] \o @]
  /\ job' = [job EXCEPT ![b] = <<>>]

\* stop_consumer(): an unfinished job returns to the front of its queue.
StopConsumer(b) ==
  /\ running' = running \ {b}
  /\ queue' = [queue EXCEPT ![b] = job[b] \o @]
  /\ job' = [job EXCEPT ![b] = <<>>]

-----------------------------------------------------------------------------
(* A dump, within a reload or the shutdown *)

Dumping == holder \in {"reload", "close"} /\ (holder = "reload" => ~closed)

\* _close_locked sets closed before it closes the crawlers and the bots.
BeginClose ==
  /\ holder = "close" /\ ~closed
  /\ closed' = TRUE
  /\ UNCHANGED <<proc, stopping, tasks, manager, bots, snapshot, disk, posted,
                 counts, past>>

Collected == DOMAIN snapshot

\* Broken: the queue is copied before the consumer is stopped.
CollectFirst(b) ==
  /\ Dumping /\ stage = "collect" /\ (holder = "close" => closed)
  /\ b \in active \ Collected /\ \A c \in active \ Collected : b <= c
  /\ StopConsumer(b)
  /\ snapshot' = [c \in Collected \cup {b} |-> IF c = b THEN queue[b] ELSE snapshot[c]]
  /\ UNCHANGED <<proc, stopping, closed, tasks, manager, disk, posted, counts, past>>

\* to_dict() of the next bot: its consumer is stopped, then its queue copied.
Collect(b) ==
  /\ Dumping /\ stage = "collect" /\ (holder = "close" => closed)
  /\ b \in active \ Collected /\ \A c \in active \ Collected : b <= c
  /\ StopConsumer(b)
  /\ snapshot' = [c \in Collected \cup {b} |->
                    IF c = b THEN job[b] \o queue[b] ELSE snapshot[c]]
  /\ UNCHANGED <<proc, stopping, closed, tasks, manager, disk, posted, counts, past>>

\* The temporary file is written and synced.
WriteTemp ==
  /\ Dumping /\ stage = "collect" /\ (holder = "close" => closed)
  /\ active \subseteq Collected
  /\ stage' = "replace"
  /\ UNCHANGED <<proc, stopping, closed, holder, waiters, manager, bots, snapshot,
                 disk, posted, counts, past>>

\* A bot that was not in self.bots is not in the file.
Saved == [known |-> known,
          queue |-> [b \in Bots |-> IF b \in Collected THEN snapshot[b] ELSE <<>>]]

\* Broken: a reload resumes the consumers before it reads the configuration.
ReplaceResuming ==
  /\ Dumping /\ stage = "replace"
  /\ disk' = <<Saved>>
  /\ snapshot' = <<>>
  /\ running' = IF closed THEN running ELSE running \cup active
  /\ IF holder = "close" THEN Release
     ELSE stage' = "config" /\ UNCHANGED <<holder, waiters>>
  /\ UNCHANGED <<proc, stopping, closed, manager, queue, job, posted, counts, past>>

\* os.replace puts the file in place; a reload goes on with its consumers
\* stopped, the shutdown is complete.
Replace ==
  /\ Dumping /\ stage = "replace"
  /\ disk' = <<Saved>>
  /\ snapshot' = <<>>
  /\ IF holder = "close" THEN Release
     ELSE stage' = "config" /\ UNCHANGED <<holder, waiters>>
  /\ UNCHANGED <<proc, stopping, closed, manager, bots, posted, counts, past>>

\* Broken: a failed dump leaves the consumers stopped.
DumpFailsSilently(written) ==
  /\ Dumping /\ stage = "replace" /\ failures < MaxFailures
  /\ failures' = failures + 1
  /\ disk' = IF written THEN <<Saved>> ELSE disk
  /\ snapshot' = <<>>
  /\ lapsed' = (lapsed \/ (closed /\ ~written))
  /\ Release
  /\ UNCHANGED <<proc, stopping, closed, manager, bots, posted, starts,
                 reloads, crashes, delivered, twice, silent, renewed>>

\* Writing, replacing or syncing the directory raises, the last with the new
\* file in place.  dump() resumes the consumers, unless the manager is closed,
\* and the exception ends the reload or the shutdown.
DumpFails(written) ==
  /\ Dumping /\ stage = "replace" /\ failures < MaxFailures
  /\ failures' = failures + 1
  /\ disk' = IF written THEN <<Saved>> ELSE disk
  /\ snapshot' = <<>>
  /\ running' = IF closed THEN running ELSE running \cup active
  /\ lapsed' = (lapsed \/ (closed /\ ~written))
  /\ Release
  /\ UNCHANGED <<proc, stopping, closed, manager, queue, job, posted, starts,
                 reloads, crashes, delivered, twice, silent, renewed>>

-----------------------------------------------------------------------------
(* The configuration part of a reload; its `finally` resumes self.bots. *)

Reconfigure(kept, replaced) ==
  /\ holder = "reload" /\ ~closed /\ stage = "config"
  /\ active' = kept \cup replaced
  /\ queue' = [b \in Bots |-> IF b \in kept THEN queue[b] ELSE <<>>]
  /\ running' = kept \cup replaced
  /\ renewed' = renewed \cup (Bots \ kept)
  /\ Release
  /\ UNCHANGED <<proc, stopping, closed, known, fresh, job, snapshot, disk, posted,
                 counts, delivered, twice, silent, lapsed>>

\* init_bots is not reached, or finds every bot as it was.
ConfigKeepsBots ==
  Outcomes \cap {"same", "missing", "badCrawler"} # {} /\ Reconfigure(active, {})

\* Constructing a bot listed before b raises: b and those after it are left out.
ConfigFailsAt(b) ==
  "badBot" \in Outcomes /\ Reconfigure({c \in active : c < b}, {})

\* Bot b is closed and made anew, or comes back, with an empty queue; or it is
\* closed and left out.
ConfigChanges(b) ==
  "changed" \in Outcomes /\ Reconfigure(active \ {b}, {b})
ConfigDisables(b) ==
  "disabled" \in Outcomes /\ b \in active /\ Reconfigure(active \ {b}, {})

-----------------------------------------------------------------------------
HolderStep ==
  \/ TooLate \/ Crawl \/ SendAll \/ BeginClose \/ WriteTemp \/ Replace
  \/ ConfigKeepsBots
  \/ \E b \in Bots : Collect(b) \/ ConfigFailsAt(b) \/ ConfigChanges(b) \/ ConfigDisables(b)

Next ==
  \/ Start \/ Load \/ AbortStartup \/ Signal \/ Crash \/ Exit
  \/ Wake \/ ScheduleCycle \/ RequestReload \/ RequestClose
  \/ HolderStep \/ CrawlNothing \/ CrawlFails \/ PostArticle
  \/ DumpFails(TRUE) \/ DumpFails(FALSE)
  \/ \E b \in Bots : TakeJob(b) \/ Deliver(b)

\* The event loop runs what is ready, requests and files end, and so do the
\* waits of the lock's holder; signals, posts and failures need not come.
Fairness ==
  /\ WF_vars(Wake) /\ WF_vars(HolderStep) /\ WF_vars(RequestClose) /\ WF_vars(Exit)
  /\ WF_vars(proc = "starting" /\ (Load \/ AbortStartup))
  /\ \A b \in Bots : WF_vars(TakeJob(b)) /\ WF_vars(Deliver(b))

Spec == Init /\ [][Next]_vars /\ Fairness

-----------------------------------------------------------------------------
(* Properties *)

Held(b) == ToSet(job[b]) \cup ToSet(queue[b])

\* Shape of the state; only a live consumer has a job in flight.
TypeOK ==
  /\ proc \in {"down", "starting", "up"}
  /\ stopping \in BOOLEAN /\ closed \in BOOLEAN
  /\ holder \in {"none", "cycle", "reload", "close"}
  /\ waiters \in Seq({"cycle", "reload", "close"})
  /\ stage \in {"idle", "crawl", "send", "collect", "replace", "config"}
  /\ known \subseteq Posts /\ fresh \subseteq known
  /\ active \subseteq Bots /\ running \subseteq Bots
  /\ \A b \in Bots : queue[b] \in Seq(Posts) /\ Len(job[b]) <= 1
  /\ Collected \subseteq active
  /\ \A b \in Bots \ running : job[b] = <<>>

\* From the moment a dump copies its queue until the dump fails or the new
\* configuration has kept it, a bot sends nothing; one given up never again.
StandStill ==
  /\ running \subseteq active /\ running \cap Collected = {}
  /\ stage = "config" => running = {}

\* While the process is up, every post it knows was found at the very start,
\* or was sent, or is queued, or is about to be queued by the running cycle:
\* neither a reload, nor a failed dump, nor a restart loses a notification of a
\* bot that every reload has kept.  What the file and the new configuration say
\* of a bot is not overtaken by its consumer (reload, dump).
NothingForgotten ==
  /\ TypeOK
  /\ StandStill
  /\ proc = "up" =>
       \A b \in active \ renewed :
         known \subseteq silent \cup fresh \cup delivered[b] \cup Held(b)

\* The file never knows a post whose notification it would lose: what it
\* counts as known was sent, or is in the queue it holds.  A dump therefore
\* never falls between a cycle's crawling and its sending.
SnapshotComplete ==
  disk # <<>> =>
    \A b \in Bots \ renewed :
      disk[1].known \subseteq silent \cup delivered[b] \cup ToSet(disk[1].queue[b])

\* A post is sent twice to a bot only after the process ended without saving.
NoRepeatWithoutLapse == (\E b \in Bots : twice[b] # {}) => lapsed

\* The file never goes back to knowing less, so that a shutdown during startup
\* or a failed dump does not make old posts new again.
DumpNeverRegresses ==
  [][disk # <<>> => disk' # <<>> /\ disk[1].known \subseteq disk'[1].known]_vars

\* A queued notification is sent, unless the process ends, or a reload replaces
\* the bot or leaves it out: failed dumps and reloads do not stop a kept bot.
Served ==
  \A b \in Bots, p \in Posts :
    p \in Held(b) ~>
      p \in delivered[b] \/ proc # "up" \/ stopping \/ b \in renewed

\* After a signal the process ends, whatever it was doing.
StopsWhenTold == stopping ~> proc = "down"
=============================================================================
