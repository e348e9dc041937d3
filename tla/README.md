# Formal model of user-hotdeal-bot

TLA+ modules for the bot that watches Korean deal boards and mirrors their posts
to Telegram, with its database, its API and its HTTP plumbing; TLC runs that
check them on small instances; and TLAPS proofs of most of their properties.
`PROJECT.json` lists components, runs, mutants (plausible bugs each property
must catch), the source lines behind every definition, findings, hazards and
theorems.

Paths are from the repository's root as seen from here: `src/src/main.py` is
the bot, `src/README.md` its readme.

## 1. The system

One asyncio process (`src/src/main.py`) runs a cycle a minute: every crawler
fetches its list pages, the manager compares them with what it remembers, saves
the differences to a database, and puts jobs into the queues of the bots, whose
consumer tasks talk to Telegram meanwhile. A second process serves the database
through a small API.

| Component | State | Operations | Talks to |
|---|---|---|---|
| Article diff, `BotManager._crawling` | `article_cache`, `article_tombstones` | one comparison per crawler and cycle | crawlers, bots (`remove_expired_msg_obj`), database, queues |
| Site snapshots, `BaseCrawler.get`, `ArcaLiveCrawlerV2.get` | none | merge the lists of `url_list` into a page | the sites |
| Request policy, `BaseCrawler.request` | backoff per URL, proxy cooldown per origin, two tables of locks | request, schedule, clear, switch | HTTP client |
| HTTP client pool, `CurlCffiClient` | session, users per session, closed flag | get, close | curl-cffi |
| Telegram bot, `bot.py` | job queue, job in flight, message table, consumer task | put, take, send/edit/delete, errors, stop, resume, expire | Telegram |
| Engagement timer, in `_crawling` | age and last counts per post | due, restart | diff, bots |
| Process lifecycle, `_run_application`, `BotManager` | run lock, closed flag, signals, `dump.json` | start, cycle, reload, dump, shutdown | everything |
| Crawler registry, `init_crawlers` | `self.crawlers` | reuse, replace, remove | configuration, dump |
| Bot registry, `init_bots` | `self.bots` | reuse, replace, remove | configuration, queues |
| Article database, `repository.py`, `session.py` | `article` rows; `_db_backfilled_article_keys` in the bot | upsert, soft delete, backfill | diff |
| API rate limit, `repository.py`, `deps.py` | a fixed window per client | check and increment, cleanup, settings | database |
| Feed cache, `routes/feed.py` | cache, a lock per key | look up, build, prune | database |
| Arcalive transports, `ArcaLiveCrawlerV2`, `ArcaLiveCrawlerV15` | names of channels, a lock per channel; a curl session with its users | get, request, channel lookup, close | the site, HTTP client |
| List parsers, `parsing()` of every crawler | none | page to posts | snapshots |
| Dump format, `PersistenceManager`; `tools/recovery.py` | `dump.json` | load with older forms and damaged files, dump; recovery by an operator | diff, bots |
| Article queries, `repository.py`, `routes/articles.py` | none | list rows page by page | database, API clients |
| Schema, migrations, other tools, helpers | none that lives | - | not modelled, see section 7 |

What is hard here, and which property is about it, is the list `hazards` of
`PROJECT.json`. In short:

* **Memory of what was seen.** Pages scroll, posts vanish and return, ids jump,
  tombstones are bounded. The wrong set operation announces a post twice or
  silences a board.
* **Shared mutable data.** Queued jobs refer to dicts `_crawling` changes in
  place, and to a message table it prunes.
* **Cancellation.** A dump stops consumers in the middle of a request; requests
  and API handlers are cancelled while they hold or wait for locks.
* **One lock, many owners.** Cycles, reloads and the shutdown share
  `_run_lock`, and a signal comes at any step.
* **Restarts.** The dump is written at reloads and at shutdown only, and can fail;
  what a start finds may have an older form or be damaged.
* **Partial answers.** A list fails, a row lacks a field, lists are read at
  different moments: what a page does not show looks removed.
* **Old decisions.** Clocks, backoff, caches and proxies are read before waits
  and acted on after them.

What makes each component correct:

* diff: nothing still remembered is announced twice, a newer post is always
  announced, the memory is complete and bounded;
* bot: first in, first out, nothing lost, only the post's own message touched;
* diff and bot together: one message per post, never an older text, in the end
  the latest;
* lifecycle: no notification lost or repeated across reloads, failed dumps and
  restarts, the dump never goes back, a signal ends the process;
* registries: what is listed is open, what is not listed is closed, no memory lost;
* database: rows follow the list except where a transaction failed, and listed
  posts always get a row;
* parsers and snapshots: a post reported as removed is gone from the site;
* dump: what was known stays known, what a recovery took back is announced;
* queries: a client that pages through new rows misses none;
* rate limit: the quota is kept, windows stay apart; feed cache: one builder, no
  locks left over, no step back in time; HTTP pool: sessions closed exactly once
  and never in use; Arcalive: all lists or none, each channel asked for once, no
  deadlock of nested locks; request policy: quiet while it must be, no direct
  request in the proxy's time.

## 2. Modules

```
Crawling ──┬── Board ── Parsers    a real board produces the pages
           ├── Dump                the diff across restarts, from any dump
           ├── Notifier ── Bot     diff, dispatch and consumer together
           └── Store ── Articles   the database beside the diff, and its reader
JobQueue ◄── Bot                   Bot implements JobQueue
HttpPool ── Arcalive               get() over its HTTP sessions
Lifecycle   Registry   Engagement   RequestPolicy   RateLimit   FeedCache
```

The proofs stand in modules of their own: `CrawlingProofs` (Crawling, Dump, Store and
Articles), `NotifierProofs` (Bot and Notifier), `ArcaliveProofs` (HttpPool and Arcalive),
and `<Module>Proofs` for Lifecycle, Registry, RequestPolicy, RateLimit and FeedCache.

**Crawling** has one page as `[ids -> contents]` and one action per outcome of a
cycle: `NoPage` (main.py:582-588), `FirstPage` (599-610), `NextPage` (612-683).
`Vanished`, `Entombed`, `Remembered`, `Baseline`, `Fresh`, `Changed` are the
sets the code computes under similar names. Ids are integers because the code
compares them; contents are any values. Any page may follow any page: the code
trusts nothing about the site. History variables `seen`, `dropped` (ids a page
has moved past) and `evicted` (tombstones the limit cost) say what the code may
have forgotten.

**Dump** puts a start and restarts around Crawling. A dump is a record of what
`load_data` reads of one crawler: articles, tombstones that can be read, whether the
list was intact, and the high-water mark an older version wrote. `Found` holds every
dump there can be; `TombstonesIn` is the migration (main.py:255-296), `Recovery` is
`tools/recovery.py`, `Restart` a shutdown, perhaps a recovery, and a start. The history
`undone` has what a recovery took back. It extends Crawling, so the diff is the same.

**Parsers** has a record for each `parsing()`: what the lack of a field costs it (the row,
the page, or the whole `get()`, when it raises), and the kinds of rows it leaves out. `Read`
says what is left of a page. Which field has which consequence, what it contains and how
it is cut out of the markup is left out: no property depends on it.

**Board** restricts the pages to what boards do: ids grow, posts are taken down
for good (and leave the list or stay as a row of another kind), a notice is pinned,
a list shows its newest `PageSize` posts. Lists are read at different moments while
the board goes on; a response is the list (`Respond`), a damaged page
(`RespondDamaged`) or nothing (`Fail`). `Snapshot` is `ArcaLiveCrawlerV2.get` for that
class (`Whole`) and `BaseCrawler.get` for the others. `crawler` is the class and
configuration under test, chosen at the start among `Crawlers`.

**Bot** is one `TelegramBot`: the queue, the consumer (`waiting`, `calling`,
`answering`, `sleeping`, `stopped`), and a `channel` of messages for
Telegram. A request is three steps - begun, acted on, answered - so that a
timeout or a cancellation can hit between the action and the answer.
`Faults` selects what may go wrong: `retry` and `retryDelete` (RetryAfter),
`timeout`, `reject`, `picture` (photo refused), `cancel` and `cancelLate`
(consumer stopped before or after Telegram acted). `live` marks jobs that share
the cached dict. **JobQueue** is its abstract specification: put at the back,
finish at the front, finish everything. The refinement mapping is
`pending <- job \o queue`.

**Notifier** composes both: `Compare` is a cycle's diff with the bot's
`remove_expired_msg_obj` and the in-place update, `Dispatch` is `send()`, the
rest is the consumer. Posts of a list are sent in any order (a page's order is the
site's). Pages are plausible ones: contents change forwards, also of a post that
vanishes and returns (`newest`), and a post the list has moved past does not return.
Three histories say where a property has to give way: `lost` (a request of the post failed
for good), `repeated` (a consumer was stopped after Telegram had acted on a send), and
Crawling's `evicted`.

**Lifecycle** is the process: `proc`, the asyncio lock with its first-come queue
and the moment it is free before the waiter runs (`Wake`), the holder's
`stage`, per-bot queue, job and consumer, the dump as `snapshot` (being
collected) and `disk`. Bots stand in the order of the file. Delivery is one step
here; `Bot` has the detail. A reload finds one of `Outcomes` in the file, at a
nondeterministic place; the history `renewed` has the bots a reload replaced or
left out, whose queues the code gives up.

**Registry** has the entries of the configuration in order, `table`
(`self.crawlers`), the objects ever `built` and those `open`, and which
crawlers' articles are in memory and in the dump. `InitCrawlers` is
`init_crawlers`, with the exception an entry in its middle may raise: `Outdated` are the
old objects it closes (as it reaches a changed entry or one of an unknown class, even if a
later entry raises; without an entry, at the end only), `Stranded` those an exception makes
it go past, which the history `stray` collects.

**Engagement** is one post: cached counts, `timer` (`engagement_state`), the
job queue, the message.

**Store** adds `rows`, `filed` (`_db_backfilled_article_keys`) and a cycle's three stages to
Crawling. A transaction commits, rolls back, or commits while the caller sees an
error. **Articles** adds a client of `GET /articles`: rows in the order of their ULIDs
(those of one transaction in any order), the page query and the count query as two
steps, `offset` and `after` as the client keeps them. A ULID is taken to be larger
than those of earlier transactions, which needs a clock that does not run back.

**RateLimit** is one key's row. A request reads its clock on arrival (`at`) and
its statements run later, in any order with others (each statement is atomic, the
row is locked to the end of the transaction). **FeedCache** has requests
that wait for a lock, query and finish, with locks created and dropped as
objects of their own (`locks`) beside the `table`. **HttpPool** has sessions,
their users, and `close()`, for `CurlCffiClient` with a session of its own or an
injected one, and for `ArcaLiveCrawlerV15`, which keeps one by the same scheme but has
no closed flag; a step is the code from one await to the next. `closes` counts the calls
of a session's `close()`; the call is part of the step that decides on it, and nothing
modelled depends on when it returns.

**Arcalive** extends it with the tasks of one `get()`: a task per URL asks for its
list, then V2 takes the lock of the list's channel and asks for the channel's name;
behind a fallback proxy (`gated`) every request also holds the lock of the site. `line`
is the queue of each `asyncio.Lock`. Attempts fail, responses are unusable, `get()` is
cancelled task by task, sessions are closed at any moment, and a URL in backoff is not
asked at all (`Unsent`). How an attempt's outcome sets backoff and proxy is
RequestPolicy's; here a backoff may run at the start of any request.

**RequestPolicy** has callers with one URL each,
locks per origin (fallback proxy) or per URL, attempts with timeouts, answers,
backoff and proxy windows; `setting` is the crawler's class and configuration,
chosen at the start among `Settings`.

A type invariant stands in each module (`TypeOK` or `<Module>TypeOK`). It is the first
conjunct of one of the module's main properties, so that the runs check it; for Crawling
it is the first conjunct of Board's and Store's, and a theorem (`TypeCorrect`).

## 3. Runs

All state spaces are complete. `arcalive` takes two and a half minutes, `board`,
`lifecycle` and `request_policy` one to two, the others less than one.

| Run | Shows | Bounds |
|---|---|---|
| crawling | no second announcement, no suppressed one, complete memory, oldest tombstones go first, recovered posts are announced, under any pages, dumps and restarts | 4 ids, 2 contents, 2 tombstones |
| board | a post reported as removed is gone (two exceptions, section 4); each post announced once | 15 crawlers: each parser with one damaged list and 4 posts; one with 6 posts; two lists merged, clean and damaged, and wanted whole; page of 2 |
| notifier | FIFO promise (JobQueue), own message only, one message per post, no older text; in the end the latest text, and no message of a removed post | 3 ids, 2 contents, 3 pages, 2 of the seven faults |
| notifier_expiry | counterexample, section 4 | 3 ids, 4 pages, one RetryAfter |
| lifecycle | nothing lost, repeated, or forgotten by the file; no consumer runs ahead of a dump or a reload; queued jobs are sent; a signal ends the process | 2 bots, 2 posts, 2 reloads with six outcomes, 2 starts, a crash, a failure |
| registry | listed is open, and else only what a reload that raised went past; the dump forgets nobody | 2 crawlers, entries of six kinds, 4 objects |
| engagement | counts wait for the interval and always arrive | 2 counts, interval 3, one restart, one job |
| store | rows follow the list, listed posts get a row, a client that pages misses none | 3 ids, 3 pages; 2 contents and 2 failures, or a client with pages of one row |
| rate_limit | the quota is kept, windows apart | 3 requests at once, limits 0-2, 10 instants |
| feed_cache | one builder, none of what is cached, locks in use, no older feed, every request ends | 3 requests, 2 keys, 1 cached, 5 instants |
| arcalive | sessions are closed once, after their last user, and all in the end; snapshots whole or nothing; one request per channel; every get() ends | 3 URLs, 2 of one channel; 4 sessions; up to 3 attempts; all three clients, with and without a fallback proxy |
| request_policy | backoff follows the answers, a 429 and the proxy's time are respected, every request ends | 2 callers of one site, three crawlers, 2 attempts, 3 instants |

Why the bounds are enough: an error of the diff needs one id that vanishes, one
that stays and one that is new, with one more to exceed the tombstone limit;
two bots are the least at which a dump collects one while the other
sends and at which an entry stands behind a bad one; three requests for a feed are
one that owns the lock, one that waits and one that comes when the entry is
dropped; three pages are one that fills the cache, one that announces and one that
changes or removes; two faults are a cause and a second one while the first is
worked off (the notifier also passes with four pages, in four minutes); three URLs
are two that share a channel's lock and one that competes for the site's only; a page
of two with four posts scrolls twice and keeps a post behind a damaged row. Constants
that end in an unlimited world (`MaxTime`, `MaxCycles`, `MaxFaults`, `posts` of a crawler, ...)
only appear in guards. Where such a bound stops everything, the configuration says
`CHECK_DEADLOCK FALSE`: a board that has used its ids or a clock at `MaxTime` is no
deadlock of the code. Deadlock is checked for crawling, store, engagement, arcalive and
the registry, which can always go on.

Every property has a mutant: one mapped definition replaced by the "Broken"
variant that stands before it. They are plausible edits of the code - a
tombstone not added, a job put back behind the queue, a count not compared
with its limit, a lock per URL where it must be per origin.

## 4. Where the code falls short

**Finding: notifier_expiry.** A post that is reported as removed and falls below
the page before the bot gets to the queued delete loses its message object
(`remove_expired_msg_obj`); `_delete` then finds nothing and gives up: the
message stays. The change log lists this very problem as fixed; the quotation
and lines are in `PROJECT.json`.

Other limits of the code met while modelling. None contradicts a statement of the
repository; each is an exception a passing property has to make, and some have a
configuration of their own that ends in a counterexample.

* A post that scrolls off a busy list while another list of the site reaches further
  back is reported as removed, and its message deleted, although every request
  succeeded: `RemovedMeansGone` excepts `Outpaced`.
* A crawler that merges lists reports the posts of a list that failed, or of a row
  that lacked a field, as removed: `RemovedMeansGone` excepts `Overlooked`, but never
  for the app API crawler. Announcements follow: `AnnouncedOnce` speaks of clean pages,
  of one list or of the app API crawler, and with several lists excepts what the
  limit of the tombstones cost.
* A recovery that leaves a crawler no article announces nothing, because the next
  page is a first one; tombstones it does not touch can silence posts with smaller ids:
  `RecoveredAnnounced` has both as conditions.
* `offset` skips a row when another is hidden during the walk: `WalkSkipsNothing`
  excepts `disturbed`.
* A V15 crawler that is closed while a request is in progress may make a session
  afterwards that nobody closes: `ClosedInTheEnd` excepts `late`. Cycles have ended when
  the bot closes its crawlers.
* RetryAfter to a delete loses the delete, where send and edit retry; the message
  stays up (`MCNotifierDelete.cfg`, on `WithdrawnTakenDown`): `Converges` counts such a
  post as `lost`, and shows that other deletes are carried out.
* A consumer stopped after Telegram acted and before the answer arrived sends
  the message again: `AtMostOneCard` excepts `repeated`. A post whose tombstone the
  limit cost is announced again beside its old message: it excepts `evicted` too.
* A crawler without a proxy and without backoff status codes takes no lock. If it asked
  for one URL twice at once, the second request could retry after the first one's 429:
  `QuietAfterTooMany` has as its hypothesis that such a crawler asks for each URL once
  (as every crawler of the repository does), and TLC finds the counterexample without it.
* A TimedOut that hides a success leaves a message nobody can edit: `Converges`
  excepts `lost`, and of `repeated` posts the second message.
* A bot entry that raises in a reload drops the bots after it with their queues;
  a replaced bot's queue is given up too: `NothingForgotten`, `SnapshotComplete`
  and `Served` except `renewed`.
* A crawler entry that raises in a reload leaves the crawlers after it out of the
  table and open, those that lost their entry too: `ListedIsOpen` excepts `stray`.
* With a limit of 0 a client that has a row gets through once per window, because
  the reset of a window does not look at the limit: `QuotaKept` allows that one.
* The send job shares the cached dict. Delivered after another cycle, it shows
  counts the timer has never recorded, and they can stay: `engagement` has a bot
  that is done before the next cycle, `MaxJobs = 1` (`MCEngagementLate.cfg`).

## 5. Fairness

Only what the code's scheduling gives: asyncio runs every ready task, and every
external wait has an end.

* Notifier, and Bot alone: weak fairness of the consumer's and Telegram's steps (`Work`)
  and of `Dispatch`: a cycle that crawled goes on to `send()`. Faults are never
  fair and bounded in number: a Telegram that is down forever delivers nothing.
* Lifecycle: the lock's waiter wakes, the holder's steps and the consumers
  go on, `close()` is requested after a signal, startup ends. Signals, posts,
  reloads and failures need not happen.
* FeedCache, RequestPolicy: each request's own steps; database
  and HTTP attempts have timeouts. `Ends` and `Answers` speak of waiting for a lock.
* Arcalive: weak fairness of `Progress`, some task goes on while one can. Attempts
  are bounded and have timeouts, so a `get()` has finitely many steps and no fairness
  among its tasks is needed; that the locks of `EndsAlways` never block is the point.
* Store: cycles come every minute; Engagement: cycles come, the bot works.

## 6. Proofs

Every theorem holds for all values of the constants that satisfy the assumptions named in
the module of the model; those assumptions say what kind of value a constant is, and TLC
evaluates them on every run. A hypothesis beyond them is stated with the theorem.

| Property (run) | Theorem | Rests on |
|---|---|---|
| `MemoryComplete`, `NeverTwice`, `NewerAnnounced`, `OldestForgottenFirst`, `TombstonesBounded` of Crawling | `MemoryIsComplete`, `NeverAnnouncedTwice`, `NewerIsAnnounced`, `OldestIsForgottenFirst`, `TombstonesStayBounded` | `Inv` |
| the same from any dump, with restarts and recoveries; `RecoveredAnnounced` (crawling) | `DumpMemoryIsComplete`, `NeverTwiceAcrossRestarts`, `NewerIsAnnouncedAcrossRestarts`, `RecoveredIsAnnounced` | `DumpInv` |
| `RowsFollowList` (store) | `TableFollowsList`, and `TableFollowsListBesideClients` | `StoreInv` |
| `WalkSkipsNothing` (store) | `WalksSkipNothing` | `WalkInv` |
| `OwnMessage` (notifier) | `BotTouchesOwnMessage`, `PipelineTouchesOwnMessage` | `BotInv` |
| safety of `KeepsPromise` (notifier) | `BotKeepsOrder`, `PipelineKeepsOrder` | step by step |
| `NoRegress` (notifier) | `NeverBackToOlderText` | `TextInv` |
| `AtMostOneCard` (notifier) | `OneCardForAPost` | `CardInv` |
| `NothingForgotten`, `SnapshotComplete`, `NoRepeatWithoutLapse`, `DumpNeverRegresses` (lifecycle) | `NothingIsForgotten`, `SnapshotsAreComplete`, `RepeatsNeedALapse`, `FileNeverRegresses` | `LifeInv` |
| `ListedIsOpen` (registry) | `ListedStaysOpen` | `RegistryInv` |
| `DumpForgetsNobody` (registry) | `DumpKeepsEverybody` | `MemoryHasDump` |
| `ClosedWhenUnused`, `WholeOrNothing`, `AskedOnce` (arcalive) | `SessionsClosedOnce`, `AllListsOrNothing`, `NamesAskedOnce` | `GetInv` |
| `BackoffFollowsAnswers`, `NoDirectInWindow` (request_policy) | `BackoffFollows`, `NoDirectWhileProxied` | `PolicyInv` |
| `QuietAfterBusy` (request_policy) | `QuietAfterTooMany`: requests for a URL come one at a time | `PolicyInv` |
| `SingleFlight`, `LocksInUse`, `NeverOlder` (feed_cache) | `OneFlight`, `LocksFollowRequests`, `ReadersGoForward` | `FeedInv` |
| `WindowsApart`, `QuotaKept` (rate_limit) | `WindowsFarApart`, `QuotaIsKept` | `RateInv` |

The inductive invariants, and what each adds to the property it is for:

* **Diff.** `Inv == TypeOK /\ OnlySeen /\ MemoryComplete /\ TombstonesBounded`. `OnlySeen` -
  cache, tombstones, dropped and evicted ids are seen ids - is the strengthening: without it
  nothing says that an id the diff still holds had been seen, and `NewerAnnounced` could not
  conclude that a post above all seen ids is above the baseline. `MemoryComplete` is preserved
  by a page because each cached id is on the new page, below it (then `dropped`), or vanished
  (then it has a tombstone, or was evicted). Lemmas on `Largest`, which keeps the n largest ids
  of a set, supply the facts on the limit from the library's theorems on cardinalities.
* **Dump.** `DumpInv == Inv /\ UndoneAbove`: what a recovery took back is larger than every
  article it left, so only a tombstone can be its baseline. `RestartKeeps` says that dumping
  and loading give back the tombstones and a prefix of the articles.
* **Table.** `StoreInv` is `Inv`, `RowsFollowList` and that no key counts as stored while the
  list is empty. `RowsFollowList` carries itself: what it says of removed posts needs what it
  says of listed ones.
* **Walk.** `NothingPassed` says that below the newest row of the walk, each row the client has
  not got has at least `offset` newer ones, so that no page has reached it; lemmas count the
  rows above a ULID (`FewerAbove`, `Ranks`) as new rows come.
* **Texts.** `BotInv` adds to `OwnMessage` that a request being made has a text and a message
  to be about (`RequestMade`). `TextInv` orders the versions of a post: message, request in
  flight, queued jobs front to back, newest content a page has shown. The first attempt
  failed for a reason: a post that vanished and returned could return with an older text than
  a queued job had. Sites do not do that, so the model's pages now keep to `newest`.
* **Cards.** `CardInv` says of each post outside `repeated` and `evicted` that it has one
  message or one job to send it, both only while Telegram has acted on the job and the answer
  is under way, and neither between being found new and being sent. The proof attempt found
  the second exception.
* **Order.** The refinement is proved without an invariant on texts: each action of Bot maps
  to a put, a finish or a stutter of JobQueue under `pending <- job \o queue`.
* **Lifecycle.** `LifeInv` says what each stage of the lock's holder implies (`UnderLock`: new
  posts wait only within a cycle, bots a dump has collected stand still until it ends), that
  what is known is accounted for in memory and in the file (`Accounted`), that the file is
  never ahead of the memory, and, until a process has ended without saving, that no line
  repeats a post or holds a delivered one.
* **Registry.** `RegistryInv` adds to `ListedIsOpen` what a process that is down has left
  behind and that finitely many objects were made; a lemma numbers the new objects of a
  reload (`PlacesAreNumbers`). `MemoryHasDump`: while the process is up, memory has all
  the dump has.
* **Sessions and `get()`.** Of the sessions `ClosedWhenUnused` is inductive as it stands:
  `users` counts a set of requests. For the tasks, `InLock` says that who sends a request is
  first in the line of the site (if there is one), and who asks for a name first in its
  channel's; lemmas on sequences say that a line without one of its members keeps its order.
* **Requests.** `PolicyInv` says that, when the class makes requests take locks, who asks
  holds the lock of its key (`Held`); that a first answer is kept only while the proxy is
  tried after a block (`RouteInv`); that a URL's backoff agrees with its last answer, or such
  an attempt is in progress (`BackoffInv`); and that a 429's time is over or within the
  backoff, and over for whoever asks (`CalmInv`).
* **Feed cache.** `FeedInv` says that the table leads from the keys in use to the locks in use
  and back, with their users counted (`TableInUse`), that who holds a lock is the one who
  builds under it (`HolderBuilds`), and that a feed is built only while the cache has none and
  nobody was given newer content than is cached or read (`Freshness`).
* **Rate limit.** `RateInv` says that `last` tells the window of the row, or of a row that was
  cleaned up that its window began more than an hour ago, and that no request's clock is in
  the future or older than `MaxWait`. `TimesAssumption` has that a request does not wait so
  long that its window could be cleaned up meanwhile: `Minute + MaxWait < Hour`, where the
  code cleans up rows of an hour ago. `QuotaKept` is inductive on top of it, a limit of 0
  included.

TLC checked each invariant on the run's instance before it was proved.

Model-checked only:

* liveness - `Converges`, `KeepsPromise`'s fairness, `WithdrawnTakenDown`, `Served`,
  `StopsWhenTold`, `ListedGetsRow`, `Answers`, `Ends`, `EndsAlways`, `ClosedInTheEnd`,
  `CountsArrive` - because the prover does not reason about fairness or ENABLED;
* Board's `RemovedMeansGone` and `AnnouncedOnce`, and Engagement's `CountsWait`, which have no
  proof yet.

## 7. Not modelled

* **Contents of list fields**: how the parsers cut and convert text is pure functions of
  markup with sample-based tests. `DummyCrawler` makes up articles for tests, and
  `CoolenjoyCrawler.parsing` is not written yet.
* **Arcalive**: the device token V2 takes over from responses, a string sent back with the
  next request. Requests of other crawlers on the shared client are like those of HttpPool
  in other tasks.
* **The JSON form of the dump**; `os.replace` is taken to be atomic and `fsync` to work.
* **Article queries** that read one row or count, **schema, settings, helpers, and the
  tools** besides recovery: no state that lives between calls, or run by hand with
  no effect on the bot's state.
* **Migrations**: one-off schema changes that Alembic runs in a transaction while the
  bot is down; their SQL depends on the database.
* **AiohttpClient**: no state of its own.
* Several processes on one dump, several bots in one channel, and
  Telegram's own limits beyond RetryAfter.

## 8. Plan

Order of work, most important first; 1-14 are done.

1. Crawling, then its proofs. 2. Bot and JobQueue. 3. Notifier.
4. Lifecycle. 5. Store. 6. RateLimit, FeedCache, HttpPool. 7. RequestPolicy.
8. Engagement. 9. Registry. 10. Arcalive over HttpPool, both session schemes.
11. Parsers, and Board with several lists and damaged pages. 12. Dump with its proofs.
13. Articles beside Store. 14. Proofs of the safety properties of Store, Articles, Bot,
    Notifier, Lifecycle, Registry, HttpPool, Arcalive, RequestPolicy, FeedCache and RateLimit.
15. Prove: Board (`AnnouncedOnce` on top of `Inv`, `RemovedMeansGone`), Engagement
    (`CountsWait`), and for the liveness properties the safety part of their arguments, such
    as that a lock that is held has a holder that can go on.
16. Extend: several crawlers in one lifecycle, with the gather that isolates a failing
    one; Store under a crash between commit and dump; several keys in one RateLimit
    cleanup; other crawlers' requests on the client an Arcalive crawler shares.
