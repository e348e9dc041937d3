------------------------------ MODULE Crawling ------------------------------
(***************************************************************************)
(* One crawler's part of a crawling cycle: BotManager._crawling compares   *)
(* the list page just fetched with the page it cached one cycle earlier    *)
(* and reports the posts that are new, changed and gone.                   *)
(*                                                                         *)
(* A list page (ArticleCollection) is a function from post ids to the      *)
(* content _crawling compares (is_end, title, price): one value of         *)
(* Versions.  Everything the method does after `await cwr.get()` runs      *)
(* without a suspension point, so a cycle is one action per crawler.       *)
(***************************************************************************)
EXTENDS Naturals, FiniteSets

CONSTANTS Ids,            \* ids the board can give a post
          Versions,       \* contents a post can show
          MaxTombstones   \* MAX_ARTICLE_TOMBSTONES

ASSUME IdsAssumption == IsFiniteSet(Ids) /\ Ids \subseteq Nat \ {0}
ASSUME VersionsAssumption == Versions # {}
ASSUME TombstonesAssumption == MaxTombstones \in Nat \ {0}

VARIABLES
  cache,        \* article_cache[name]: the last page that was not empty
  tombstones,   \* article_tombstones[name]: ids reported as removed
  news,         \* result["new"] of the last cycle, by id
  updates,      \* result["update"] of the last cycle, by id
  removals,     \* result["remove"] of the last cycle, by id
  seen,         \* history: every id that was ever on a page
  dropped,      \* history: seen ids a later page started above, and not back
  evicted       \* history: ids whose tombstone was lost to MaxTombstones

results == <<news, updates, removals>>
history == <<seen, dropped, evicted>>
vars == <<cache, tombstones, results, history>>

Collection == UNION {[S -> Versions] : S \in SUBSET Ids}
Pages == {page \in Collection : DOMAIN page # {}}

-----------------------------------------------------------------------------
(* The pieces of one comparison. *)

\* Ids smaller than every id of the page: article_id < id_min.
Below(S, page) == {i \in S : \A j \in DOMAIN page : i < j}

\* What remove_expired(id_min) leaves of the cache.
Tracked(page) == DOMAIN cache \ Below(DOMAIN cache, page)

Vanished(page) == Tracked(page) \ DOMAIN page
Staying(page) == Tracked(page) \cap DOMAIN page

\* sorted(S)[-n:], as a set: those with fewer than n larger ones.
Largest(S, n) == {i \in S : Cardinality({j \in S : i < j}) < n}

\* Broken: tombstones.add is left out.
EntombedBefore(page) == tombstones \ Below(tombstones, page)

Entombed(page) ==
  LET all == tombstones \cup Vanished(page) IN all \ Below(all, page)

\* Broken: the limit drops the largest ids.
RememberedSmallest(page) ==
  {i \in Entombed(page) :
     Cardinality({j \in Entombed(page) : j < i}) < MaxTombstones}

Remembered(page) == Largest(Entombed(page), MaxTombstones)

\* Broken: posts that vanished still count.
BaselineWithVanished(page) == DOMAIN cache \cup (DOMAIN page \cap Remembered(page))

\* The ids whose maximum is id_cache_max: what is left of the cache, or the
\* whole previous cache when nothing is left, and the tombstones that show.
Baseline(page) ==
  (IF Staying(page) # {} THEN Staying(page) ELSE DOMAIN cache)
    \cup (DOMAIN page \cap Remembered(page))

\* Broken: whatever is neither cached nor entombed is new.
FreshNotCached(page) == DOMAIN page \ (DOMAIN cache \cup Remembered(page))

Fresh(page) ==
  {i \in DOMAIN page \ Remembered(page) : \A j \in Baseline(page) : j < i}

Changed(page) == {i \in Staying(page) : cache[i] # page[i]}

-----------------------------------------------------------------------------
\* load() of a dump whose article cache is empty; the tombstones it lists (or
\* the legacy high-water mark it migrates) count as seen.
Init ==
  /\ cache = [i \in {} |-> CHOOSE v \in Versions : TRUE]
  /\ tombstones \in {T \in SUBSET Ids : Cardinality(T) <= MaxTombstones}
  /\ news = {} /\ updates = {} /\ removals = {}
  /\ seen = tombstones
  /\ dropped = {}
  /\ evicted = {}

Observe(page) ==
  /\ seen' = seen \cup DOMAIN page
  /\ dropped' = (dropped \cup Below(seen, page)) \ DOMAIN page

\* Nothing was fetched or parsed, or get() raised: the state is left alone.
NoPage ==
  /\ news' = {} /\ updates' = {} /\ removals' = {}
  /\ UNCHANGED <<cache, tombstones, history>>

\* The first page fills the cache; nobody is told about posts already there.
FirstPage(page) ==
  /\ DOMAIN cache = {}
  /\ cache' = page
  /\ tombstones' = tombstones \ Below(tombstones, page)
  /\ news' = {} /\ updates' = {} /\ removals' = {}
  /\ Observe(page)
  /\ UNCHANGED evicted

\* A later page is compared with the cache, then replaces it.
NextPage(page) ==
  /\ DOMAIN cache # {}
  /\ news' = Fresh(page)
  /\ updates' = Changed(page)
  /\ removals' = Vanished(page)
  /\ tombstones' = Remembered(page)
  /\ cache' = page
  /\ Observe(page)
  /\ evicted' = evicted \cup (Entombed(page) \ Remembered(page))

Crawl(page) == FirstPage(page) \/ NextPage(page)

Next == NoPage \/ \E page \in Pages : Crawl(page)

Spec == Init /\ [][Next]_vars

-----------------------------------------------------------------------------
(* Properties *)

\* Shape of the state; the three result lists name different posts, new and
\* changed ones that are cached, removed ones that are not.
TypeOK ==
  /\ cache \in Collection
  /\ tombstones \in SUBSET Ids
  /\ news \in SUBSET DOMAIN cache /\ updates \in SUBSET (DOMAIN cache \ news)
  /\ removals \in SUBSET (Ids \ DOMAIN cache)
  /\ seen \in SUBSET Ids /\ dropped \in SUBSET Ids /\ evicted \in SUBSET Ids

\* Every id ever seen is still known to the diff, through the cache or a
\* tombstone, unless a page began above it or the tombstone limit cost it.
MemoryComplete ==
  seen \ (dropped \cup evicted) \subseteq DOMAIN cache \cup tombstones

\* The tombstone set stays within MAX_ARTICLE_TOMBSTONES.
TombstonesBounded == Cardinality(tombstones) <= MaxTombstones

\* A post is never announced a second time, however pages lose and regain
\* it, unless the list moved past it in between or its tombstone was evicted.
NeverTwice == [][news' \cap seen \subseteq dropped \cup evicted']_vars

\* A post newer than everything ever seen is announced, also when the page has
\* turned over completely since the last cycle.  When two pages overlap, it need only
\* be newer than the seen posts still listed: a larger id that showed up once and
\* vanished silences nobody.
NewerAnnounced ==
  [][DOMAIN cache # {} =>
       \A i \in DOMAIN cache' \ seen :
         \/ \A j \in seen : j < i
         \/ /\ DOMAIN cache \cap DOMAIN cache' # {}
            /\ \A j \in DOMAIN cache' \cap seen : j < i
         => i \in news']_vars

\* Tombstones are forgotten oldest first: an id that loses its tombstone, or
\* never gets one, is smaller than every id that keeps one.
OldestForgottenFirst ==
  [][\A i \in (tombstones \cup removals') \ tombstones', j \in tombstones' :
       i < j]_vars
=============================================================================
