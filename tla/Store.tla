------------------------------- MODULE Store --------------------------------
(***************************************************************************)
(* The database next to the diff: after each crawling cycle the manager    *)
(* writes the result of the comparison in one transaction, and then, in a  *)
(* second one, the cached posts that no transaction has covered yet.  A    *)
(* transaction that fails is logged, and the cycle goes on to notify.      *)
(***************************************************************************)
EXTENDS Crawling

CONSTANT Bounds     \* instances to look at: how many transactions fail, how
                    \* many pages come, what they show, and who else is there

ASSUME StoreBoundsAssumption ==
  Bounds \subseteq [failures : Nat, crawls : Nat, contents : SUBSET Versions,
                   reader : BOOLEAN]

VARIABLES
  bound,      \* the instance; never changes
  rows,       \* table articles, of one crawler: id -> what it shows
  filed,      \* _db_backfilled_article_keys, of one crawler
  stage,      \* "idle", or the last step done of the running cycle
  failures, crawls,    \* how many there were
  missed      \* history: changes and removals whose transaction rolled back

storeVars == <<vars, bound, rows, filed, stage, failures, crawls, missed>>

Row == [text : Versions, up : BOOLEAN]     \* up: deleted_at is null
Up(i) == i \in DOMAIN rows /\ rows[i].up
DrawnFrom(page, contents) == \A i \in DOMAIN page : page[i] \in contents

-----------------------------------------------------------------------------
StoreInit ==
  /\ Init /\ tombstones = {}
  /\ bound \in Bounds
  /\ rows = [i \in {} |-> CHOOSE r \in Row : TRUE]
  /\ filed = {} /\ stage = "idle"
  /\ failures = 0 /\ crawls = 0
  /\ missed = {}

\* Broken: the keys of posts that left the cache are kept.
CrawlPageKeepingKeys(page) ==
  /\ stage = "idle" /\ crawls < bound.crawls
  /\ Crawl(page)
  /\ stage' = "crawled"
  /\ crawls' = crawls + 1
  /\ UNCHANGED <<bound, rows, filed, failures, missed>>

\* crawling(): keys whose post left the cache are forgotten, but a post that
\* vanishes in this very cycle loses its key only in the next one.
CrawlPage(page) ==
  /\ stage = "idle" /\ crawls < bound.crawls
  /\ Crawl(page)
  /\ filed' = IF DOMAIN cache = {} THEN filed ELSE filed \cap Tracked(page)
  /\ stage' = "crawled"
  /\ crawls' = crawls + 1
  /\ UNCHANGED <<bound, rows, failures, missed>>

CrawlNothing ==
  /\ stage = "idle"
  /\ NoPage
  /\ stage' = "crawled"
  /\ UNCHANGED <<bound, rows, filed, failures, crawls, missed>>

\* bulk_upsert: the row shows the cached post, and is not deleted any more.
Upserted(posts) ==
  [i \in DOMAIN rows \cup posts |->
     IF i \in posts THEN [text |-> cache[i], up |-> TRUE] ELSE rows[i]]

\* bulk_soft_delete of what bulk_upsert left, where there is a row.
SoftDeleted(table, posts) ==
  [i \in DOMAIN table |->
     [table[i] EXCEPT !.up = @ /\ i \notin posts]]

\* One transaction that upserts and deletes.  It commits; or commits while
\* the caller sees an error; or rolls back as a whole.
Commit(upserts, deletes) ==
  /\ rows' = SoftDeleted(Upserted(upserts), deletes)
  /\ filed' = filed \cup upserts
  /\ missed' = missed \ (upserts \cup deletes)
  /\ UNCHANGED failures

CommitUnheard(upserts, deletes) ==
  /\ failures < bound.failures /\ failures' = failures + 1
  /\ rows' = SoftDeleted(Upserted(upserts), deletes)
  /\ missed' = missed \ (upserts \cup deletes)
  /\ UNCHANGED filed

\* Broken: the keys are added before the transaction commits.
RollbackKeepingKeys(upserts, deletes) ==
  /\ failures < bound.failures /\ failures' = failures + 1
  /\ filed' = filed \cup upserts
  /\ missed' = missed \cup deletes \cup (upserts \cap filed)
  /\ UNCHANGED rows

Rollback(upserts, deletes) ==
  /\ failures < bound.failures /\ failures' = failures + 1
  /\ missed' = missed \cup deletes \cup (upserts \cap filed)
  /\ UNCHANGED <<rows, filed>>

Transaction(upserts, deletes) ==
  \/ Commit(upserts, deletes)
  \/ CommitUnheard(upserts, deletes)
  \/ Rollback(upserts, deletes)

\* _save_to_db(result)
Save ==
  /\ stage = "crawled"
  /\ Transaction(news \cup updates, removals)
  /\ stage' = "saved"
  /\ UNCHANGED <<vars, bound, crawls>>

\* _backfill_db_from_cache(); the cycle then sends and ends.
Backfill ==
  /\ stage = "saved"
  /\ Transaction(DOMAIN cache \ filed, {})
  /\ stage' = "idle"
  /\ UNCHANGED <<vars, bound, crawls>>

\* A shutdown between two cycles and a start from its dump: the cache and the
\* tombstones are back, the keys are not.
StartAgain ==
  /\ stage = "idle"
  /\ filed' = {}
  /\ UNCHANGED <<vars, bound, rows, stage, failures, crawls, missed>>

StoreNext ==
  \/ \E page \in Pages : DrawnFrom(page, bound.contents) /\ CrawlPage(page)
  \/ CrawlNothing \/ Save \/ Backfill \/ StartAgain

\* Cycles go on every minute, whatever the site answers, and each one ends.
StoreFairness ==
  WF_storeVars(CrawlNothing) /\ WF_storeVars(Save) /\ WF_storeVars(Backfill)

StoreSpec == StoreInit /\ [][StoreNext]_storeVars /\ StoreFairness

-----------------------------------------------------------------------------
(* Properties *)

\* Shape of the state; keys are only kept of posts the diff has seen.
StoreTypeOK ==
  /\ TypeOK
  /\ DOMAIN rows \subseteq Ids /\ rows \in [DOMAIN rows -> Row]
  /\ filed \subseteq seen /\ DOMAIN rows \subseteq seen
  /\ stage \in {"idle", "crawled", "saved"}
  /\ bound \in Bounds /\ failures \in 0 .. bound.failures /\ crawls \in 0 .. bound.crawls
  /\ missed \subseteq Ids

\* Vanishing, coming back and failing in any order leave the rows in step with the
\* list, but for posts whose transaction rolled back or is still to come.  A
\* listed post whose key counts as backfilled has a visible row with its current
\* text: it is never marked as stored but hidden.  A post reported as removed and
\* not listed again is hidden.
RowsFollowList ==
  /\ StoreTypeOK
  /\ \A i \in (DOMAIN cache \cap filed) \ missed :
       Up(i) /\ (rows[i].text = cache[i] \/ (stage = "crawled" /\ i \in updates))
  /\ \A i \in tombstones \ (DOMAIN cache \cup missed) :
       Up(i) => stage = "crawled" /\ i \in removals

\* A change or removal is the only thing a failed transaction can lose: a
\* listed post without a visible row gets one, or leaves the list.
ListedGetsRow == \A i \in Ids : i \in DOMAIN cache ~> Up(i) \/ i \notin DOMAIN cache
=============================================================================
