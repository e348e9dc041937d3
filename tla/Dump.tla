-------------------------------- MODULE Dump --------------------------------
(***************************************************************************)
(* The diff of one crawler across restarts: PersistenceManager.dump_data   *)
(* and load_data, the dump formats of earlier versions, files damaged by   *)
(* hand, and tools/recovery.py, with which an operator makes the bot work  *)
(* off the posts after a given one.                                        *)
(*                                                                         *)
(* A dump is what it says of the crawler: its articles, the tombstones     *)
(* that can be read, whether they are a list without a bad value, and the  *)
(* high-water mark v2.2.1 wrote in place of tombstones.  A missing file,   *)
(* one that is no JSON, and one that _validate_dump_data rejects say       *)
(* nothing, like EmptyDump.                                                *)
(***************************************************************************)
EXTENDS Crawling

VARIABLE undone   \* history: posts recovery() has made unknown, until a page comes

dumpVars == <<vars, undone>>

Dumps == [articles : Collection, listed : SUBSET Ids, intact : BOOLEAN,
          mark : {{}} \cup {{i} : i \in Ids}]

\* The dumps there are: no list is longer than its writer's limit, counting
\* the value a damaged one has lost.
Found == {d \in Dumps :
            Cardinality(d.listed) + (IF d.intact THEN 0 ELSE 1) <= MaxTombstones}

\* Broken: a crawler with any tombstones has no need of its mark.
TombstonesInSkipping(dump) ==
  IF dump.listed # {} \/ dump.intact THEN dump.listed
  ELSE dump.mark \ DOMAIN dump.articles

\* load_data: the mark stands in for tombstones that are missing or damaged,
\* unless it is the id of a post that is still cached.
TombstonesIn(dump) ==
  dump.listed \cup IF dump.intact THEN {} ELSE dump.mark \ DOMAIN dump.articles

\* dump_data leaves out empty sets and writes no mark.
Dumped == [articles |-> cache, listed |-> tombstones,
           intact |-> tombstones # {}, mark |-> {}]

\* Broken: the comparison is the wrong way round.
RecoveryBackwards(dump, last) ==
  LET kept == {i \in DOMAIN dump.articles : i > last}
  IN [dump EXCEPT !.articles = [i \in kept |-> dump.articles[i]]]

\* recovery(): the articles after the last one known to be handled go; the
\* tombstones stay.
Recovery(dump, last) ==
  LET kept == {i \in DOMAIN dump.articles : i <= last}
  IN [dump EXCEPT !.articles = [i \in kept |-> dump.articles[i]]]

-----------------------------------------------------------------------------
\* The first start finds any dump.  Only an intact list may have let go of the
\* id the mark stands for.
DumpInit ==
  \E dump \in Found :
    /\ cache = dump.articles
    /\ tombstones = TombstonesIn(dump)
    /\ news = {} /\ updates = {} /\ removals = {}
    /\ seen = DOMAIN cache \cup tombstones \cup dump.mark
    /\ dropped = (IF dump.intact THEN dump.mark ELSE {}) \ (DOMAIN cache \cup tombstones)
    /\ evicted = {}
    /\ undone = {}

\* The bot stops and starts again; in between recovery() is told `last`, or,
\* when that is the largest id, is not run at all.
Restart(last) ==
  LET dump == Recovery(Dumped, last)
      gone == (DOMAIN cache \ DOMAIN dump.articles) \ tombstones
  IN /\ cache' = dump.articles
     /\ tombstones' = TombstonesIn(dump)
     /\ news' = {} /\ updates' = {} /\ removals' = {}
     /\ seen' = seen \ gone
     /\ undone' = undone \cup gone
     /\ UNCHANGED <<dropped, evicted>>

\* A cycle as in Crawling; its page ends the recovery.
Cycle ==
  \/ NoPage /\ UNCHANGED undone
  \/ \E page \in Pages : Crawl(page) /\ undone' = {}

DumpNext == Cycle \/ \E last \in Ids : Restart(last)

DumpSpec == DumpInit /\ [][DumpNext]_dumpVars

-----------------------------------------------------------------------------
(* Properties *)

\* What recovery() took out is announced by the next page that lists it, all of
\* it at once, when the recovery has left the crawler a post to compare with: only
\* a tombstone on that page with a larger id, which recovery() does not touch, can
\* stand in the way.
RecoveredAnnounced ==
  [][DOMAIN cache # {} =>
       \A i \in undone \cap DOMAIN cache' :
         (\A j \in DOMAIN cache' \cap tombstones : j < i) => i \in news']_dumpVars
=============================================================================
