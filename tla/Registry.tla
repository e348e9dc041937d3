------------------------------ MODULE Registry ------------------------------
(***************************************************************************)
(* The crawlers of the configuration file: what startup and each reload    *)
(* make of the file's entries (init_crawlers), which objects live, and     *)
(* what of their article memory survives reloads, dumps and restarts.      *)
(*                                                                         *)
(* Names are numbered in the order of the file.  A name's entry is a       *)
(* version of its settings, "off" (disabled or absent), "unknown" (of a    *)
(* class that is not there), "bad" (the constructor raises), or "partial"  *)
(* (without its addresses: already the comparison with the old crawler     *)
(* raises).                                                                *)
(***************************************************************************)
EXTENDS Naturals, FiniteSets

CONSTANTS NCrawlers,    \* names the file may list
          Entries,      \* what an entry may be
          MaxMade       \* bound: crawler objects ever made

ASSUME NCrawlersAssumption == NCrawlers \in Nat \ {0}
ASSUME EntriesAssumption == "off" \in Entries
ASSUME MaxMadeAssumption == MaxMade \in Nat

Names == 1 .. NCrawlers
Versions == Entries \ {"off", "unknown", "bad", "partial"}

VARIABLES
  file,      \* the entry of each name
  readable,  \* the file is there and parses
  up,        \* the process runs
  table,     \* self.crawlers: the object of each name; 0 for none
  built,     \* of each object made: the entry it was made from
  open,      \* objects nobody has closed
  memory,    \* names with articles or tombstones in memory
  disk,      \* names with articles or tombstones in the dump
  stray      \* history: objects that reloads which raised went past

vars == <<file, readable, up, table, built, open, memory, disk, stray>>

Made == DOMAIN built
Listed == {table[n] : n \in Names} \ {0}
NoCrawlers == [n \in Names |-> 0]

-----------------------------------------------------------------------------
(* init_crawlers *)

\* The first entry that raises ends the reload; those before it have been reached.
Bad == {n \in Names : file[n] \in {"bad", "partial"}}
Raising == {n \in Bad : \A b \in Bad : n <= b}
Reached == {n \in Names : \A b \in Bad : n < b}

\* The entry is the one the object was made from: it goes on, and with it its
\* proxy and backoff state.
Reused(n) == table[n] # 0 /\ built[table[n]] = file[n]

Missing == {n \in Reached : file[n] \in Versions /\ ~Reused(n)}
Fresh(n) == Cardinality(Made) + Cardinality({m \in Missing : m <= n})

\* Broken: an object that goes on stays in the old table and is closed with what
\* is left there.
OutdatedOrReused == {n \in Names : table[n] # 0 /\ (n \in Reached \/ Bad = {})}

\* Objects closed: of entries that changed, as they are reached, also the one
\* whose constructor raises; at the end, if nothing raised, those without an entry.
Outdated ==
  {n \in Names : table[n] # 0 /\
     \/ n \in Reached /\ ~Reused(n) /\ file[n] # "off"
     \/ n \in Raising /\ file[n] = "bad"
     \/ Bad = {} /\ file[n] = "off"}

\* What a reload that raises goes past: objects without an entry, or of entries
\* it does not get to compare.
PastIt(n) == \/ file[n] = "off"
             \/ n \in Raising /\ file[n] = "partial"
             \/ n \notin Reached \cup Raising
Stranded == {table[n] : n \in {m \in Names : Bad # {} /\ table[m] # 0 /\ PastIt(m)}}

InitCrawlers ==
  /\ Cardinality(Made) + Cardinality(Missing) <= MaxMade
  /\ table' = [n \in Names |->
       IF n \in Missing THEN Fresh(n)
       ELSE IF n \in Reached /\ Reused(n) THEN table[n] ELSE 0]
  /\ built' = [i \in 1 .. Cardinality(Made) + Cardinality(Missing) |->
       IF i \in Made THEN built[i]
       ELSE file[CHOOSE n \in Missing : Fresh(n) = i]]
  /\ open' = (open \ {table[n] : n \in Outdated}) \cup {Fresh(n) : n \in Missing}

-----------------------------------------------------------------------------
(* Steps *)

Init ==
  /\ file \in [Names -> Entries] /\ readable = TRUE
  /\ up = FALSE /\ table = NoCrawlers /\ built = <<>> /\ open = {}
  /\ memory = {} /\ disk = {} /\ stray = {}

\* The operator changes an entry, or takes the file away and puts it back.
Edit(n) ==
  /\ \E e \in Entries : file' = [file EXCEPT ![n] = e]
  /\ UNCHANGED <<readable, up, table, built, open, memory, disk, stray>>
Misplace ==
  /\ readable' = ~readable
  /\ UNCHANGED <<file, up, table, built, open, memory, disk, stray>>

\* Broken: what the dump has of a crawler that is not listed is dropped.
RestoredListed == {n \in disk : table'[n] # 0}

\* deserialize_articles: a name the configuration does not list is kept.
Restored == disk

\* init_session: an entry that raises ends the process.
Start ==
  /\ ~up
  /\ IF readable THEN Bad = {} /\ InitCrawlers ELSE UNCHANGED <<table, built, open>>
  /\ up' = TRUE
  /\ memory' = Restored
  /\ UNCHANGED <<file, readable, disk, stray>>

\* crawling(): some of the listed crawlers get a page.
Crawl ==
  /\ up
  /\ \E answered \in SUBSET {n \in Names : table[n] # 0} : memory' = memory \cup answered
  /\ UNCHANGED <<file, readable, up, table, built, open, disk, stray>>

\* dump_data
Saved == memory

Reload ==
  /\ up
  /\ disk' = Saved
  /\ IF readable THEN InitCrawlers ELSE UNCHANGED <<table, built, open>>
  /\ stray' = IF readable THEN stray \cup Stranded ELSE stray
  /\ UNCHANGED <<file, readable, up, memory>>

\* The process ends, with a last dump or without.
Gone ==
  /\ up /\ up' = FALSE
  /\ table' = NoCrawlers /\ open' = {} /\ memory' = {} /\ stray' = {}
  /\ UNCHANGED <<file, readable, built>>
Stop == Gone /\ disk' = Saved
Crash == Gone /\ UNCHANGED disk

Next ==
  \/ Start \/ Crawl \/ Reload \/ Stop \/ Crash
  \/ Misplace \/ \E n \in Names : Edit(n)

Spec == Init /\ [][Next]_vars

-----------------------------------------------------------------------------
(* Properties *)

\* Shape of the state; no object serves two names.
TypeOK ==
  /\ file \in [Names -> Entries] /\ readable \in BOOLEAN /\ up \in BOOLEAN
  /\ table \in [Names -> 0 .. MaxMade]
  /\ built \in [Made -> Versions] /\ Made = 1 .. Cardinality(Made)
  /\ open \subseteq Made
  /\ memory \subseteq Names /\ disk \subseteq Names /\ stray \subseteq Made
  /\ \A m, n \in Names : table[m] = table[n] /\ table[m] # 0 => m = n

\* Whatever reloads reuse, replace and give up, a crawler that is crawled has
\* not been closed, and one that is not crawled has been, or its HTTP session
\* would stay open until the process ends.  A reload that raises in the middle
\* of the file leaves open what it went past, and nothing else (init_crawlers).
ListedIsOpen ==
  /\ TypeOK
  /\ Listed \subseteq open
  /\ open \subseteq Listed \cup stray

\* Once the dump has what a crawler knows, it is never lost, whatever happens to
\* the crawler's entry: switched off, broken or missing while the process
\* reloads, crashes and starts again (deserialize_articles, dump_data).
DumpForgetsNobody == [][disk \subseteq disk']_vars
=============================================================================
