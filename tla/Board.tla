------------------------------- MODULE Board --------------------------------
(***************************************************************************)
(* A crawler reading a real board.  Crawling allows any page after any     *)
(* page; here the pages come from a board whose posts get growing ids and  *)
(* are taken down for good, and whose lists show their newest PageSize     *)
(* posts.  The crawler requests every URL of url_list at once, and each    *)
(* list is read at its own moment, while the board goes on.                *)
(*                                                                         *)
(* The posts and lists are the site's, outside this repository; the        *)
(* parsers, the get() methods that merge what they read, and the           *)
(* comparison are the code's.                                              *)
(***************************************************************************)
EXTENDS Crawling, Parsers

CONSTANTS Lists,      \* filtered lists of one site
          PageSize,   \* posts the first page of a list shows
          Crawlers    \* crawlers to look at, see below

\* The lists in url_list; the class's parsing(), one for each layout of the site;
\* whether pages may lack fields; what the site makes of a post it takes down, a
\* row of another kind or none; whether its oldest post is a notice, pinned to its
\* list; and a bound: the posts there will be.
ASSUME CrawlersAssumption ==
  \A c \in Crawlers :
    /\ DOMAIN c = {"urls", "layouts", "clean", "mark", "pins", "posts"}
    /\ c.urls \in SUBSET Lists \ {{}} /\ c.layouts # {}
    /\ c.clean \in BOOLEAN /\ c.pins \in BOOLEAN /\ c.posts \in Nat
    /\ \A p \in c.layouts :
         c.mark \in p.skips \cup {"none"} /\ (c.pins => "notice" \in p.skips)
ASSUME ListsAssumption == IsFiniteSet(Lists)
ASSUME PageSizeAssumption == PageSize \in Nat \ {0}

VARIABLES
  crawler,   \* the crawler's class and configuration; never changes
  home,      \* post id -> the list it appears in, for the posts made so far
  hidden,    \* posts taken down
  answers    \* list -> the posts its response shows, those that are read, and
             \* whether parsing() raised

site == <<crawler, home, hidden>>
boardVars == <<vars, site, answers>>

Posted == DOMAIN home
Visible == Posted \ hidden
Urls == crawler.urls
\* ArcaLiveCrawlerV2 has a get() of its own, which wants every list.
Whole == ArcaLiveV2 \in crawler.layouts
Notices == {i \in Posted : crawler.pins /\ \A j \in Ids : i <= j}

\* The rows of a list's first page.
Rows(l) ==
  LET listed == {i \in IF crawler.mark = "none" THEN Visible ELSE Posted : home[i] = l}
  IN (Notices \cap listed) \cup Largest(listed \ Notices, PageSize)
Kind(l) == [i \in Rows(l) |-> IF i \in hidden THEN crawler.mark
                             ELSE IF i \in Notices THEN "notice" ELSE "deal"]
Shown(l) == Rows(l) \ (hidden \cup Notices)
Answered == DOMAIN answers

-----------------------------------------------------------------------------
BoardInit ==
  /\ Init /\ tombstones = {}
  /\ crawler \in Crawlers
  /\ home = [i \in {} |-> CHOOSE l \in Lists : TRUE]
  /\ hidden = {}
  /\ answers = [l \in {} |-> {}]

\* The site gives a new post the smallest id above those it gave before.
Post(l) ==
  /\ l \in Urls /\ Cardinality(Posted) < crawler.posts
  /\ \E i \in Ids \ Posted :
       /\ \A j \in Ids : j < i <=> j \in Posted
       /\ home' = [j \in Posted \cup {i} |-> IF j = i THEN l ELSE home[j]]
  /\ UNCHANGED <<vars, crawler, hidden, answers>>

Hide(i) ==
  /\ i \in Visible \ Notices
  /\ hidden' = hidden \cup {i}
  /\ UNCHANGED <<vars, crawler, home, answers>>

Answer(l, read, raised) ==
  /\ l \in Urls \ Answered
  /\ answers' = [m \in Answered \cup {l} |->
                   IF m = l THEN [shown |-> Shown(l), read |-> read, raised |-> raised]
                   ELSE answers[m]]
  /\ UNCHANGED <<vars, site>>

\* One of the gathered requests returns the list as it is now.
Respond(l) == \E p \in crawler.layouts : Answer(l, Deals(p, Kind(l)), FALSE)

\* The page, or one of its rows, lacks a field.
RespondDamaged(l) ==
  ~crawler.clean /\ \E p \in crawler.layouts, i \in Shown(l) :
    \E cost \in p.costs : Answer(l, Read(p, Kind(l), cost, i), cost = "get")

\* A request fails: it contributes nothing.
Fail(l) == Answer(l, {}, FALSE)

\* What get() returns; nothing when it raises.  The app API client gives up the
\* whole snapshot when one list is missing or empty, the others merge what there is.
Snapshot ==
  IF \E l \in Urls : answers[l].raised \/ (Whole /\ answers[l].read = {})
  THEN {}
  ELSE UNION {answers[l].read : l \in Urls}

\* All requests are done: get() returns and _crawling compares the page.
Cycle ==
  /\ Answered = Urls
  /\ IF Snapshot = {} THEN NoPage
     ELSE \E page \in [Snapshot -> Versions] : Crawl(page)
  /\ answers' = [l \in {} |-> {}]
  /\ UNCHANGED site

BoardNext ==
  \/ \E l \in Lists : Post(l) \/ Respond(l) \/ RespondDamaged(l) \/ Fail(l)
  \/ \E i \in Ids : Hide(i)
  \/ Cycle

BoardSpec == BoardInit /\ [][BoardNext]_boardVars

-----------------------------------------------------------------------------
(* Properties *)

\* Only posts of the board are cached, and responses show posts of their list.
BoardTypeOK ==
  /\ TypeOK
  /\ crawler \in Crawlers
  /\ Posted \subseteq Ids /\ home \in [Posted -> Urls]
  /\ hidden \subseteq Posted
  /\ Answered \subseteq Urls
  /\ \A l \in Answered :
       /\ answers[l].read \subseteq Posted /\ answers[l].raised \in BOOLEAN
       /\ answers[l].shown \subseteq {i \in Posted : home[i] = l}
  /\ seen \subseteq Posted

\* The crawler left a post out that its list showed, and merged the rest.
Overlooked(i) ==
  ~Whole /\ i \in answers[home[i]].shown \ answers[home[i]].read

\* The post scrolled off its list, while another list reaches further back.
Outpaced(i) ==
  /\ \A j \in answers[home[i]].shown : i < j
  /\ \E l \in Urls \ {home[i]} : \E j \in answers[l].read : j < i

\* A post reported as removed is gone from the site.  There are two exceptions:
\* a crawler that merges lists may have overlooked it, never the app API one,
\* and with several lists a denser one may have moved past it.
RemovedMeansGone ==
  /\ []BoardTypeOK
  /\ [][Cycle => \A i \in removals' \cap Visible : Overlooked(i) \/ Outpaced(i)]_boardVars

\* A crawler that overlooks nothing announces no post twice, even when takedowns
\* make the list slide back over posts the diff had dropped from its cache and
\* its tombstones; with several lists the limit of the tombstones can cost that.
AnnouncedOnce ==
  [][Cycle /\ (Whole \/ (crawler.clean /\ Cardinality(Urls) = 1)) =>
       news' \cap seen \subseteq IF Cardinality(Urls) = 1 THEN {} ELSE evicted']_boardVars
=============================================================================
