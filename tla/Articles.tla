------------------------------ MODULE Articles ------------------------------
(***************************************************************************)
(* GET /articles beside the writer of the table.  Rows get their ULID when *)
(* they are inserted and keep it while they are hidden and shown again; a  *)
(* client asks for what came after the newest row it knows, newest first,  *)
(* page by page with `offset` as long as the answer says has_more.  The    *)
(* rows and their number are two queries.                                  *)
(***************************************************************************)
EXTENDS Store, SequencesExt

CONSTANT Limit     \* rows of a page: the client's `limit`

ASSUME LimitAssumption == Limit \in Nat \ {0}

VARIABLES
  order,      \* ids of the rows, by ULID; kept when there is a client
  at,         \* the client: "idle" between walks, "counting", "paging"
  after,      \* the newest row it knows, as a position in order; 0 for none
  offset,     \* rows of this walk it has been given, twice given ones too
  got,        \* the rows it was given in this walk
  disturbed   \* history: a row was hidden or shown again during this walk

clientVars == <<at, after, offset, got, disturbed>>
articlesVars == <<storeVars, order, clientVars>>

-----------------------------------------------------------------------------
ArticlesInit ==
  /\ StoreInit
  /\ order = <<>>
  /\ at = "idle" /\ after = 0 /\ offset = 0 /\ got = {}
  /\ disturbed = FALSE

\* The rows one transaction inserts get ULIDs of one moment, in any order.
Write ==
  /\ StoreNext
  /\ \E s \in SetToSeqs(IF bound.reader THEN DOMAIN rows' \ DOMAIN rows ELSE {}) :
       order' = order \o s
  /\ disturbed' = (at # "idle" /\ (disturbed \/ \E i \in DOMAIN rows : Up(i) # rows'[i].up))
  /\ UNCHANGED <<at, after, offset, got>>

\* The rows behind `after` that are not deleted.
Matching == {k \in after + 1 .. Len(order) : Up(order[k])}
Newer(k) == {j \in Matching : j > k}

\* list_articles: order by id descending, offset, limit.
Page ==
  /\ bound.reader /\ at \in {"idle", "paging"}
  /\ LET page == {k \in Matching : Cardinality(Newer(k)) \in offset .. offset + Limit - 1}
     IN  /\ got' = got \cup page
         /\ offset' = offset + Cardinality(page)
  /\ at' = "counting"
  /\ UNCHANGED <<storeVars, order, after, disturbed>>

\* Broken: has_more does not see a last page of one row.
HasMoreShort == offset < Cardinality(Matching) - 1

\* has_more = offset + len(articles) < total
HasMore == offset < Cardinality(Matching)

\* The number of rows, counted by a second query, ends the walk or not.
Count ==
  /\ at = "counting"
  /\ IF HasMore
     THEN at' = "paging" /\ UNCHANGED <<after, offset, got, disturbed>>
     ELSE /\ at' = "idle"
          /\ after' = Max(got \cup {after})
          /\ offset' = 0 /\ got' = {}
          /\ disturbed' = FALSE
  /\ UNCHANGED <<storeVars, order>>

ArticlesNext == Write \/ Page \/ Count

ArticlesSpec == ArticlesInit /\ [][ArticlesNext]_articlesVars /\ StoreFairness

-----------------------------------------------------------------------------
(* Properties *)

\* Shape of the state; every row has one ULID.
ArticlesTypeOK ==
  /\ at \in {"idle", "counting", "paging"}
  /\ bound.reader => ToSet(order) = DOMAIN rows
  /\ Len(order) = Cardinality(ToSet(order))
  /\ after \in 0 .. Len(order) /\ offset \in Nat
  /\ got \subseteq after + 1 .. Len(order)
  /\ disturbed \in BOOLEAN

\* A walk that ends has been given every row that shows up to its new starting
\* point, however rows came while it went on; only rows that were hidden or
\* shown again meanwhile can make `offset` skip one.
WalkSkipsNothing ==
  /\ []ArticlesTypeOK
  /\ [][at = "counting" /\ at' = "idle" /\ ~disturbed =>
          Matching \cap 1 .. after' \subseteq got]_articlesVars
=============================================================================
