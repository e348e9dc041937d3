------------------------------ MODULE Parsers -------------------------------
(***************************************************************************)
(* What the parsing() methods make of a list page.                         *)
(*                                                                         *)
(*   costs    what the lack of a field costs, over all the fields a page   *)
(*            or a row must have: "row", the row is skipped; "page",       *)
(*            parsing() gives up and returns {}; "get", parsing() raises,  *)
(*            and get() with it                                            *)
(*   skips    kinds of rows that are left out although nothing is missing  *)
(***************************************************************************)
EXTENDS Naturals

Clien == [costs |-> {"row", "page", "get"}, skips |-> {"protest", "spam"}]

CoolenjoyRSS == [costs |-> {"row", "page"}, skips |-> {"deleted"}]

\* The site's present layout, and the older one, tried when no row has the present.
Damoang == [costs |-> {"row", "page", "get"}, skips |-> {}]
DamoangOld == [costs |-> {"row", "page", "get"}, skips |-> {"hidden"}]

Fmkorea == [costs |-> {"row", "page", "get"}, skips |-> {}]

\* Rows without a number are those of other boards.
Ppomppu == [costs |-> {"row", "page", "get"}, skips |-> {"other board"}]

PpomppuRSS == [costs |-> {"row", "page", "get"}, skips |-> {}]

QuasarzoneMobile == [costs |-> {"row", "page"}, skips |-> {"locked"}]

\* Rows of the present layout, and table rows.
Quasarzone == [costs |-> {"row", "page"}, skips |-> {"locked", "partner"}]
QuasarzoneTable == [Quasarzone EXCEPT !.skips = {"locked"}]

Ruliweb == [costs |-> {"row", "page"}, skips |-> {"best", "notice"}]

Zod == [costs |-> {"row", "page", "get"}, skips |-> {"notice", "partner"}]

ArcaLive == [costs |-> {"row", "page"}, skips |-> {}]

\* A snapshot of the app API must not be partial: a row without a field costs
\* the page.
ArcaLiveV2 == [costs |-> {"page"}, skips |-> {"notice"}]

-----------------------------------------------------------------------------
\* Broken: notices are read like posts.
DealsAndNotices(parser, kind) == {i \in DOMAIN kind : kind[i] \notin parser.skips \ {"notice"}}

\* The posts among the rows; kind says what each row is.
Deals(parser, kind) == {i \in DOMAIN kind : kind[i] \notin parser.skips}

\* What is read of a page that lacks a field, of row i if that costs the row.
Read(parser, kind, cost, i) == IF cost = "row" THEN Deals(parser, kind) \ {i} ELSE {}
=============================================================================
