------------------------------- MODULE MCBoard ------------------------------
(* Board with posts whose content never changes.  Each parser has a list     *)
(* whose pages may lack fields, with the rows its site is known for; then    *)
(* one longer list, and two lists, merged or wanted whole.                   *)
EXTENDS Board

MCIds == 1 .. 6
MCVersions == {1}

Crawler(urls, layouts, clean, mark, pins, posts) ==
  [urls |-> urls, layouts |-> layouts, clean |-> clean, mark |-> mark,
   pins |-> pins, posts |-> posts]
Damaged(layouts, mark, pins) == Crawler({"food"}, layouts, FALSE, mark, pins, 4)

MCCrawlers ==
  {Damaged({Clien}, "protest", FALSE),
   Damaged({CoolenjoyRSS}, "deleted", FALSE),
   Damaged({Damoang, DamoangOld}, "none", FALSE),
   Damaged({Fmkorea}, "none", FALSE),
   Damaged({Ppomppu}, "none", FALSE),
   Damaged({PpomppuRSS}, "none", FALSE),
   Damaged({QuasarzoneMobile}, "locked", FALSE),
   Damaged({Quasarzone, QuasarzoneTable}, "locked", FALSE),
   Damaged({Ruliweb}, "none", TRUE),
   Damaged({Zod}, "none", TRUE),
   Damaged({ArcaLive}, "none", FALSE),
   Crawler({"food"}, {Ruliweb}, TRUE, "none", FALSE, 6),
   Crawler({"food", "games"}, {Fmkorea}, TRUE, "none", FALSE, 4),
   Crawler({"food", "games"}, {Clien}, FALSE, "protest", FALSE, 3),
   Crawler({"food", "games"}, {ArcaLiveV2}, FALSE, "none", TRUE, 4)}
=============================================================================
