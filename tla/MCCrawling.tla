----------------------------- MODULE MCCrawling -----------------------------
(* Crawling from every dump, with every page over four ids and two contents. *)
EXTENDS Dump

MCIds == 1..4
MCVersions == 1..2
=============================================================================
