--------------------------- MODULE MCRequestPolicy --------------------------
(* RequestPolicy with two boards of one site, for three kinds of crawlers. *)
EXTENDS RequestPolicy, TLC

MCOriginOf == [u \in Urls |-> CHOOSE o \in Origins : TRUE]

\* Behind a fallback proxy, with delays and without; and one that asks for a
\* URL twice, without a proxy.
Boards == 1 :> "hot" @@ 2 :> "deals"
Twice == 1 :> "hot" @@ 2 :> "hot"
Crawler(mode, codes, delays, url) ==
  [mode |-> mode, codes |-> codes, delays |-> delays, url |-> url]
MCSettings ==
  {Crawler("fallback", {"blocked", "busy"}, <<1, 2>>, Boards),
   Crawler("fallback", {}, <<>>, Boards),
   Crawler("set", {"blocked", "busy"}, <<1, 2>>, Twice)}
=============================================================================
