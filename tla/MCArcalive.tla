----------------------------- MODULE MCArcalive -----------------------------
(* Two lists of one channel, and one of another that may show its post. *)
EXTENDS Arcalive

MCSlugOf == [u \in Requests |-> IF u < 3 THEN "hotdeal" ELSE "games"]
MCContents ==
  [u \in Requests |-> IF u < 3 THEN {{}, {"deal"}} ELSE {{}, {"deal"}, {"game"}}]
=============================================================================
