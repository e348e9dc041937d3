------------------------------- MODULE MCStore ------------------------------
(* Three posts: with two contents and failing transactions, and with a       *)
(* client that reads them row by row.                                        *)
EXTENDS Articles

MCIds == 1 .. 3
MCVersions == 1 .. 2
MCBounds ==
  {[failures |-> 2, crawls |-> 3, contents |-> {1, 2}, reader |-> FALSE],
   [failures |-> 0, crawls |-> 3, contents |-> {1}, reader |-> TRUE]}
=============================================================================
