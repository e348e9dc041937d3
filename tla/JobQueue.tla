------------------------------ MODULE JobQueue ------------------------------
(***************************************************************************)
(* What a bot's job queue promises to the manager: jobs are finished one   *)
(* at a time, from the front, in the order they were put, and every job is *)
(* finished in the end.  How the bot carries a job out, waits for          *)
(* Telegram, is stopped for a dump or resumed does not show.               *)
(***************************************************************************)
EXTENDS Sequences, Naturals

CONSTANT Jobs

VARIABLE pending      \* the jobs not finished, oldest first

Init == pending = <<>>

\* Some jobs are put behind those that wait.
Put ==
  /\ pending' \in Seq(Jobs)
  /\ Len(pending') > Len(pending)
  /\ SubSeq(pending', 1, Len(pending)) = pending

Finish == pending # <<>> /\ pending' = Tail(pending)

Next == Put \/ Finish

Fairness == WF_pending(Finish)

Safety == Init /\ [][Next]_pending

Spec == Safety /\ Fairness
=============================================================================
