----------------------------- MODULE MCNotifier -----------------------------
(* Notifier with a few posts, two contents and one or two faults. *)
EXTENDS Notifier

MCIds == 1..3
MCVersions == 1..2
MCPictured == {2}
AllFaults == {"retry", "retryDelete", "timeout", "reject", "picture",
              "cancel", "cancelLate"}
=============================================================================
