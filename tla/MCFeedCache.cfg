CONSTANTS
  Keys = {rss, atom}
  Requests = {r1, r2, r3}
  None = none
  TTL = 2
  MaxSize = 1
  MaxTime = 4
SPECIFICATION Spec
CHECK_DEADLOCK FALSE
INVARIANTS SingleFlight LocksInUse NeverOlder
PROPERTIES Answers
