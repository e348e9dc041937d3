CONSTANTS
  Requests = {r1, r2, r3}
  Limits = {0, 1, 2}
  Minute = 2
  Hour = 5
  MaxWait = 2
  MaxTime = 9
SPECIFICATION Spec
CHECK_DEADLOCK FALSE
INVARIANTS QuotaKept
PROPERTIES WindowsApart
