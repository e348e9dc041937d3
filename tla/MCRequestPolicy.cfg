CONSTANTS
  Callers = {1, 2}
  Urls = {"hot", "deals"}
  Origins = {"site"}
  OriginOf <- MCOriginOf
  Settings <- MCSettings
  Attempts = 2
  Minute = 1
  Cooldown = 2
  RetryAfters = {0, 2}
  Nobody = 0
  MaxTime = 2
SPECIFICATION Spec
CHECK_DEADLOCK FALSE
INVARIANTS BackoffFollowsAnswers
PROPERTIES QuietAfterBusy NoDirectInWindow Ends
