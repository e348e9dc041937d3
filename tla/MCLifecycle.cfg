CONSTANTS
  NBots = 2
  Outcomes = {"same", "missing", "badCrawler", "badBot", "changed", "disabled"}
  MaxPosts = 2
  MaxReloads = 2
  MaxCrashes = 1
  MaxStarts = 2
  MaxFailures = 1
SPECIFICATION Spec
CHECK_DEADLOCK FALSE
INVARIANTS NothingForgotten SnapshotComplete NoRepeatWithoutLapse
PROPERTIES DumpNeverRegresses Served StopsWhenTold
