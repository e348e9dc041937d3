CONSTANTS
  Ids <- MCIds
  Versions <- MCVersions
  MaxTombstones = 2
  Bounds <- MCBounds
  Limit = 1
SPECIFICATION ArticlesSpec
INVARIANTS RowsFollowList
PROPERTIES ListedGetsRow WalkSkipsNothing
