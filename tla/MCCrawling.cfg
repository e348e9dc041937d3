CONSTANTS
  Ids <- MCIds
  Versions <- MCVersions
  MaxTombstones = 2
SPECIFICATION DumpSpec
INVARIANTS MemoryComplete
PROPERTIES NeverTwice NewerAnnounced OldestForgottenFirst RecoveredAnnounced
