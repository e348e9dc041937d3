CONSTANTS
  Ids <- MCIds
  Versions <- MCVersions
  MaxTombstones = 3
  Posts <- MCIds
  Texts <- MCVersions
  Pictured <- MCPictured
  Faults <- AllFaults
  MaxFaults = 2
  MaxCycles = 3
SPECIFICATION NotifierSpec
CHECK_DEADLOCK FALSE
INVARIANTS OwnMessage AtMostOneCard
PROPERTIES NoRegress KeepsPromise Converges
