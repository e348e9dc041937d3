CONSTANTS
  Ids <- MCIds
  Versions <- MCVersions
  MaxTombstones = 3
  Posts <- MCIds
  Texts <- MCVersions
  Pictured <- MCPictured
  Faults = {"retryDelete"}
  MaxFaults = 1
  MaxCycles = 3
SPECIFICATION NotifierSpec
CHECK_DEADLOCK FALSE
PROPERTIES WithdrawnTakenDown
