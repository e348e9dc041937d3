CONSTANTS
  Ids <- MCIds
  Versions <- MCVersions
  MaxTombstones = 3
  Posts <- MCIds
  Texts <- MCVersions
  Pictured <- MCPictured
  Faults = {"retry"}
  MaxFaults = 1
  MaxCycles = 4
SPECIFICATION NotifierSpec
CHECK_DEADLOCK FALSE
PROPERTIES WithdrawnTakenDown
