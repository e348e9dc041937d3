CONSTANTS
  NCrawlers = 2
  Entries = {"one", "two", "off", "unknown", "bad", "partial"}
  MaxMade = 4
SPECIFICATION Spec
INVARIANTS ListedIsOpen
PROPERTIES DumpForgetsNobody
