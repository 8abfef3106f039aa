SPECIFICATION CSpec
CONSTANTS
  Nodes <- MCNodes
  Programs <- MCPrograms
  Globals <- MCGlobals
INVARIANTS
  TypeOK
  AssertsHold
  TempsKept
  ArgsArrive
  DepthAgrees
PROPERTIES
  ReturnsHome
  Halts
CHECK_DEADLOCK FALSE
