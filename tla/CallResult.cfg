SPECIFICATION CSpec
CONSTANTS
  Nodes <- MCNodes
  Programs <- MCPrograms
  Globals <- MCGlobals
PROPERTIES
  ResultKept
CHECK_DEADLOCK FALSE
