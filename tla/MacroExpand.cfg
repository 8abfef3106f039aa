SPECIFICATION Spec
CONSTANTS
  Tables <- MCTables
  Programs <- MCPrograms
  Directives <- Lines
INVARIANTS
  TypeOK
  MatchesExpansion
PROPERTIES
  Terminates
CHECK_DEADLOCK FALSE
