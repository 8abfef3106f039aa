SPECIFICATION Spec
CONSTANTS
  Files = {"main", "h", "k"}
  Macros = {"G", "D"}
  Texts = {"", "h", "k", "m", "n", "don't"}
  MaxOpen = 4
  Programs <- MCPrograms
INVARIANTS
  TypeOK
  ReadsChosenGroups
  GuardsAreSound
  MatchesGroups
PROPERTIES
  Terminates
CHECK_DEADLOCK FALSE
